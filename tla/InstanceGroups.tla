--------------------------- MODULE InstanceGroups ---------------------------
(***************************************************************************)
(* The groups of go2rtc instances in the sidebars of the manager and the   *)
(* viewer: instances of one label, of addresses that overlap, or of one    *)
(* host; sorted by group and then by instance, paged, and opened at the    *)
(* page of a selected instance.                                            *)
(*                                                                         *)
(* Names, hosts, labels and addresses are the numbers of their places in   *)
(* the order of texts; no name begins another name.                        *)
(***************************************************************************)
EXTENDS Integers, Sequences, SequencesExt, FiniteSetsExt, Excerpts

CONSTANTS
    Fleets,     \* filtered instances: primary key -> instance
    Orders,     \* orders in which a process meets the addresses of its sets
    Sorts,      \* sort modes
    Sizes,      \* page sizes
    Asked,      \* pages a request asks for, 0 for none
    Chosen      \* primary keys a request selects, 0 for none

\* listed: the place at which the query returns the instance
Instance == [name : Nat, host : Nat, label : Nat, ips : SUBSET Nat,
             created : Nat, streams : Nat, status : Nat, listed : Nat]

\* Keys count from 1, names and places are unique; an order lists every address.
ASSUME GroupsAssumption ==
    /\ \A fleet \in Fleets :
          /\ DOMAIN fleet \subseteq Nat \ {0} /\ IsFiniteSet(DOMAIN fleet)
          /\ \A k \in DOMAIN fleet : fleet[k] \in Instance /\ IsFiniteSet(fleet[k].ips)
          /\ \A k, l \in DOMAIN fleet :
                fleet[k].name = fleet[l].name \/ fleet[k].listed = fleet[l].listed => k = l
          /\ \A order \in Orders, k \in DOMAIN fleet : fleet[k].ips \subseteq ToSet(order)
    /\ Orders \subseteq Seq(Nat)
    /\ Sizes \subseteq Nat \ {0} /\ Asked \subseteq Nat /\ 0 \in Chosen

VARIABLE view   \* the sidebar a request was shown

NoView == [kind |-> "none"]

ViewInit == view = NoView
-----------------------------------------------------------------------------
\* group_go2rtc_instances

\* The query counts the streams of an instance, and drops the order of the model
\* for it: the instances come in any order.
Listed(fleet) ==
    Ranked(DOMAIN fleet, {p \in (DOMAIN fleet) \X (DOMAIN fleet) : fleet[p[1]].listed < fleet[p[2]].listed})

\* find
Root(parent) ==
    LET root[k \in DOMAIN parent] == IF parent[k] = k THEN k ELSE root[parent[k]]
    IN root

\* Mutant: the second node is hung on its new root, and not its root.
UnionNodes(parent, a, b) == [parent EXCEPT ![b] = Root(parent)[a]]

Union(parent, a, b) == [parent EXCEPT ![Root(parent)[a]] = Root(parent)[b]]

Automatic(fleet) == {k \in DOMAIN fleet : fleet[k].label = 0}

\* The automatic instances that expose an address.
Exposing(fleet, ip) == Keep(Listed(fleet), {k \in Automatic(fleet) : ip \in fleet[k].ips})

\* The first key is united with each of the others.
Unite(parent, keys) ==
    LET with[n \in 0..Len(keys)] ==
            IF n <= 1 THEN parent ELSE Union(with[n - 1], keys[1], keys[n])
    IN with[Len(keys)]

\* Every address unites the instances that expose it.
Roots(fleet, order) ==
    LET after[n \in 0..Len(order)] ==
            IF n = 0 THEN [k \in Automatic(fleet) |-> k]
            ELSE Unite(after[n - 1], Exposing(fleet, order[n]))
    IN Root(after[Len(order)])

\* A dictionary of lists: the keys of every mark, in the order in which the
\* marks first occur.
Buckets(keys, marks) ==
    LET values == Excerpt(marks, FirstPlaces(marks))
    IN [i \in DOMAIN values |-> Excerpt(keys, {j \in DOMAIN keys : marks[j] = values[i]})]

\* The label of a group is a text and the number of hosts it does not name.
LabelOf(fleet, members) ==
    LET hosts == {fleet[k].host : k \in members}
        shared == {ip \in UNION {fleet[k].ips : k \in members} : \A k \in members : ip \in fleet[k].ips}
    IN IF Cardinality(hosts) = 1 \/ shared = {} THEN <<Min(hosts), Cardinality(hosts) - 1>>
       ELSE <<Min(shared), 0>>

Labelled(fleet) == Keep(Listed(fleet), {k \in DOMAIN fleet : fleet[k].label # 0})

Addressed(fleet) == Keep(Listed(fleet), {k \in Automatic(fleet) : fleet[k].ips # {}})

Unresolved(fleet) == Keep(Listed(fleet), {k \in Automatic(fleet) : fleet[k].ips = {}})

Marked(keys, mark) == Buckets(keys, [j \in DOMAIN keys |-> mark[keys[j]]])

Groups(fleet, order) ==
    LET manual == Marked(Labelled(fleet), [k \in DOMAIN fleet |-> fleet[k].label])
        auto == Marked(Addressed(fleet), Roots(fleet, order))
        fallback == Marked(Unresolved(fleet), [k \in DOMAIN fleet |-> fleet[k].host])
    IN [i \in DOMAIN manual |-> [label |-> <<fleet[manual[i][1]].label, 0>>, members |-> manual[i]]]
       \o [i \in DOMAIN auto |-> [label |-> LabelOf(fleet, ToSet(auto[i])), members |-> auto[i]]]
       \o [i \in DOMAIN fallback |-> [label |-> <<fleet[fallback[i][1]].host, 0>>, members |-> fallback[i]]]
-----------------------------------------------------------------------------
\* sort_go2rtc_instance_groups

\* Keys are compared part by part.
Precedes(s, t) ==
    \E i \in DOMAIN s : s[i] < t[i] /\ \A j \in 1..(i - 1) : s[j] = t[j]

\* Members with equal keys stay in their order.
StableSort(seq, keys) ==
    LET before == {p \in (DOMAIN seq) \X (DOMAIN seq) :
                      \/ Precedes(keys[p[1]], keys[p[2]])
                      \/ keys[p[1]] = keys[p[2]] /\ p[1] < p[2]}
        place == Ranked(DOMAIN seq, before)
    IN [i \in DOMAIN place |-> seq[place[i]]]

InstanceKey(fleet, k, sort) ==
    CASE sort = "newest" -> <<-fleet[k].created, -k>>
      [] sort = "name_desc" -> <<-fleet[k].name, k>>
      [] sort = "streams_desc" -> <<-fleet[k].streams, fleet[k].name, k>>
      [] sort = "streams_asc" -> <<fleet[k].streams, fleet[k].name, k>>
      [] sort = "status" -> <<fleet[k].status, fleet[k].name, k>>
      [] OTHER -> <<fleet[k].name, k>>

\* The first place of a member when all instances are sorted.
Anchor(fleet, group, sort) ==
    LET before(k) == {l \in DOMAIN fleet : Precedes(InstanceKey(fleet, l, sort), InstanceKey(fleet, k, sort))}
    IN Min({Cardinality(before(k)) : k \in ToSet(group.members)})

\* Texts are reversed letter by letter: of two labels of which one begins the
\* other, the shorter one is still the first.
GroupKey(fleet, group, sort) ==
    LET newest == Max({fleet[k].created : k \in ToSet(group.members)})
        worst == Min({fleet[k].status : k \in ToSet(group.members)})
    IN CASE sort = "newest" -> <<-newest>> \o group.label
         [] sort = "name_desc" -> <<-group.label[1], Min({1, group.label[2]}), -group.label[2]>>
         [] sort \in {"streams_desc", "streams_asc"} -> <<Anchor(fleet, group, sort)>> \o group.label
         [] sort = "status" -> <<worst>> \o group.label \o <<-newest>>
         [] OTHER -> group.label

SortedMembers(fleet, group, sort) ==
    [group EXCEPT !.members = StableSort(@, [i \in DOMAIN @ |-> InstanceKey(fleet, @[i], sort)])]

Sorted(fleet, order, sort) ==
    LET groups == Groups(fleet, order)
        labelled == StableSort(groups, [i \in DOMAIN groups |-> groups[i].label])
        inner == [i \in DOMAIN labelled |-> SortedMembers(fleet, labelled[i], sort)]
    IN StableSort(inner, [i \in DOMAIN inner |-> GroupKey(fleet, inner[i], sort)])
-----------------------------------------------------------------------------
\* Go2RTCManagerView, Go2RTCInstanceViewerView

NumPages(groups, size) == Max({1, (Len(groups) + size - 1) \div size})

PageOf(groups, size, page) ==
    SubSeq(groups, (page - 1) * size + 1, Min({page * size, Len(groups)}))

\* find_go2rtc_group_page
FindPage(groups, selected, size) ==
    LET at == {i \in DOMAIN groups : selected \in ToSet(groups[i].members)}
    IN IF at = {} THEN 1 ELSE (Min(at) - 1) \div size + 1

\* No page is the first one, and a page behind the last one is the last.
Resolve(asked, pages) == IF asked = 0 THEN 1 ELSE Min({asked, pages})

ManagerPage(groups, asked, selected, size) ==
    IF asked = 0 /\ selected # 0 THEN FindPage(groups, selected, size) ELSE asked

ViewerPage(groups, asked, selected, size, fleet) ==
    IF asked = 0 /\ selected \in DOMAIN fleet THEN FindPage(groups, selected, size) ELSE asked

Show(kind, fleet, sort, size, asked, selected, groups, wanted) ==
    view' = [kind |-> kind, fleet |-> fleet, sort |-> sort, size |-> size, asked |-> asked,
             selected |-> selected, groups |-> groups,
             page |-> Resolve(wanted, NumPages(groups, size))]

BrowseManager(fleet, order, sort, size, asked, selected) ==
    LET groups == Sorted(fleet, order, sort)
    IN Show("manager", fleet, sort, size, asked, selected, groups,
            ManagerPage(groups, asked, selected, size))

BrowseViewer(fleet, order, sort, size, asked, selected) ==
    LET groups == Sorted(fleet, order, sort)
    IN Show("viewer", fleet, sort, size, asked, selected, groups,
            ViewerPage(groups, asked, selected, size, fleet))

ViewNext ==
    /\ view = NoView
    /\ \E fleet \in Fleets, order \in Orders, sort \in Sorts, size \in Sizes, asked \in Asked, k \in Chosen :
          \/ BrowseManager(fleet, order, sort, size, asked, k)
          \/ BrowseViewer(fleet, order, sort, size, asked, k)

SidebarSpec == ViewInit /\ [][ViewNext]_view
-----------------------------------------------------------------------------
\* Properties

\* Two automatic instances are connected when no set of instances that is
\* closed under sharing an address divides them.
Connected(fleet, a, b) ==
    \A S \in SUBSET Automatic(fleet) :
        a \in S /\ (\A k \in S, l \in Automatic(fleet) : fleet[k].ips \cap fleet[l].ips # {} => l \in S)
        => b \in S

Together(fleet, a, b) ==
    \/ fleet[a].label # 0 /\ fleet[a].label = fleet[b].label
    \/ /\ {a, b} \subseteq Automatic(fleet)
       /\ \/ fleet[a].ips # {} /\ fleet[b].ips # {} /\ Connected(fleet, a, b)
          \/ fleet[a].ips = {} /\ fleet[b].ips = {} /\ fleet[a].host = fleet[b].host

\* A sidebar groups every instance once: together are exactly those of one
\* label, those without a label that a chain of shared addresses connects, and
\* those without addresses of one host, in whatever order a process meets the
\* addresses. Its pages divide the groups, the page shown is one of them, and
\* without a page of its own a request for an instance of the list is shown
\* the page of its group (services.py:93-251, views.py:419-438, 747-772).
SidebarRight ==
    view # NoView =>
        LET fleet == view.fleet
            groups == view.groups
            pages == NumPages(groups, view.size)
            shown == PageOf(groups, view.size, view.page)
        IN /\ UNION {ToSet(groups[i].members) : i \in DOMAIN groups} = DOMAIN fleet
           /\ \A i, j \in DOMAIN groups, a, b \in DOMAIN fleet :
                 a \in ToSet(groups[i].members) /\ b \in ToSet(groups[j].members)
                 => (i = j <=> a = b \/ Together(fleet, a, b))
           /\ \A i \in DOMAIN groups : IsInjective(groups[i].members)
           /\ FlattenSeq([p \in 1..pages |-> PageOf(groups, view.size, p)]) = groups
           /\ view.page \in 1..pages
           /\ view.asked = 0 /\ view.selected \in DOMAIN fleet =>
                 \E i \in DOMAIN shown : view.selected \in ToSet(shown[i].members)
=============================================================================
