---------------------------- MODULE TaskActivity ----------------------------
(***************************************************************************)
(* The markers of running tasks that the navigation bar of ReconEye shows. *)
(* One map in the cache holds them all.  A task that starts loads the map, *)
(* adds its marker and saves the map; one that ends loads it and saves it  *)
(* without the marker; a page load drops the expired markers the same way. *)
(* Nothing orders the load of one and the save of another.  A retry and a  *)
(* redelivery have the id, and so the marker, of the first run.            *)
(***************************************************************************)
EXTENDS Naturals

CONSTANTS
    Processes,   \* worker processes
    Pages,       \* web threads that show the summary
    Ids,         \* ids of tasks
    MaxStarts    \* bound on the runs begun

ASSUME ActAssumption == MaxStarts \in Nat

VARIABLES
    activity,    \* id -> the run whose marker the stored map holds; 0 is none
    expired,     \* the runs whose marker's expires_at has passed
    act,         \* worker -> step of track_task_activity, id and run, the map loaded
    page,        \* web thread -> the map it loaded and the one it is about to save
    starts,      \* runs begun: a run has the number it began with
    overwritten, \* history: ids whose marker a save from an older map dropped or brought back
    shared       \* history: ids of more than one run

actVars == <<activity, expired, act, page, starts, overwritten, shared>>

NoTask == [at |-> "idle"]
At(step, id, n, map) == [at |-> step, id |-> id, run |-> n, map |-> map]

NotSaving == [at |-> "idle"]
Saving(loaded, map) == [at |-> "saving", loaded |-> loaded, map |-> map]

NoMarkers == [id \in Ids |-> 0]

ActInit ==
    /\ activity = NoMarkers
    /\ expired = {}
    /\ act = [w \in Processes |-> NoTask]
    /\ page = [v \in Pages |-> NotSaving]
    /\ starts = 0
    /\ overwritten = {} /\ shared = {}

\* The ids whose marker has changed since the map was loaded.
ChangedSince(loaded) == {id \in Ids : activity[id] # loaded[id]}

\* cache.set (or delete, when nothing is left) of a map that was read as `loaded`.
SaveMap(map, loaded) ==
    /\ activity' = map
    /\ overwritten' = overwritten \cup ChangedSince(loaded)

\* The map without the marker of an id.
Without(map, id) == [map EXCEPT ![id] = 0]

\* _purge_expired
Purged(map) == [id \in Ids |-> IF map[id] \in expired THEN 0 ELSE map[id]]

\* register_task_start: load ...
LoadForStart(w, id) ==
    /\ act[w].at = "idle" /\ starts < MaxStarts
    /\ starts' = starts + 1
    /\ act' = [act EXCEPT ![w] = At("starting", id, starts + 1, activity)]
    /\ UNCHANGED <<activity, expired, page, overwritten, shared>>

\* Mutant: the map is saved with the new marker only.
OwnMarker(loaded, id, n) == [NoMarkers EXCEPT ![id] = n]

WithMarker(loaded, id, n) == [loaded EXCEPT ![id] = n]

Running(w, id) == act[w].at \in {"entered", "body", "leaving", "finishing"} /\ act[w].id = id

\* ... and save: the marker is new, also where the map has one of this id.
SaveStart(w) ==
    /\ act[w].at = "starting"
    /\ LET id == act[w].id
           others == {v \in Processes : Running(v, id)}
       IN /\ activity' = WithMarker(act[w].map, id, act[w].run)
          /\ overwritten' = (overwritten \cup ChangedSince(act[w].map)) \ {id}
          /\ shared' = IF others = {} THEN shared \ {id} ELSE shared \cup {id}
          /\ act' = [act EXCEPT ![w] = At("entered", id, act[w].run, NoMarkers)]
    /\ UNCHANGED <<expired, page, starts>>

\* The body of the task begins, and ends with or without an exception.
EnterBody(w) ==
    /\ act[w].at = "entered"
    /\ act' = [act EXCEPT ![w].at = "body"]
    /\ UNCHANGED <<activity, expired, page, starts, overwritten, shared>>

LeaveBody(w) ==
    /\ act[w].at = "body"
    /\ act' = [act EXCEPT ![w].at = "leaving"]
    /\ UNCHANGED <<activity, expired, page, starts, overwritten, shared>>

\* register_task_finish: load, and save only when the marker is there.
LoadForFinish(w) ==
    /\ act[w].at = "leaving"
    /\ act' = [act EXCEPT ![w] =
          IF activity[act[w].id] # 0 THEN At("finishing", act[w].id, act[w].run, activity)
          ELSE NoTask]
    /\ UNCHANGED <<activity, expired, page, starts, overwritten, shared>>

SaveFinish(w) ==
    /\ act[w].at = "finishing"
    /\ SaveMap(Without(act[w].map, act[w].id), act[w].map)
    /\ act' = [act EXCEPT ![w] = NoTask]
    /\ UNCHANGED <<expired, page, starts, shared>>

\* The worker process dies: nobody removes its marker.
KillTask(w) ==
    /\ act[w].at # "idle"
    /\ act' = [act EXCEPT ![w] = NoTask]
    /\ UNCHANGED <<activity, expired, page, starts, overwritten, shared>>

\* get_active_task_summary: load and filter, and save only when that dropped a
\* marker.
LoadSummary(v) ==
    /\ page[v].at = "idle"
    /\ Purged(activity) # activity
    /\ page' = [page EXCEPT ![v] = Saving(activity, Purged(activity))]
    /\ UNCHANGED <<activity, expired, act, starts, overwritten, shared>>

SaveSummary(v) ==
    /\ page[v].at = "saving"
    /\ SaveMap(page[v].map, page[v].loaded)
    /\ page' = [page EXCEPT ![v] = NotSaving]
    /\ UNCHANGED <<expired, act, starts, shared>>

\* The hour of a marker passes, also while its task runs.
MarkerExpires(id) ==
    /\ activity[id] \notin expired \cup {0}
    /\ expired' = expired \cup {activity[id]}
    /\ UNCHANGED <<activity, act, page, starts, overwritten, shared>>

ActStep(w) ==
    \/ \E id \in Ids : LoadForStart(w, id)
    \/ SaveStart(w) \/ LoadForFinish(w) \/ SaveFinish(w)

PageStep == \E v \in Pages : LoadSummary(v) \/ SaveSummary(v)

ActNext ==
    \/ \E w \in Processes : ActStep(w) \/ EnterBody(w) \/ LeaveBody(w) \/ KillTask(w)
    \/ PageStep
    \/ \E id \in Ids : MarkerExpires(id)

ActSpec == ActInit /\ [][ActNext]_actVars
-----------------------------------------------------------------------------
ActTypeOK ==
    /\ activity \in [Ids -> 0..starts]
    /\ expired \subseteq 1..starts
    /\ overwritten \cup shared \subseteq Ids
    /\ starts \in 0..MaxStarts
    /\ \A w \in Processes :
          \/ act[w] = NoTask
          \/ /\ act[w].at \in {"starting", "entered", "body", "leaving", "finishing"}
             /\ act[w].id \in Ids /\ act[w].run \in 1..starts
             /\ act[w].map \in [Ids -> 0..starts]
    /\ \A v \in Pages :
          page[v].at = "saving" => {page[v].loaded, page[v].map} \subseteq [Ids -> 0..starts]

\* While a task runs, the map holds the marker of this very run until it
\* expires, unless a save from an older map dropped it or another run has the
\* same id (celery_activity.py:54-74 and 134-137): a start, an end or a page load
\* takes nothing out of the map it has read but its own marker and those that
\* had expired.
RunningTasksShown ==
    \A w \in Processes, id \in Ids \ (overwritten \cup shared) :
        Running(w, id) => activity[id] = act[w].run \/ act[w].run \in expired
=============================================================================
