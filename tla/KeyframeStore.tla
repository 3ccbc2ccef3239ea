--------------------------- MODULE KeyframeStore ---------------------------
(***************************************************************************)
(* The optional key-frame mapping (scantext_module/src/Mapping.cpp): the   *)
(* LIO thread's callback gates frames by motion and time and offers them   *)
(* to a short queue; the scan-context worker turns them into key frames,   *)
(* writes the database beside the map and asks for a save now and then; a  *)
(* detached thread saves the map, for the worker or for the ROS service.   *)
(* The process may end at any point: killed, or by an exception none of    *)
(* these threads catches, or by main returning under the detached thread.  *)
(*                                                                         *)
(* A frame is its time, which stands for its cloud, and its pose: a place  *)
(* on a line and a heading.                                                *)
(***************************************************************************)
EXTENDS Integers, Sequences, SequencesExt

CONSTANTS Poses,      \* [x, yaw] records, in units of metres and radians
          KeyDist,    \* keyframe_dist_thresh, the gate's dist_th
          KeyAngle,   \* keyframe_angle_thresh, the gate's ang_th
          TimeTh,     \* time_th of the gate
          QueueCap,   \* tasks the queue takes
          AutoSave,   \* auto_save_interval, 0 to disable
          Savers,     \* the detached threads that could be running at once
          MaxTime,    \* bound: stamp of the last frame
          MaxRequests,\* bound: calls of the save service
          MaxRestarts \* bound: ends of the process

ASSUME StoreAssumption ==
  /\ KeyDist \in Nat \ {0} /\ KeyAngle \in Nat \ {0} /\ TimeTh \in Nat \ {0}
  /\ QueueCap \in Nat \ {0} /\ AutoSave \in Nat
  /\ Poses \subseteq [x : Int, yaw : Int]

Identity == [x |-> 0, yaw |-> 0]
NoFrame == [time |-> 0, pose |-> Identity]
NoFile == [time |-> -1, pose |-> Identity]
Torn == [time |-> -2, pose |-> Identity]
Slots == 0..MaxTime    \* indices a key frame can have

VARIABLES
  now, last,           \* time and pose of the last frame the callback saw
  gate,                \* has_last_sc, last_sc_pose, last_sc_time
  tasks,               \* scantext_queue
  wpc, task,           \* the worker: step, task in hand
  mutexFree,           \* map_mutex_, held by the worker between its steps
  keyframes,           \* keyframes_, by index
  lastPose, travelled, \* last_keyframe_pose_, accumulated_dist_since_save_
  dbInit,              \* db_initialized_
  globalMap,           \* global_map_: the frames whose clouds it holds
  saving,              \* saving_
  saver,               \* per detached thread: step, copy, what it must hold
  poses, clouds, descs,\* the database on disk: poses.txt, and per index
  mapFile,             \* map_save_path: a sequence of frames, or torn
  wiped,               \* history: the database on disk is being replaced
  posesFailed,         \* pose_ofs_ has failed; history once its process ended
  missed,              \* history: the last frame offered was dropped
  requests, restarts   \* bounds

gateVars == <<now, last, gate, tasks, missed>>
workerVars == <<wpc, task>>
coreVars == <<mutexFree, keyframes, lastPose, travelled, dbInit, globalMap>>
saveVars == <<saving, saver>>
databaseVars == <<poses, clouds, descs, wiped, posesFailed>>
storeVars == <<gateVars, workerVars, coreVars, saveVars, databaseVars, mapFile,
               requests, restarts>>

NoDatabase == [i \in Slots |-> NoFile]
NoSaver == [pc |-> "none", copy |-> <<>>, owed |-> 0]

NoGate == [has |-> FALSE, pose |-> Identity, time |-> 0]

StoreInit ==
  /\ now = 0 /\ last = Identity /\ gate = NoGate /\ tasks = <<>> /\ missed = FALSE
  /\ wpc = "idle" /\ task = NoFrame /\ mutexFree = TRUE
  /\ keyframes = <<>> /\ lastPose = Identity /\ travelled = 0
  /\ dbInit = FALSE /\ globalMap = <<>>
  /\ saving = FALSE /\ saver = [s \in Savers |-> NoSaver]
  /\ poses = <<>> /\ clouds = NoDatabase /\ descs = NoDatabase /\ wiped = FALSE
  /\ posesFailed = FALSE
  /\ mapFile = <<>> /\ requests = 0 /\ restarts = 0

Distance(a, b) == IF a < b THEN b - a ELSE a - b

\* Moved by at least d or turned by at least w.
Moved(p, q, d, w) == Distance(p.x, q.x) >= d \/ Distance(p.yaw, q.yaw) >= w

-----------------------------------------------------------------------------
(* scantext_cbk, on the LIO thread                                          *)
Offered(f) ==
  \/ ~gate.has
  \/ Moved(gate.pose, f.pose, KeyDist, KeyAngle)
  \/ f.time - gate.time >= TimeTh

\* The pose and time the next frames are compared with.
GateAfter(f) == [has |-> TRUE, pose |-> f.pose, time |-> f.time]

\* Slip: the reference follows every frame, so slow motion is never seen.
GateFollows(f) == GateAfter(f)

\* A frame that is not offered leaves them alone, so slow motion adds up.
GateKept(f) == gate

\* The gate moves on whether or not the queue has room.
Frame(p) ==
  /\ now < MaxTime
  /\ now' = now + 1 /\ last' = p
  /\ LET f == [time |-> now + 1, pose |-> p] IN
       IF Offered(f)
       THEN /\ gate' = GateAfter(f)
            /\ missed' = (Len(tasks) >= QueueCap)
            /\ tasks' = IF Len(tasks) < QueueCap THEN Append(tasks, f) ELSE tasks
       ELSE gate' = GateKept(f) /\ UNCHANGED <<tasks, missed>>
  /\ UNCHANGED <<workerVars, coreVars, saveVars, databaseVars, mapFile, requests, restarts>>

-----------------------------------------------------------------------------
(* saveMapAsync: one detached thread at a time                             *)
\* Slip: a request starts a thread whether or not one is at work.
AlwaysStarted == FALSE

\* saving_.exchange(true): what the flag was decides, in one step.
AlreadySaving == saving

Requested(owed) ==
  IF AlreadySaving THEN UNCHANGED saveVars
  ELSE \E s \in Savers :
         /\ saver[s].pc = "none"
         /\ saving' = TRUE
         /\ saver' = [saver EXCEPT ![s] = [pc |-> "copy", copy |-> <<>>, owed |-> owed]]

\* The ROS service; it needs no lock to ask.
SaveService ==
  /\ requests < MaxRequests /\ requests' = requests + 1
  /\ Requested(Len(keyframes))
  /\ UNCHANGED <<gateVars, workerVars, coreVars, databaseVars, mapFile, restarts>>

\* Slip: the map is copied without its mutex.
MapIsUnguarded == TRUE

MapIsFree == mutexFree

\* saveMap copies the map under map_mutex_; an empty map is not saved.  From
\* here on the file is being written.
SaveCopies(s) ==
  /\ saver[s].pc = "copy" /\ MapIsFree
  /\ IF globalMap = <<>>
     THEN saver' = [saver EXCEPT ![s] = NoSaver] /\ saving' = FALSE /\ UNCHANGED mapFile
     ELSE /\ saver' = [saver EXCEPT ![s].pc = "write", ![s].copy = globalMap]
          /\ mapFile' = <<Torn>> /\ UNCHANGED saving
  /\ UNCHANGED <<gateVars, workerVars, coreVars, databaseVars, requests, restarts>>

\* savePCDFileBinary succeeds or reports an error; the flag goes down either way.
SaveEnds(s) ==
  /\ saver[s].pc = "write"
  /\ saver' = [saver EXCEPT ![s] = NoSaver] /\ saving' = FALSE
  /\ mapFile' \in {saver[s].copy, <<Torn>>}
  /\ UNCHANGED <<gateVars, workerVars, coreVars, databaseVars, requests, restarts>>

Saver(s) == SaveCopies(s) \/ SaveEnds(s)

-----------------------------------------------------------------------------
(* The scan-context worker: addFrameWithSC                                  *)
TakeTask ==
  /\ wpc = "idle" /\ tasks # <<>>
  /\ task' = Head(tasks) /\ tasks' = Tail(tasks)
  /\ wpc' = "taken"
  /\ UNCHANGED <<now, last, gate, missed, coreVars, saveVars, databaseVars, mapFile, requests, restarts>>

IsKeyFrame(p) == keyframes = <<>> \/ Moved(lastPose, p, KeyDist, KeyAngle)

\* isKeyFrame looks at what only this thread writes; then the lock is taken
\* and held to the end of the function.
Enter ==
  /\ wpc = "taken" /\ mutexFree
  /\ IF IsKeyFrame(task.pose)
     THEN wpc' = (IF dbInit THEN "pose" ELSE "wipe") /\ mutexFree' = FALSE
     ELSE wpc' = "idle" /\ UNCHANGED mutexFree
  /\ UNCHANGED <<gateVars, task, keyframes, lastPose, travelled, dbInit, globalMap,
                 saveVars, databaseVars, mapFile, requests, restarts>>

Files == {<<"poses", 0>> : i \in {j \in {0} : poses # <<>>}}
         \cup {<<"cloud", i>> : i \in {j \in Slots : clouds[j] # NoFile}}
         \cup {<<"desc", i>> : i \in {j \in Slots : descs[j] # NoFile}}

\* remove_all takes the files in whatever order the directory lists them.
WipeFile ==
  /\ wpc = "wipe"
  /\ \E f \in Files :
       /\ poses' = IF f[1] = "poses" THEN <<>> ELSE poses
       /\ clouds' = IF f[1] = "cloud" THEN [clouds EXCEPT ![f[2]] = NoFile] ELSE clouds
       /\ descs' = IF f[1] = "desc" THEN [descs EXCEPT ![f[2]] = NoFile] ELSE descs
  /\ wiped' = TRUE /\ posesFailed' = FALSE
  /\ UNCHANGED <<gateVars, workerVars, coreVars, saveVars, mapFile, requests, restarts>>

OpenDatabase ==
  /\ wpc = "wipe" /\ Files = {}
  /\ wpc' = "pose" /\ dbInit' = TRUE /\ travelled' = 0 /\ wiped' = FALSE
  /\ posesFailed' = FALSE
  /\ UNCHANGED <<gateVars, task, mutexFree, keyframes, lastPose, globalMap, saveVars,
                 poses, clouds, descs, mapFile, requests, restarts>>

Index == Len(keyframes) - 1   \* index of the key frame being written

\* The line is written and flushed; or the stream fails, which nobody looks at,
\* and writes nothing from then on.  A part of a line is no line.
WriteLine ==
  \/ ~posesFailed /\ poses' = Append(poses, task) /\ UNCHANGED posesFailed
  \/ posesFailed' = TRUE /\ UNCHANGED poses

\* The key frame joins keyframes_, its line goes to poses.txt.
AddPose ==
  /\ wpc = "pose" /\ wpc' = "cloud"
  /\ keyframes' = Append(keyframes, task)
  /\ WriteLine
  /\ UNCHANGED <<gateVars, task, mutexFree, lastPose, travelled, dbInit, globalMap,
                 saveVars, clouds, descs, wiped, mapFile, requests, restarts>>

WriteCloud ==
  /\ \/ wpc = "cloud" /\ wpc' = "cloud closing" /\ clouds' = [clouds EXCEPT ![Index] = Torn]
     \/ wpc = "cloud closing" /\ wpc' = "desc" /\ clouds' = [clouds EXCEPT ![Index] = task]
  /\ UNCHANGED <<gateVars, task, coreVars, saveVars, poses, descs, wiped, posesFailed,
                 mapFile, requests, restarts>>

\* Slip: the descriptor is written in place.
DescriptorInPlace == [descs EXCEPT ![Index] = Torn]

\* The descriptor goes to a temporary file first: nothing under its own name yet.
DescriptorBegun == descs

\* Writing the temporary file fails, and the worker goes on without, or it is renamed.
WriteDescriptor ==
  /\ \/ wpc = "desc" /\ descs' = DescriptorBegun /\ wpc' \in {"rename", "append"}
     \/ wpc = "rename" /\ wpc' = "append" /\ descs' = [descs EXCEPT ![Index] = task]
  /\ UNCHANGED <<gateVars, task, coreVars, saveVars, poses, clouds, wiped, posesFailed,
                 mapFile, requests, restarts>>

\* Global map, distance, automatic save (whose distance starts again also when
\* the request was ignored), the pose the next one is compared with.
AddToMap ==
  /\ wpc = "append" /\ wpc' = "idle" /\ mutexFree' = TRUE
  /\ globalMap' = Append(globalMap, task)
  /\ LET far == travelled + Distance(lastPose.x, task.pose.x) IN
       IF AutoSave > 0 /\ far >= AutoSave
       THEN Requested(Len(keyframes)) /\ travelled' = 0
       ELSE travelled' = far /\ UNCHANGED saveVars
  /\ lastPose' = task.pose
  /\ UNCHANGED <<gateVars, task, keyframes, dbInit, databaseVars, mapFile, requests, restarts>>

Worker == \/ TakeTask \/ Enter \/ WipeFile \/ OpenDatabase \/ AddPose
          \/ WriteCloud \/ WriteDescriptor \/ AddToMap

\* The process ends and a new one starts on the same files.
Restart ==
  /\ restarts < MaxRestarts /\ restarts' = restarts + 1
  /\ last' = Identity /\ gate' = NoGate /\ tasks' = <<>> /\ missed' = FALSE
  /\ wpc' = "idle" /\ task' = NoFrame /\ mutexFree' = TRUE
  /\ keyframes' = <<>> /\ lastPose' = Identity /\ travelled' = 0
  /\ dbInit' = FALSE /\ globalMap' = <<>>
  /\ saving' = FALSE /\ saver' = [s \in Savers |-> NoSaver]
  /\ UNCHANGED <<now, databaseVars, mapFile, requests>>

StoreNext ==
  \/ \E p \in Poses : Frame(p)
  \/ SaveService
  \/ \E s \in Savers : Saver(s)
  \/ Worker
  \/ Restart

StoreSpec == StoreInit /\ [][StoreNext]_storeVars

-----------------------------------------------------------------------------
\* A descriptor under its own name is the last file of a key frame to appear:
\* its whole cloud and its pose line are there, from the same frame, however
\* often the process ended in between.  (While an older database is being
\* removed, its files go in any order, and a restart in between leaves it so
\* until the next key frame.)  And the lines of poses.txt are the key frames
\* of the process that writes it.  If writing a line fails, unnoticed, it
\* is missing with all later ones, but no line stands at another's place.
DatabaseConsistent ==
  /\ ~wiped =>
       \A i \in Slots : descs[i] # NoFile =>
          /\ clouds[i] = descs[i]
          /\ IF i < Len(poses) THEN poses[i + 1] = descs[i] ELSE posesFailed
  /\ dbInit => IsPrefix(poses, keyframes) /\ (posesFailed \/ poses = keyframes)

\* A save that completes holds every key frame there was when it was asked
\* for, in order, and nothing but key frames: saveMap copies under the mutex
\* addFrameWithSC holds from the first step to the last.
SavedMapHoldsRequest ==
  [][\A s \in Savers :
       (SaveEnds(s) /\ mapFile' # <<Torn>>) =>
          IsPrefix(mapFile', keyframes) /\ Len(mapFile') >= saver[s].owed]_storeVars

\* Two saves never have the map file open at once, whoever asked for them.
OneSaveAtATime ==
  \A s, t \in Savers : saver[s].pc # "none" /\ saver[t].pc # "none" => s = t

\* When the worker has caught up and the last frame offered was not dropped,
\* a key frame lies within twice the thresholds of the current pose: once for
\* the gate of the callback, once for the store's own.
PlaceIsCovered ==
  (gate.has /\ wpc = "idle" /\ tasks = <<>> /\ ~missed) =>
     ~Moved(lastPose, last, 2 * KeyDist, 2 * KeyAngle)
=============================================================================
