----------------------------- MODULE Maps_proofs -----------------------------
(***************************************************************************)
(* Proofs about the two maps of the node.                                  *)
(*                                                                         *)
(* The key-frame store, for every set of poses, every threshold, queue,    *)
(* number of saving threads, and however often the process ends.  The      *)
(* parts of the invariant follow the code's own reasoning: what the mutex  *)
(* covers, what the flag excludes, and which file is written after which.  *)
(*                                                                         *)
(* The voxel map, for every hash and every limit on displacement, every    *)
(* size and capacity of a voxel, every distance, trigger and stride, and   *)
(* every set of scans and motions: its hash table is a dictionary (from    *)
(* the lemmas of RobinHash_proofs), what a search of it finds, and what    *)
(* upkeep keeps.                                                           *)
(***************************************************************************)
EXTENDS KeyframeStore, VoxelMap, RobinHash_proofs, SequenceTheorems

Places == [x : Int, yaw : Int]
Frames == [time : Int, pose : Places]

\* The worker's steps between the line in poses.txt and the global map.
Writing == {"cloud", "cloud closing", "desc", "rename", "append"}
Locked == {"wipe", "pose"} \cup Writing

GateTypes ==
  /\ now \in Int /\ last \in Places
  /\ gate \in [has : BOOLEAN, pose : Places, time : Int]
  /\ tasks \in Seq(Frames) /\ missed \in BOOLEAN

WorkerTypes ==
  /\ wpc \in {"idle", "taken"} \cup Locked
  /\ task \in Frames

CoreTypes ==
  /\ mutexFree \in BOOLEAN /\ dbInit \in BOOLEAN
  /\ keyframes \in Seq(Frames) /\ globalMap \in Seq(Frames)
  /\ lastPose \in Places

SaveTypes ==
  /\ saving \in BOOLEAN
  /\ saver \in [Savers -> [pc : {"none", "copy", "write"}, copy : Seq(Frames), owed : Nat]]

DatabaseTypes ==
  /\ poses \in Seq(Frames) /\ wiped \in BOOLEAN /\ posesFailed \in BOOLEAN
  /\ clouds \in [Slots -> Frames] /\ descs \in [Slots -> Frames]

StoreTypes == GateTypes /\ WorkerTypes /\ CoreTypes /\ SaveTypes /\ DatabaseTypes

\* The flag is up whenever a thread is at work, and so there is at most one.
Exclusive ==
  /\ \A s \in Savers : saver[s].pc # "none" => saving
  /\ OneSaveAtATime

\* Whoever finds the mutex free finds every key frame in the global map.
MapFollows ==
  /\ mutexFree <=> wpc \notin Locked
  /\ IF wpc \in Writing THEN keyframes = Append(globalMap, task)
                        ELSE keyframes = globalMap

\* What a thread at work owes and holds.
Promises ==
  \A s \in Savers :
    /\ saver[s].pc = "copy" => saver[s].owed <= Len(keyframes)
    /\ saver[s].pc = "write" =>
         IsPrefix(saver[s].copy, keyframes) /\ saver[s].owed <= Len(saver[s].copy)

\* Once open the database belongs to this process, and the descriptor of the
\* key frame in hand is not there before its cloud is.
OwnFiles ==
  /\ wpc = "wipe" => ~dbInit
  /\ wpc \in {"pose"} \cup Writing => dbInit
  /\ dbInit => ~wiped
  /\ ~dbInit => keyframes = <<>>
  /\ dbInit => \A i \in Slots : i >= Len(keyframes) => descs[i] = NoFile
  /\ \A i \in Slots : i = Len(keyframes) - 1 =>
       /\ wpc \in {"cloud", "cloud closing", "desc", "rename"} => descs[i] = NoFile
       /\ wpc \in {"desc", "rename"} => clouds[i] = task

\* The gate's reference is near the last pose, and the last frame offered is
\* at the queue's end, in hand, or near the last key frame.
Near(p, q) == ~Moved(p, q, KeyDist, KeyAngle)
Followed ==
  gate.has =>
    /\ Near(gate.pose, last)
    /\ ~missed /\ tasks # <<>> => tasks[Len(tasks)].pose = gate.pose
    /\ ~missed /\ tasks = <<>> /\ wpc # "idle" => task.pose = gate.pose
    /\ ~missed /\ tasks = <<>> /\ wpc = "idle" => Near(lastPose, gate.pose)

StoreInv ==
  StoreTypes /\ Exclusive /\ MapFollows /\ Promises
  /\ OwnFiles /\ DatabaseConsistent /\ Followed

-----------------------------------------------------------------------------
LEMMA ConstantTypes ==
  /\ KeyDist \in Nat \ {0} /\ KeyAngle \in Nat \ {0} /\ Poses \subseteq Places
  /\ NoFrame \in Frames /\ NoFile \in Frames /\ Torn \in Frames
  /\ NoFile # Torn /\ Identity \in Places
  BY StoreAssumption DEF Places, Frames, NoFrame, NoFile, Torn, Identity

\* A request is ignored, or it starts one idle thread and raises the flag.
LEMMA RequestCases ==
  ASSUME NEW owed, Requested(owed)
  PROVE  \/ UNCHANGED saveVars
         \/ /\ ~saving /\ saving' = TRUE
            /\ \E s \in Savers :
                 /\ saver[s].pc = "none"
                 /\ saver' = [saver EXCEPT ![s] = [pc |-> "copy", copy |-> <<>>, owed |-> owed]]
  BY DEF Requested, AlreadySaving

LEMMA AddToMapRequest ==
  ASSUME AddToMap
  PROVE  UNCHANGED saveVars \/ Requested(Len(keyframes))
  BY DEF AddToMap

\* A prefix stays one when the sequence grows.
LEMMA PrefixGrows ==
  ASSUME NEW T, NEW s \in Seq(T), NEW t \in Seq(T), NEW e \in T, IsPrefix(s, t)
  PROVE  IsPrefix(s, Append(t, e))
  BY DEF IsPrefix

LEMMA PrefixOfItself ==
  ASSUME NEW T, NEW s \in Seq(T)
  PROVE  IsPrefix(s, s)
  BY DEF IsPrefix

LEMMA StoreActions ==
  ASSUME [StoreNext]_storeVars
  PROVE  \/ \E p \in Poses : Frame(p)
         \/ SaveService
         \/ \E s \in Savers : SaveCopies(s) \/ SaveEnds(s)
         \/ TakeTask \/ Enter \/ WipeFile \/ OpenDatabase \/ AddPose
         \/ WriteCloud \/ WriteDescriptor \/ AddToMap
         \/ Restart
         \/ UNCHANGED storeVars
  BY DEF StoreNext, Saver, Worker

-----------------------------------------------------------------------------
LEMMA GateTypesKept ==
  ASSUME GateTypes, [StoreNext]_storeVars
  PROVE  GateTypes'
<1>1. ASSUME NEW p \in Poses, Frame(p) PROVE GateTypes'
  <2> DEFINE f == [time |-> now + 1, pose |-> p]
  <2>1. p \in Places
    BY ConstantTypes
  <2>2. now' = now + 1 /\ now \in Int /\ last' = p
    BY <1>1 DEF Frame, GateTypes
  <2>3. f \in Frames
    BY <2>1, <2>2 DEF Frames
  <2>4. GateAfter(f) \in [has : BOOLEAN, pose : Places, time : Int]
    BY <2>1, <2>2 DEF GateAfter
  <2>5. gate' \in {gate, GateAfter(f)}
    BY <1>1 DEF Frame, GateKept
  <2>6. /\ missed' \in {missed, (Len(tasks) >= QueueCap)}
        /\ tasks' \in {tasks, Append(tasks, f)}
    BY <1>1 DEF Frame
  <2>9. missed' \in BOOLEAN
    <3>1. missed \in BOOLEAN
      BY DEF GateTypes
    <3>2. CASE missed' = (Len(tasks) >= QueueCap)
      BY <3>2
    <3> QED BY <2>6, <3>1, <3>2
  <2>7. Append(tasks, f) \in Seq(Frames)
    BY <2>3 DEF GateTypes
  <2>8. gate' \in [has : BOOLEAN, pose : Places, time : Int]
    BY <2>4, <2>5 DEF GateTypes
  <2> HIDE DEF f
  <2> QED BY <2>1, <2>2, <2>6, <2>7, <2>8, <2>9 DEF GateTypes
<1>2. CASE TakeTask
  <2>1. tasks' \in Seq(Frames)
    BY <1>2 DEF TakeTask, GateTypes
  <2> QED BY <1>2, <2>1 DEF TakeTask, GateTypes
<1>3. CASE Restart
  <2>1. NoGate \in [has : BOOLEAN, pose : Places, time : Int]
    BY ConstantTypes DEF NoGate
  <2>2. /\ now' = now /\ last' = Identity /\ gate' = NoGate
        /\ tasks' = <<>> /\ missed' = FALSE
    BY <1>3 DEF Restart
  <2>3. now \in Int /\ Identity \in Places /\ <<>> \in Seq(Frames)
    BY ConstantTypes DEF GateTypes
  <2> HIDE DEF NoGate
  <2> QED BY <2>1, <2>2, <2>3 DEF GateTypes
<1>4. SaveService \/ Enter \/ WipeFile \/ OpenDatabase \/ AddPose \/ WriteCloud
        \/ WriteDescriptor \/ AddToMap \/ UNCHANGED storeVars
        \/ (\E s \in Savers : SaveCopies(s) \/ SaveEnds(s))
      => UNCHANGED gateVars
  BY DEF SaveService, SaveCopies, SaveEnds, Enter, WipeFile, OpenDatabase,
         AddPose, WriteCloud, WriteDescriptor, AddToMap, storeVars
<1>5. CASE UNCHANGED gateVars
  BY <1>5 DEF gateVars, GateTypes
<1> QED BY <1>1, <1>2, <1>3, <1>4, <1>5, StoreActions

LEMMA WorkerTypesKept ==
  ASSUME GateTypes, WorkerTypes, [StoreNext]_storeVars
  PROVE  WorkerTypes'
<1> USE DEF WorkerTypes, Locked, Writing
<1>1. CASE TakeTask
  <2>1. Head(tasks) \in Frames
    BY <1>1 DEF TakeTask, GateTypes
  <2> QED BY <1>1, <2>1 DEF TakeTask
<1>2. CASE Enter
  BY <1>2 DEF Enter
<1>3. CASE OpenDatabase
  BY <1>3 DEF OpenDatabase
<1>4. CASE AddPose
  BY <1>4 DEF AddPose
<1>5. CASE WriteCloud
  BY <1>5 DEF WriteCloud
<1>6. CASE WriteDescriptor
  BY <1>6 DEF WriteDescriptor
<1>7. CASE AddToMap
  BY <1>7 DEF AddToMap
<1>8. CASE Restart
  BY <1>8, ConstantTypes DEF Restart
<1>9. (\E p \in Poses : Frame(p)) \/ SaveService \/ WipeFile \/ UNCHANGED storeVars
        \/ (\E s \in Savers : SaveCopies(s) \/ SaveEnds(s))
      => UNCHANGED workerVars
  BY DEF Frame, SaveService, SaveCopies, SaveEnds, WipeFile, storeVars
<1>10. CASE UNCHANGED workerVars
  BY <1>10 DEF workerVars
<1> QED BY <1>1, <1>2, <1>3, <1>4, <1>5, <1>6, <1>7, <1>8, <1>9, <1>10, StoreActions

LEMMA CoreTypesKept ==
  ASSUME WorkerTypes, CoreTypes, [StoreNext]_storeVars
  PROVE  CoreTypes'
<1>1. CASE Enter
  BY <1>1 DEF Enter, CoreTypes
<1>2. CASE OpenDatabase
  BY <1>2 DEF OpenDatabase, CoreTypes
<1>3. CASE AddPose
  BY <1>3 DEF AddPose, CoreTypes, WorkerTypes
<1>4. CASE AddToMap
  <2>1. task.pose \in Places
    BY DEF WorkerTypes, Frames
  <2> QED BY <1>4, <2>1 DEF AddToMap, CoreTypes, WorkerTypes
<1>5. CASE Restart
  <2>1. /\ mutexFree' = TRUE /\ dbInit' = FALSE /\ keyframes' = <<>>
        /\ globalMap' = <<>> /\ lastPose' = Identity
    BY <1>5 DEF Restart
  <2>2. Identity \in Places /\ <<>> \in Seq(Frames)
    BY ConstantTypes
  <2> QED BY <2>1, <2>2 DEF CoreTypes
<1>6. (\E p \in Poses : Frame(p)) \/ SaveService \/ TakeTask \/ WipeFile \/ WriteCloud
        \/ WriteDescriptor \/ UNCHANGED storeVars
        \/ (\E s \in Savers : SaveCopies(s) \/ SaveEnds(s))
      => UNCHANGED coreVars
  BY DEF Frame, SaveService, SaveCopies, SaveEnds, TakeTask, WipeFile,
         WriteCloud, WriteDescriptor, storeVars
<1>7. CASE UNCHANGED coreVars
  BY <1>7 DEF coreVars, CoreTypes
<1> QED BY <1>1, <1>2, <1>3, <1>4, <1>5, <1>6, <1>7, StoreActions

LEMMA SaveTypesKept ==
  ASSUME CoreTypes, SaveTypes, [StoreNext]_storeVars
  PROVE  SaveTypes'
<1> DEFINE States == [pc : {"none", "copy", "write"}, copy : Seq(Frames), owed : Nat]
<1>1. NoSaver \in States
  BY DEF NoSaver
<1>2. CASE Requested(Len(keyframes))
  <2>1. [pc |-> "copy", copy |-> <<>>, owed |-> Len(keyframes)] \in States
    BY DEF CoreTypes
  <2>2. CASE UNCHANGED saveVars
    BY <2>2 DEF SaveTypes, saveVars
  <2>3. ASSUME NEW s \in Savers, saving' = TRUE,
               saver' = [saver EXCEPT ![s] =
                          [pc |-> "copy", copy |-> <<>>, owed |-> Len(keyframes)]]
        PROVE  SaveTypes'
    <3> HIDE DEF States
    <3>1. saver \in [Savers -> States]
      BY DEF SaveTypes, States
    <3>2. saver' \in [Savers -> States]
      BY <2>1, <2>3, <3>1
    <3> QED BY <2>3, <3>2 DEF SaveTypes, States
  <2> QED BY <1>2, <2>2, <2>3, RequestCases
<1>3. ASSUME NEW s \in Savers, SaveCopies(s) PROVE SaveTypes'
  <2>1. [saver[s] EXCEPT !.pc = "write", !.copy = globalMap] \in States
    BY DEF SaveTypes, CoreTypes
  <2>2. \/ saver' = [saver EXCEPT ![s] = NoSaver]
        \/ saver' = [saver EXCEPT ![s] = [saver[s] EXCEPT !.pc = "write", !.copy = globalMap]]
    BY <1>3 DEF SaveCopies, SaveTypes
  <2>3. saving' \in BOOLEAN
    BY <1>3 DEF SaveCopies, SaveTypes
  <2> QED BY <1>1, <2>1, <2>2, <2>3 DEF SaveTypes
<1>4. ASSUME NEW s \in Savers, SaveEnds(s) PROVE SaveTypes'
  BY <1>1, <1>4 DEF SaveEnds, SaveTypes
<1>5. CASE Restart
  BY <1>1, <1>5 DEF Restart, SaveTypes
<1>6. (\E p \in Poses : Frame(p)) \/ TakeTask \/ Enter \/ WipeFile \/ OpenDatabase
        \/ AddPose \/ WriteCloud \/ WriteDescriptor \/ UNCHANGED storeVars
      => UNCHANGED saveVars
  BY DEF Frame, TakeTask, Enter, WipeFile, OpenDatabase, AddPose, WriteCloud,
         WriteDescriptor, storeVars
<1>7. CASE UNCHANGED saveVars
  BY <1>7 DEF saveVars, SaveTypes
<1>8. SaveService => Requested(Len(keyframes))
  BY DEF SaveService
<1> QED BY <1>2, <1>3, <1>4, <1>5, <1>6, <1>7, <1>8, AddToMapRequest, StoreActions

LEMMA DatabaseTypesKept ==
  ASSUME WorkerTypes, DatabaseTypes, [StoreNext]_storeVars
  PROVE  DatabaseTypes'
<1> USE ConstantTypes DEF DatabaseTypes
<1>1. CASE WipeFile
  <2> PICK f \in Files :
         /\ poses' = IF f[1] = "poses" THEN <<>> ELSE poses
         /\ clouds' = IF f[1] = "cloud" THEN [clouds EXCEPT ![f[2]] = NoFile] ELSE clouds
         /\ descs' = IF f[1] = "desc" THEN [descs EXCEPT ![f[2]] = NoFile] ELSE descs
    BY <1>1 DEF WipeFile
  <2>1. poses' \in Seq(Frames)
    OBVIOUS
  <2>2. clouds' \in [Slots -> Frames] /\ descs' \in [Slots -> Frames]
    OBVIOUS
  <2>3. wiped' = TRUE /\ posesFailed' = FALSE
    BY <1>1 DEF WipeFile
  <2> QED BY <2>1, <2>2, <2>3
<1>2. CASE OpenDatabase
  BY <1>2 DEF OpenDatabase
<1>3. CASE AddPose
  <2>1. WriteLine /\ UNCHANGED <<clouds, descs, wiped>> /\ task \in Frames
    BY <1>3 DEF AddPose, WorkerTypes
  <2>2. poses' \in Seq(Frames) /\ posesFailed' \in BOOLEAN
    <3>1. CASE poses' = Append(poses, task) /\ UNCHANGED posesFailed
      BY <2>1, <3>1
    <3>2. CASE posesFailed' = TRUE /\ UNCHANGED poses
      BY <3>2
    <3> QED BY <2>1, <3>1, <3>2 DEF WriteLine
  <2> QED BY <2>1, <2>2
<1>4. CASE WriteCloud
  BY <1>4 DEF WriteCloud, WorkerTypes
<1>5. CASE WriteDescriptor
  BY <1>5 DEF WriteDescriptor, DescriptorBegun, WorkerTypes
<1>6. (\E p \in Poses : Frame(p)) \/ SaveService \/ TakeTask \/ Enter \/ AddToMap
        \/ Restart \/ UNCHANGED storeVars
        \/ (\E s \in Savers : SaveCopies(s) \/ SaveEnds(s))
      => UNCHANGED databaseVars
  BY DEF Frame, SaveService, SaveCopies, SaveEnds, TakeTask, Enter, AddToMap,
         Restart, storeVars
<1>7. CASE UNCHANGED databaseVars
  BY <1>7 DEF databaseVars
<1> QED BY <1>1, <1>2, <1>3, <1>4, <1>5, <1>6, <1>7, StoreActions

LEMMA TypesKept ==
  ASSUME StoreTypes, [StoreNext]_storeVars
  PROVE  StoreTypes'
  BY GateTypesKept, WorkerTypesKept, CoreTypesKept, SaveTypesKept,
     DatabaseTypesKept DEF StoreTypes

LEMMA ExclusiveKept ==
  ASSUME SaveTypes, Exclusive, [StoreNext]_storeVars
  PROVE  Exclusive'
<1> USE DEF SaveTypes, Exclusive, OneSaveAtATime
<1>1. ASSUME NEW owed, Requested(owed) PROVE Exclusive'
  <2>1. CASE UNCHANGED saveVars
    BY <2>1 DEF saveVars
  <2>2. ASSUME NEW s \in Savers, ~saving, saving' = TRUE,
               saver' = [saver EXCEPT ![s] = [pc |-> "copy", copy |-> <<>>, owed |-> owed]]
        PROVE  Exclusive'
    <3>1. \A t \in Savers \ {s} : saver'[t].pc = "none"
      BY <2>2
    <3> QED BY <2>2, <3>1
  <2> QED BY <1>1, <2>1, <2>2, RequestCases
<1>2. ASSUME NEW s \in Savers, SaveCopies(s) PROVE Exclusive'
  <2>1. \A t \in Savers \ {s} : saver'[t] = saver[t]
    BY <1>2 DEF SaveCopies
  <2>2. saver[s].pc = "copy" /\ saving
    BY <1>2 DEF SaveCopies
  <2>3. \A t \in Savers \ {s} : saver'[t].pc = "none"
    BY <2>1, <2>2
  <2>4. saving' \/ saver'[s].pc = "none"
    <3>1. CASE globalMap = <<>>
      BY <1>2, <3>1 DEF SaveCopies, NoSaver
    <3>2. CASE globalMap # <<>>
      BY <1>2, <2>2, <3>2 DEF SaveCopies
    <3> QED BY <3>1, <3>2
  <2> QED BY <2>3, <2>4
<1>3. ASSUME NEW s \in Savers, SaveEnds(s) PROVE Exclusive'
  BY <1>3 DEF SaveEnds, NoSaver
<1>4. CASE SaveService
  BY <1>1, <1>4 DEF SaveService
<1>5. CASE AddToMap
  BY <1>1, <1>5, AddToMapRequest DEF saveVars
<1>6. CASE Restart
  BY <1>6 DEF Restart, NoSaver
<1>7. CASE UNCHANGED saveVars
  BY <1>7 DEF saveVars
<1>8. (\E p \in Poses : Frame(p)) \/ TakeTask \/ Enter \/ WipeFile \/ OpenDatabase
        \/ AddPose \/ WriteCloud \/ WriteDescriptor \/ UNCHANGED storeVars
      => UNCHANGED saveVars
  BY DEF Frame, TakeTask, Enter, WipeFile, OpenDatabase, AddPose, WriteCloud,
         WriteDescriptor, storeVars
<1> QED BY <1>2, <1>3, <1>4, <1>5, <1>6, <1>7, <1>8, StoreActions

LEMMA MapFollowsKept ==
  ASSUME WorkerTypes, CoreTypes, MapFollows, [StoreNext]_storeVars
  PROVE  MapFollows'
<1> USE DEF WorkerTypes, CoreTypes, MapFollows, Locked, Writing
<1>1. CASE TakeTask
  BY <1>1 DEF TakeTask, coreVars
<1>2. CASE Enter
  BY <1>2 DEF Enter
<1>3. CASE OpenDatabase
  BY <1>3 DEF OpenDatabase
<1>4. CASE AddPose
  BY <1>4 DEF AddPose
<1>5. CASE WriteCloud
  BY <1>5 DEF WriteCloud, coreVars
<1>6. CASE WriteDescriptor
  BY <1>6 DEF WriteDescriptor, coreVars
<1>7. CASE AddToMap
  BY <1>7 DEF AddToMap
<1>8. CASE Restart
  BY <1>8 DEF Restart
<1>9. (\E p \in Poses : Frame(p)) \/ SaveService \/ WipeFile \/ UNCHANGED storeVars
        \/ (\E s \in Savers : SaveCopies(s) \/ SaveEnds(s))
      => UNCHANGED <<workerVars, coreVars>>
  BY DEF Frame, SaveService, SaveCopies, SaveEnds, WipeFile, storeVars
<1>10. CASE UNCHANGED <<workerVars, coreVars>>
  BY <1>10 DEF workerVars, coreVars
<1> QED BY <1>1, <1>2, <1>3, <1>4, <1>5, <1>6, <1>7, <1>8, <1>9, <1>10, StoreActions

LEMMA PromisesKept ==
  ASSUME WorkerTypes, CoreTypes, SaveTypes, MapFollows, Promises, [StoreNext]_storeVars
  PROVE  Promises'
<1> USE DEF SaveTypes, CoreTypes, Promises
<1>1. ASSUME Requested(Len(keyframes)), UNCHANGED keyframes PROVE Promises'
  <2>1. CASE UNCHANGED saveVars
    BY <1>1, <2>1 DEF saveVars
  <2>2. ASSUME NEW s \in Savers,
               saver' = [saver EXCEPT ![s] =
                          [pc |-> "copy", copy |-> <<>>, owed |-> Len(keyframes)]]
        PROVE  Promises'
    <3>1. \A t \in Savers \ {s} : saver'[t] = saver[t]
      BY <2>2
    <3>2. saver'[s].pc = "copy" /\ saver'[s].owed = Len(keyframes)
      BY <2>2
    <3>3. Len(keyframes) \in Nat /\ keyframes' = keyframes
      BY <1>1
    <3>4. \A t \in Savers \ {s} :
            /\ saver'[t].pc = "copy" => saver'[t].owed <= Len(keyframes')
            /\ saver'[t].pc = "write" =>
                 IsPrefix(saver'[t].copy, keyframes') /\ saver'[t].owed <= Len(saver'[t].copy)
      BY <3>1, <3>3
    <3>5. saver'[s].owed <= Len(keyframes') /\ saver'[s].pc # "write"
      BY <3>2, <3>3
    <3> QED BY <3>4, <3>5
  <2> QED BY <1>1, <2>1, <2>2, RequestCases
<1>2. CASE SaveService
  BY <1>1, <1>2 DEF SaveService, coreVars
<1>3. ASSUME NEW s \in Savers, SaveCopies(s) PROVE Promises'
  <2>1. globalMap = keyframes /\ UNCHANGED keyframes
    BY <1>3 DEF SaveCopies, MapIsFree, MapFollows, Locked, coreVars
  <2>2. IsPrefix(keyframes, keyframes)
    BY PrefixOfItself
  <2>3. \A t \in Savers \ {s} : saver'[t] = saver[t]
    BY <1>3 DEF SaveCopies
  <2>4. \/ saver'[s].pc = "none"
        \/ /\ saver'[s].pc = "write" /\ saver'[s].copy = keyframes
           /\ saver'[s].owed = saver[s].owed
    BY <1>3, <2>1 DEF SaveCopies, NoSaver
  <2>5. saver[s].owed <= Len(keyframes)
    BY <1>3 DEF SaveCopies
  <2> QED BY <2>1, <2>2, <2>3, <2>4, <2>5
<1>4. ASSUME NEW s \in Savers, SaveEnds(s) PROVE Promises'
  BY <1>4 DEF SaveEnds, NoSaver, coreVars
<1>5. CASE AddPose
  <2>1. saver' = saver /\ keyframes' = Append(keyframes, task)
    BY <1>5 DEF AddPose, saveVars
  <2>2. Len(keyframes') >= Len(keyframes)
    BY <2>1
  <2>3. ASSUME NEW s \in Savers, IsPrefix(saver[s].copy, keyframes)
        PROVE  IsPrefix(saver[s].copy, keyframes')
    <3>1. saver[s].copy \in Seq(Frames) /\ task \in Frames
      BY DEF WorkerTypes
    <3> QED BY <2>1, <2>3, <3>1, PrefixGrows
  <2> QED BY <2>1, <2>2, <2>3
<1>6. CASE AddToMap
  <2>1. UNCHANGED keyframes
    BY <1>6 DEF AddToMap
  <2> QED BY <1>1, <1>6, <2>1, AddToMapRequest DEF saveVars
<1>7. CASE Restart
  BY <1>7 DEF Restart, NoSaver
<1>8. (\E p \in Poses : Frame(p)) \/ TakeTask \/ Enter \/ WipeFile \/ OpenDatabase
        \/ WriteCloud \/ WriteDescriptor \/ UNCHANGED storeVars
      => UNCHANGED <<saver, keyframes>>
  BY DEF Frame, TakeTask, Enter, WipeFile, OpenDatabase, WriteCloud,
         WriteDescriptor, storeVars, saveVars, coreVars
<1>9. CASE UNCHANGED <<saver, keyframes>>
  BY <1>9
<1> QED BY <1>2, <1>3, <1>4, <1>5, <1>6, <1>7, <1>8, <1>9, StoreActions

\* Steps that leave all the database depends on.
LEMMA DatabaseUntouched ==
  ASSUME \/ \E p \in Poses : Frame(p)
         \/ SaveService
         \/ \E s \in Savers : SaveCopies(s) \/ SaveEnds(s)
         \/ UNCHANGED storeVars
  PROVE  UNCHANGED <<wpc, task, keyframes, dbInit, poses, clouds, descs, wiped, posesFailed>>
  BY DEF Frame, SaveService, SaveCopies, SaveEnds, storeVars, databaseVars,
         workerVars, coreVars

\* No file left: no line, no cloud, no descriptor.
LEMMA NothingLeft ==
  ASSUME Files = {}
  PROVE  poses = <<>> /\ \A i \in Slots : descs[i] = NoFile
<1>1. poses = <<>>
  <2> SUFFICES ASSUME poses # <<>> PROVE FALSE
    OBVIOUS
  <2>1. <<"poses", 0>> \in Files
    BY DEF Files
  <2> QED BY <2>1
<1>2. ASSUME NEW i \in Slots, descs[i] # NoFile PROVE FALSE
  <2>1. <<"desc", i>> \in Files
    BY <1>2 DEF Files
  <2> QED BY <2>1
<1> QED BY <1>1, <1>2

LEMMA KeyFramesCounted ==
  ASSUME CoreTypes
  PROVE  Len(keyframes) \in Nat
  BY DEF CoreTypes

LEMMA SlotsAreNumbers == \A i \in Slots : i \in Int /\ 0 <= i
  BY DEF Slots

LEMMA LaterSlots ==
  ASSUME CoreTypes, NEW i \in Slots, i >= Len(keyframes)
  PROVE  i # Len(keyframes) - 1
  BY KeyFramesCounted, SlotsAreNumbers

LEMMA OwnFilesKept ==
  ASSUME CoreTypes, DatabaseTypes, OwnFiles, [StoreNext]_storeVars
  PROVE  OwnFiles'
<1> USE DEF CoreTypes, DatabaseTypes, OwnFiles, Writing, databaseVars, coreVars
<1>1. CASE TakeTask
  BY <1>1 DEF TakeTask
<1>2. CASE Enter
  BY <1>2 DEF Enter
<1>3. CASE WipeFile
  BY <1>3 DEF WipeFile, workerVars
<1>4. CASE OpenDatabase
  BY <1>4, NothingLeft DEF OpenDatabase
<1>5. CASE AddPose
  <2>1. /\ wpc = "pose" /\ wpc' = "cloud" /\ Len(keyframes') = Len(keyframes) + 1
        /\ UNCHANGED <<dbInit, descs, wiped>>
    BY <1>5 DEF AddPose
  <2>2. dbInit /\ \A i \in Slots : i >= Len(keyframes) => descs[i] = NoFile
    BY <2>1
  <2> QED BY <2>1, <2>2, KeyFramesCounted, SlotsAreNumbers
<1>6. CASE WriteCloud
  BY <1>6 DEF WriteCloud, Index
<1>7. CASE WriteDescriptor
  <2>1. CASE wpc = "desc"
    BY <1>7, <2>1 DEF WriteDescriptor, DescriptorBegun
  <2>2. CASE wpc = "rename"
    <3>1. /\ wpc' = "append" /\ UNCHANGED <<keyframes, dbInit, wiped>>
          /\ descs' = [descs EXCEPT ![Len(keyframes) - 1] = task]
      BY <1>7, <2>2 DEF WriteDescriptor, Index
    <3>2. \A i \in Slots : i >= Len(keyframes) => descs'[i] = descs[i]
      BY <3>1, LaterSlots
    <3> QED BY <2>2, <3>1, <3>2
  <2> QED BY <1>7, <2>1, <2>2 DEF WriteDescriptor
<1>8. CASE AddToMap
  BY <1>8 DEF AddToMap
<1>9. CASE Restart
  BY <1>9 DEF Restart
<1>10. CASE UNCHANGED <<wpc, task, keyframes, dbInit, poses, clouds, descs, wiped, posesFailed>>
  BY <1>10
<1> QED BY <1>1, <1>2, <1>3, <1>4, <1>5, <1>6, <1>7, <1>8, <1>9, <1>10,
           DatabaseUntouched, StoreActions

LEMMA DatabaseKept ==
  ASSUME WorkerTypes, CoreTypes, DatabaseTypes, MapFollows, OwnFiles,
         DatabaseConsistent, [StoreNext]_storeVars
  PROVE  DatabaseConsistent'
<1> USE DEF CoreTypes, DatabaseTypes, DatabaseConsistent, databaseVars, coreVars
<1>1. CASE TakeTask
  BY <1>1 DEF TakeTask
<1>2. CASE Enter
  BY <1>2 DEF Enter
<1>3. CASE WipeFile
  BY <1>3 DEF WipeFile, OwnFiles
<1>4. CASE OpenDatabase
  <2>1. poses = <<>> /\ keyframes = <<>> /\ IsPrefix(poses, keyframes)
    BY <1>4, NothingLeft, PrefixOfItself DEF OpenDatabase, OwnFiles
  <2> QED BY <1>4, <2>1, NothingLeft DEF OpenDatabase
<1>5. CASE AddPose
  <2>1. /\ dbInit /\ IsPrefix(poses, keyframes) /\ (posesFailed \/ poses = keyframes)
        /\ keyframes' = Append(keyframes, task) /\ task \in Frames
        /\ UNCHANGED <<clouds, descs, wiped, dbInit>>
    BY <1>5 DEF AddPose, OwnFiles, WorkerTypes
  <2>2. CASE ~posesFailed /\ poses' = Append(poses, task) /\ UNCHANGED posesFailed
    <3>1. \A i \in Int : 0 <= i /\ i < Len(poses) =>
            i < Len(poses') /\ poses'[i + 1] = poses[i + 1]
      BY <2>1, <2>2
    <3>2. \A i \in Slots : ~wiped /\ descs[i] # NoFile =>
            i < Len(poses') /\ poses'[i + 1] = descs[i]
      BY <2>2, <3>1, SlotsAreNumbers
    <3>3. poses' = keyframes' /\ keyframes' \in Seq(Frames)
      BY <2>1, <2>2
    <3>4. IsPrefix(poses', keyframes')
      BY <3>3, PrefixOfItself
    <3> QED BY <2>1, <3>2, <3>3, <3>4
  <2>3. CASE posesFailed' = TRUE /\ UNCHANGED poses
    <3>1. IsPrefix(poses, Append(keyframes, task))
      BY <2>1, PrefixGrows
    <3> QED BY <2>1, <2>3, <3>1
  <2> QED BY <1>5, <2>2, <2>3 DEF AddPose, WriteLine
<1>6. CASE WriteCloud
  BY <1>6 DEF WriteCloud, OwnFiles, Index, Writing
<1>7. CASE WriteDescriptor
  <2>1. CASE wpc = "desc"
    BY <1>7, <2>1 DEF WriteDescriptor, DescriptorBegun
  <2>2. CASE wpc = "rename"
    <3>1. /\ descs' = [descs EXCEPT ![Index] = task]
          /\ UNCHANGED <<keyframes, poses, clouds, wiped, dbInit, posesFailed>>
      BY <1>7, <2>2 DEF WriteDescriptor
    <3>2. /\ IsPrefix(poses, keyframes) /\ (posesFailed \/ poses = keyframes)
          /\ keyframes = Append(globalMap, task)
      BY <2>2 DEF OwnFiles, MapFollows, Writing
    <3>3. /\ Len(keyframes) = Len(globalMap) + 1 /\ keyframes[Len(keyframes)] = task
          /\ Index = Len(keyframes) - 1 /\ Len(keyframes) \in Nat
      BY <3>2 DEF Index
    <3>4. Index \in Slots => clouds[Index] = task
      BY <2>2 DEF OwnFiles, Index
    <3>5. Slots \subseteq Int /\ Len(poses) \in Nat
      BY DEF Slots
    <3>6. ASSUME NEW i \in Slots, ~wiped, descs'[i] # NoFile
          PROVE  /\ clouds[i] = descs'[i]
                 /\ IF i < Len(poses) THEN poses[i + 1] = descs'[i] ELSE posesFailed
      <4>1. CASE i = Index
        <5>1. descs'[i] = task
          BY <3>1, <4>1
        <5>2. i < Len(poses) => poses[i + 1] = keyframes[i + 1]
          BY <3>2, <3>3, <3>5, <4>1, SlotsAreNumbers DEF IsPrefix
        <5>3. ~(i < Len(poses)) => posesFailed
          BY <3>2, <3>3, <4>1
        <5> QED BY <3>3, <3>4, <4>1, <5>1, <5>2, <5>3
      <4>2. CASE i # Index
        <5>1. descs'[i] = descs[i]
          BY <3>1, <4>2
        <5> QED BY <3>6, <5>1
      <4> QED BY <4>1, <4>2
    <3> QED BY <3>1, <3>6
  <2> QED BY <1>7, <2>1, <2>2 DEF WriteDescriptor
<1>8. CASE AddToMap
  BY <1>8 DEF AddToMap
<1>9. CASE Restart
  BY <1>9 DEF Restart
<1>10. CASE UNCHANGED <<wpc, task, keyframes, dbInit, poses, clouds, descs, wiped, posesFailed>>
  BY <1>10
<1> QED BY <1>1, <1>2, <1>3, <1>4, <1>5, <1>6, <1>7, <1>8, <1>9, <1>10,
           DatabaseUntouched, StoreActions

\* A pose is near itself, and two steps of one threshold each make less than
\* two thresholds.
LEMMA NearItself ==
  ASSUME NEW p \in Places
  PROVE  Near(p, p)
  BY ConstantTypes DEF Near, Moved, Distance, Places

LEMMA NearTwice ==
  ASSUME NEW p \in Places, NEW q \in Places, NEW r \in Places, Near(p, q), Near(q, r)
  PROVE  ~Moved(p, r, 2 * KeyDist, 2 * KeyAngle)
  BY ConstantTypes DEF Near, Moved, Distance, Places

LEMMA LastAppended ==
  ASSUME NEW T, NEW s \in Seq(T), NEW e
  PROVE  Append(s, e) # <<>> /\ Append(s, e)[Len(Append(s, e))] = e
  OBVIOUS

LEMMA LastOfTail ==
  ASSUME NEW T, NEW s \in Seq(T), s # <<>>
  PROVE  /\ Tail(s) = <<>> => Head(s) = s[Len(s)]
         /\ Tail(s) # <<>> => Tail(s)[Len(Tail(s))] = s[Len(s)]
<1>1. Len(s) \in Nat /\ Len(s) # 0
  BY EmptySeq
<1>2. CASE Len(s) = 1
  <2>1. Len(Tail(s)) = 0 /\ Tail(s) \in Seq(T)
    BY <1>2
  <2>2. Tail(s) = <<>>
    BY <2>1, EmptySeq
  <2>3. Head(s) = s[Len(s)]
    BY <1>2
  <2> QED BY <2>2, <2>3
<1>3. CASE Len(s) > 1
  <2>1. Len(Tail(s)) = Len(s) - 1 /\ Tail(s)[Len(s) - 1] = s[Len(s)]
    BY <1>1, <1>3
  <2>2. Tail(s) # <<>>
    <3>1. \A n \in Nat : n > 1 => n - 1 # 0
      OBVIOUS
    <3>2. Len(Tail(s)) # 0
      BY <1>1, <1>3, <2>1, <3>1, Zenon
    <3> QED BY <3>2, EmptySeq
  <2> QED BY <2>1, <2>2
<1> QED BY <1>1, <1>2, <1>3

LEMMA FollowedKept ==
  ASSUME GateTypes, WorkerTypes, CoreTypes, Followed, [StoreNext]_storeVars
  PROVE  Followed'
<1> USE DEF Followed
<1>1. ASSUME NEW p \in Poses, Frame(p) PROVE Followed'
  <2> DEFINE f == [time |-> now + 1, pose |-> p]
  <2>1. last' = p /\ UNCHANGED <<wpc, task, lastPose>>
    BY <1>1 DEF Frame, workerVars, coreVars
  <2>4. p \in Places
    BY ConstantTypes
  <2>2. CASE Offered(f)
    <3>1. gate' = GateAfter(f)
      BY <1>1, <2>2 DEF Frame
    <3>2. gate'.has /\ gate'.pose = p
      BY <3>1 DEF GateAfter
    <3>3. CASE Len(tasks) < QueueCap
      <4>1. tasks' = Append(tasks, f)
        BY <1>1, <2>2, <3>3 DEF Frame
      <4>2. tasks' # <<>> /\ tasks'[Len(tasks')] = f
        BY <4>1, LastAppended DEF GateTypes
      <4> QED BY <2>1, <2>4, <3>2, <4>2, NearItself
    <3>4. CASE ~(Len(tasks) < QueueCap)
      <4>1. Len(tasks) >= QueueCap
        BY <3>4, StoreAssumption DEF GateTypes
      <4>2. missed'
        BY <1>1, <2>2, <4>1 DEF Frame
      <4> QED BY <2>1, <2>4, <3>2, <4>2, NearItself
    <3> QED BY <3>3, <3>4
  <2>3. CASE ~Offered(f)
    <3>1. gate' = gate /\ UNCHANGED <<tasks, missed>>
      BY <1>1, <2>3 DEF Frame, GateKept
    <3>2. gate.has => Near(gate.pose, p)
      BY <2>3 DEF Offered, Near
    <3> QED BY <2>1, <3>1, <3>2
  <2> QED BY <2>2, <2>3
<1>2. CASE TakeTask
  <2>1. /\ tasks # <<>> /\ tasks' = Tail(tasks) /\ task' = Head(tasks) /\ wpc' = "taken"
        /\ UNCHANGED <<gate, last, missed>>
    BY <1>2 DEF TakeTask
  <2>2. tasks' = <<>> => Head(tasks) = tasks[Len(tasks)]
    BY <2>1, LastOfTail DEF GateTypes
  <2>3. tasks' # <<>> => tasks'[Len(tasks')] = tasks[Len(tasks)]
    BY <2>1, LastOfTail DEF GateTypes
  <2> QED BY <2>1, <2>2, <2>3
<1>3. CASE Enter
  <2>1. UNCHANGED <<gate, last, missed, tasks, task, lastPose>> /\ wpc = "taken"
    BY <1>3 DEF Enter, gateVars
  <2>2. wpc' = "idle" => Near(lastPose, task.pose)
    BY <1>3 DEF Enter, IsKeyFrame, Near
  <2> QED BY <2>1, <2>2
<1>4. CASE AddToMap
  <2>1. /\ UNCHANGED <<gate, last, missed, tasks>> /\ wpc = "append" /\ wpc' = "idle"
        /\ lastPose' = task.pose
    BY <1>4 DEF AddToMap, gateVars
  <2>2. task.pose \in Places
    BY DEF WorkerTypes, Frames
  <2> QED BY <2>1, <2>2, NearItself
<1>5. CASE Restart
  BY <1>5 DEF Restart, NoGate
<1>6. SaveService \/ UNCHANGED storeVars \/ (\E s \in Savers : SaveCopies(s) \/ SaveEnds(s))
      => UNCHANGED <<gate, last, missed, tasks, wpc, task, lastPose>>
  BY DEF SaveService, SaveCopies, SaveEnds, storeVars, gateVars, workerVars, coreVars
<1>7. WipeFile \/ OpenDatabase \/ AddPose \/ WriteCloud \/ WriteDescriptor
      => /\ UNCHANGED <<gate, last, missed, tasks, task, lastPose>>
         /\ wpc # "idle" /\ wpc' # "idle"
  BY DEF WipeFile, OpenDatabase, AddPose, WriteCloud, WriteDescriptor, gateVars,
         workerVars, coreVars
<1>8. CASE UNCHANGED <<gate, last, missed, tasks, wpc, task, lastPose>>
  BY <1>8
<1>9. CASE /\ UNCHANGED <<gate, last, missed, tasks, task, lastPose>>
           /\ wpc # "idle" /\ wpc' # "idle"
  BY <1>9
<1> QED BY <1>1, <1>2, <1>3, <1>4, <1>5, <1>6, <1>7, <1>8, <1>9, StoreActions

-----------------------------------------------------------------------------
LEMMA GateTypesInit ==
  ASSUME StoreInit
  PROVE  GateTypes
<1>1. /\ now = 0 /\ last = Identity /\ gate = NoGate /\ tasks = <<>> /\ missed = FALSE
  BY DEF StoreInit
<1>2. Identity \in Places
  BY ConstantTypes
<1>3. NoGate \in [has : BOOLEAN, pose : Places, time : Int]
  BY <1>2 DEF NoGate
<1>4. <<>> \in Seq(Frames)
  OBVIOUS
<1>5. 0 \in Int /\ FALSE \in BOOLEAN
  OBVIOUS
<1> HIDE DEF NoGate
<1> QED BY <1>1, <1>2, <1>3, <1>4, <1>5, Zenon DEF GateTypes

LEMMA InitInv ==
  ASSUME StoreInit
  PROVE  StoreInv
<1> USE ConstantTypes DEF StoreInit
<1>1. StoreTypes
  <2>1. <<>> \in Seq(Frames)
    OBVIOUS
  <2>3. NoSaver \in [pc : {"none", "copy", "write"}, copy : Seq(Frames), owed : Nat]
    BY DEF NoSaver
  <2>4. NoDatabase \in [Slots -> Frames]
    BY DEF NoDatabase
  <2>5. GateTypes
    BY GateTypesInit
  <2>6. WorkerTypes
    BY DEF WorkerTypes
  <2>7. CoreTypes
    BY <2>1 DEF CoreTypes
  <2>8. DatabaseTypes
    BY <2>1, <2>4 DEF DatabaseTypes
  <2>9. SaveTypes
    BY <2>3 DEF SaveTypes
  <2> QED BY <2>5, <2>6, <2>7, <2>8, <2>9 DEF StoreTypes
<1>2. Exclusive /\ Promises
  BY DEF Exclusive, OneSaveAtATime, Promises, NoSaver
<1>3. MapFollows
  BY DEF MapFollows, Locked, Writing
<1>4. OwnFiles /\ DatabaseConsistent
  BY DEF OwnFiles, Writing, DatabaseConsistent, NoDatabase
<1>5. Followed
  BY DEF Followed, NoGate
<1> QED BY <1>1, <1>2, <1>3, <1>4, <1>5 DEF StoreInv

LEMMA NextInv ==
  ASSUME StoreInv, [StoreNext]_storeVars
  PROVE  StoreInv'
<1>1. StoreTypes'
  BY TypesKept DEF StoreInv
<1>2. /\ GateTypes /\ WorkerTypes /\ CoreTypes /\ SaveTypes /\ DatabaseTypes
      /\ Exclusive /\ MapFollows /\ Promises /\ OwnFiles /\ DatabaseConsistent /\ Followed
  BY DEF StoreInv, StoreTypes
<1>3. Exclusive' /\ MapFollows' /\ Promises'
  BY <1>2, ExclusiveKept, MapFollowsKept, PromisesKept
<1>4. OwnFiles' /\ DatabaseConsistent' /\ Followed'
  BY <1>2, OwnFilesKept, DatabaseKept, FollowedKept
<1> QED BY <1>1, <1>3, <1>4 DEF StoreInv

LEMMA StoreInvariant == StoreSpec => []StoreInv
  BY InitInv, NextInv, PTL DEF StoreSpec

\* However the process ends and starts again, a descriptor under its own name
\* vouches for the cloud of the same frame, and for its pose line, too, unless
\* writing a line has failed; no line is ever another frame's.
THEOREM DatabaseIsConsistent == StoreSpec => []DatabaseConsistent
<1>1. StoreInv => DatabaseConsistent
  BY DEF StoreInv
<1> QED BY <1>1, StoreInvariant, PTL

\* The flag saving_ lets one detached thread at a time have the map file open.
THEOREM SavesExclude == StoreSpec => []OneSaveAtATime
<1>1. StoreInv => OneSaveAtATime
  BY DEF StoreInv, Exclusive
<1> QED BY <1>1, StoreInvariant, PTL

\* No place the robot has driven to is farther from a key frame than the
\* callback's gate and the store's own allow together.
THEOREM PlacesAreCovered == StoreSpec => []PlaceIsCovered
<1>1. StoreInv => PlaceIsCovered
  <2> SUFFICES ASSUME StoreInv, gate.has, wpc = "idle", tasks = <<>>, ~missed
               PROVE  ~Moved(lastPose, last, 2 * KeyDist, 2 * KeyAngle)
    BY DEF PlaceIsCovered
  <2>1. Near(lastPose, gate.pose) /\ Near(gate.pose, last)
    BY DEF StoreInv, Followed
  <2>2. lastPose \in Places /\ gate.pose \in Places /\ last \in Places
    BY DEF StoreInv, StoreTypes, GateTypes, CoreTypes
  <2> QED BY <2>1, <2>2, NearTwice
<1> QED BY <1>1, StoreInvariant, PTL

\* A save that completes holds what there was when it was asked for.
THEOREM SavesHoldTheirRequest == StoreSpec => SavedMapHoldsRequest
<1> DEFINE Fulfilled == \A s \in Savers :
       (SaveEnds(s) /\ mapFile' # <<Torn>>) =>
          IsPrefix(mapFile', keyframes) /\ Len(mapFile') >= saver[s].owed
<1>1. ASSUME StoreInv, [StoreNext]_storeVars PROVE [Fulfilled]_storeVars
  <2> SUFFICES ASSUME NEW s \in Savers, SaveEnds(s), mapFile' # <<Torn>>
               PROVE  IsPrefix(mapFile', keyframes) /\ Len(mapFile') >= saver[s].owed
    OBVIOUS
  <2>1. saver[s].pc = "write" /\ mapFile' = saver[s].copy
    BY DEF SaveEnds
  <2>2. saver[s].owed \in Nat /\ saver[s].copy \in Seq(Frames)
    BY <1>1 DEF StoreInv, StoreTypes, SaveTypes
  <2> QED BY <1>1, <2>1, <2>2 DEF StoreInv, Promises
<1> QED BY <1>1, StoreInvariant, PTL DEF StoreSpec, SavedMapHoldsRequest

-----------------------------------------------------------------------------
(***************************************************************************)
(* The voxel map.                                                          *)
(***************************************************************************)

(* Places and voxels.                                                      *)
LEMMA Division ==
  ASSUME NEW a \in Nat, NEW n \in Nat \ {0}
  PROVE  /\ a \div n \in Nat
         /\ n * (a \div n) <= a /\ a < n * (a \div n) + n
  OBVIOUS

LEMMA LargerQuotient ==
  ASSUME NEW n \in Nat \ {0}, NEW x \in Int, NEW y \in Int, n * x < n * y + n
  PROVE  x <= y
<1> SUFFICES ASSUME y + 1 <= x PROVE FALSE
  OBVIOUS
<1>1. n * (y + 1) <= n * x
  OBVIOUS
<1>2. n * (y + 1) = n * y + n
  OBVIOUS
<1> QED BY <1>1, <1>2

LEMMA Gaps ==
  ASSUME NEW p \in Int, NEW q \in Int, NEW r \in Int
  PROVE  /\ Gap(p, q) \in Nat /\ Gap(p, q) = Gap(q, p) /\ Gap(p, p) = 0
         /\ Gap(p, r) <= Gap(p, q) + Gap(q, r)
         /\ p - q <= Gap(p, q) /\ q - p <= Gap(p, q)
  BY DEF Gap

\* Where the places of a voxel are.
LEMMA VoxelOf ==
  ASSUME NEW p \in Int
  PROVE  /\ KeyOf(p, VoxelSize) \in Int
         /\ p >= 0 => /\ KeyOf(p, VoxelSize) >= 0
                      /\ VoxelSize * KeyOf(p, VoxelSize) <= p
                      /\ p < VoxelSize * KeyOf(p, VoxelSize) + VoxelSize
         /\ p < 0 => /\ KeyOf(p, VoxelSize) <= 0
                     /\ p <= VoxelSize * KeyOf(p, VoxelSize)
                     /\ VoxelSize * KeyOf(p, VoxelSize) < p + VoxelSize
<1>1. VoxelSize \in Nat \ {0}
  BY GridAssumption
<1>2. CASE p >= 0
  BY <1>1, <1>2, Division DEF KeyOf
<1>3. CASE p < 0
  <2> DEFINE d == (-p) \div VoxelSize
  <2>1. /\ d \in Nat /\ VoxelSize * d <= -p /\ -p < VoxelSize * d + VoxelSize
    BY <1>1, <1>3, Division
  <2>2. KeyOf(p, VoxelSize) = -d
    BY <1>3 DEF KeyOf
  <2> HIDE DEF d
  <2>3. VoxelSize * (-d) = -(VoxelSize * d) /\ VoxelSize * d \in Int
    BY <1>1, <2>1
  <2> QED BY <1>1, <1>3, <2>1, <2>2, <2>3
<1> QED BY <1>2, <1>3

\* Places of one voxel are close, though the one at the origin is twice as
\* wide.
LEMMA OneVoxel ==
  ASSUME NEW p \in Int, NEW q \in Int, KeyOf(p, VoxelSize) = KeyOf(q, VoxelSize)
  PROVE  Gap(p, q) < 2 * VoxelSize
<1> DEFINE k == KeyOf(p, VoxelSize)
           s == VoxelSize * k
<1>1. VoxelSize \in Nat \ {0} /\ k \in Int /\ s \in Int
  BY GridAssumption, VoxelOf
<1>2. /\ p >= 0 => k >= 0 /\ s <= p /\ p < s + VoxelSize
      /\ p < 0 => k <= 0 /\ p <= s /\ s < p + VoxelSize
      /\ q >= 0 => k >= 0 /\ s <= q /\ q < s + VoxelSize
      /\ q < 0 => k <= 0 /\ q <= s /\ s < q + VoxelSize
  BY VoxelOf
<1>3. k = 0 => s = 0
  BY <1>1
<1> HIDE DEF k, s
<1> QED BY <1>1, <1>2, <1>3 DEF Gap

\* A place within reach of another is in a voxel within the window.
LEMMA ReachedVoxels ==
  ASSUME NEW p \in Int, NEW q \in Int, NEW w \in Nat, Gap(p, q) <= w * VoxelSize
  PROVE  KeyOf(q, VoxelSize) \in (KeyOf(p, VoxelSize) - w)..(KeyOf(p, VoxelSize) + w)
<1>1. VoxelSize \in Nat \ {0}
  BY GridAssumption
<1>2. ASSUME NEW a \in Int, NEW b \in Int, a - b <= w * VoxelSize
      PROVE  KeyOf(a, VoxelSize) <= KeyOf(b, VoxelSize) + w
  <2> DEFINE i == KeyOf(a, VoxelSize)
             j == KeyOf(b, VoxelSize)
             s == VoxelSize * i
             t == VoxelSize * j
             u == VoxelSize * w
  <2>1. i \in Int /\ j \in Int /\ s \in Int /\ t \in Int /\ u \in Int /\ u = w * VoxelSize
    BY <1>1, VoxelOf
  <2>2. /\ a >= 0 => i >= 0 /\ s <= a
        /\ a < 0 => i <= 0 /\ s < a + VoxelSize
        /\ b >= 0 => j >= 0 /\ b < t + VoxelSize
        /\ b < 0 => j <= 0 /\ b <= t
    BY VoxelOf
  <2>3. VoxelSize * (j + w) = t + u
    BY <1>1, <2>1
  <2> HIDE DEF i, j, s, t, u
  <2>4. CASE a < 0 /\ b >= 0
    <3>1. i <= 0 /\ j >= 0
      BY <2>2, <2>4
    <3>2. i <= j + w
      BY <2>1, <3>1
    <3> QED BY <3>2 DEF i, j
  <2>5. CASE ~(a < 0 /\ b >= 0)
    <3>1. s < t + u + VoxelSize
      BY <1>1, <1>2, <2>1, <2>2, <2>5
    <3>2. VoxelSize * i < VoxelSize * (j + w) + VoxelSize
      BY <2>3, <3>1 DEF s
    <3>3. j + w \in Int
      BY <2>1
    <3>4. i <= j + w
      BY <1>1, <2>1, <3>2, <3>3, LargerQuotient
    <3> QED BY <3>4 DEF i, j
  <2> QED BY <2>4, <2>5 DEF i, j
<1>3. p - q <= w * VoxelSize /\ q - p <= w * VoxelSize
  <2>1. w * VoxelSize \in Int
    BY <1>1
  <2>2. p - q <= Gap(p, q) /\ q - p <= Gap(p, q) /\ Gap(p, q) \in Int
    BY Gaps
  <2> QED BY <2>1, <2>2
<1>4. /\ KeyOf(p, VoxelSize) <= KeyOf(q, VoxelSize) + w
      /\ KeyOf(q, VoxelSize) <= KeyOf(p, VoxelSize) + w
  BY <1>2, <1>3
<1>5. KeyOf(p, VoxelSize) \in Int /\ KeyOf(q, VoxelSize) \in Int
  BY VoxelOf
<1> QED BY <1>4, <1>5

-----------------------------------------------------------------------------
(* The dictionary.                                                         *)

\* Blocks hold what belongs to their voxel, and no more than they have room for.
Keyed(map) ==
  /\ map = [k \in DOMAIN map |-> map[k]] /\ DOMAIN map \subseteq Int
  /\ \A k \in DOMAIN map :
       /\ map[k] \in Seq(Int) /\ map[k] # <<>> /\ Len(map[k]) <= Capacity
       /\ \A q \in ToSet(map[k]) : KeyOf(q, VoxelSize) = k

LEMMA BlockPoints ==
  ASSUME NEW block \in Seq(Int)
  PROVE  /\ ToSet(block) = {block[i] : i \in 1..Len(block)} /\ ToSet(block) \subseteq Int
         /\ \A p : ToSet(Append(block, p)) = ToSet(block) \cup {p}
         /\ block # <<>> => Head(block) \in ToSet(block)
<1>1. ToSet(block) = {block[i] : i \in 1..Len(block)}
  BY DEF ToSet, Range
<1>2. ASSUME NEW p
      PROVE  ToSet(Append(block, p)) = ToSet(block) \cup {p}
  <2>1. /\ Len(Append(block, p)) = Len(block) + 1 /\ Len(block) \in Nat
        /\ DOMAIN Append(block, p) = 1..(Len(block) + 1)
        /\ \A i \in 1..Len(block) : Append(block, p)[i] = block[i]
        /\ Append(block, p)[Len(block) + 1] = p
    OBVIOUS
  <2>2. ToSet(Append(block, p)) = {Append(block, p)[i] : i \in 1..(Len(block) + 1)}
    BY <2>1 DEF ToSet, Range
  <2>3. 1..(Len(block) + 1) = 1..Len(block) \cup {Len(block) + 1}
    BY <2>1
  <2> QED BY <1>1, <2>1, <2>2, <2>3
<1> QED BY <1>1, <1>2

\* A block refuses a point only for want of room or for one next to it.
LEMMA UpsertedBlock ==
  ASSUME NEW block \in Seq(Int), Len(block) <= Capacity, NEW p \in Int,
         block = <<>> => Capacity > 0
  PROVE  LET new == Upserted(block, p) IN
         /\ new \in Seq(Int) /\ Len(new) <= Capacity /\ Len(block) <= Len(new)
         /\ ToSet(block) \subseteq ToSet(new) /\ ToSet(new) \subseteq ToSet(block) \cup {p}
         /\ Len(new) = Capacity \/ \E q \in ToSet(new) : Gap(p, q) <= MinDist
         /\ block = <<>> => new # <<>>
<1> DEFINE new == Upserted(block, p)
<1>1. Capacity \in Nat \ {0} /\ MinDist \in Nat /\ Len(block) \in Nat
  BY GridAssumption
<1>2. CASE Len(block) < Capacity /\ \A q \in ToSet(block) : Gap(p, q) > MinDist
  <2>1. new = Append(block, p)
    BY <1>2 DEF Upserted
  <2>2. new \in Seq(Int) /\ Len(new) = Len(block) + 1 /\ new # <<>>
    BY <2>1
  <2>3. ToSet(new) = ToSet(block) \cup {p}
    BY <2>1, BlockPoints
  <2>4. Gap(p, p) <= MinDist
    BY <1>1, Gaps
  <2> QED BY <1>1, <1>2, <2>2, <2>3, <2>4
<1>3. CASE ~(Len(block) < Capacity /\ \A q \in ToSet(block) : Gap(p, q) > MinDist)
  <2>1. new = block
    BY <1>3 DEF Upserted
  <2>2. Len(block) = Capacity \/ \E q \in ToSet(block) : Gap(p, q) <= MinDist
    <3>1. \A q \in ToSet(block) : Gap(p, q) \in Nat
      BY BlockPoints, Gaps
    <3> QED BY <1>1, <1>3, <3>1
  <2>3. block # <<>>
    <3> SUFFICES ASSUME block = <<>> PROVE FALSE
      OBVIOUS
    <3>1. ToSet(block) = {} /\ Len(block) = 0
      BY DEF ToSet, Range
    <3> QED BY <1>1, <1>3, <3>1
  <2> QED BY <2>1, <2>2, <2>3
<1> QED BY <1>2, <1>3

\* Adding a point keeps the dictionary and what is next to earlier points.
LEMMA WithAdds ==
  ASSUME NEW map, Keyed(map), NEW p \in Int
  PROVE  /\ Keyed(With(map, p)) /\ Kept(With(map, p), p)
         /\ \A q \in Int : Kept(map, q) => Kept(With(map, p), q)
<1> DEFINE key == KeyOf(p, VoxelSize)
           old == IF key \in DOMAIN map THEN map[key] ELSE <<>>
           new == Upserted(old, p)
           after == With(map, p)
<1>1. /\ DOMAIN after = DOMAIN map \cup {key} /\ after[key] = new
      /\ \A k \in DOMAIN map : k # key => after[k] = map[k]
      /\ after = [k \in DOMAIN after |-> after[k]]
  BY DEF With
<1>2. old \in Seq(Int) /\ Len(old) <= Capacity /\ Capacity > 0
  <2>1. <<>> \in Seq(Int) /\ Len(<<>>) = 0
    OBVIOUS
  <2> QED BY <2>1, GridAssumption DEF Keyed
<1>3. /\ new \in Seq(Int) /\ Len(new) <= Capacity /\ Len(old) <= Len(new)
      /\ ToSet(old) \subseteq ToSet(new) /\ ToSet(new) \subseteq ToSet(old) \cup {p}
      /\ Len(new) = Capacity \/ \E q \in ToSet(new) : Gap(p, q) <= MinDist
      /\ old = <<>> => new # <<>>
  <2> HIDE DEF old
  <2> QED BY <1>2, UpsertedBlock
<1>4. \A q \in ToSet(old) : KeyOf(q, VoxelSize) = key
  <2>1. ToSet(<<>>) = {}
    BY DEF ToSet, Range
  <2> QED BY <2>1 DEF Keyed
<1>5. new # <<>>
  <2>1. old # <<>> => Len(old) > 0
    BY <1>2
  <2>2. old # <<>> => Len(new) > 0
    BY <1>2, <1>3, <2>1
  <2> QED BY <1>3, <2>2
<1>6. key \in Int
  BY VoxelOf
<1> HIDE DEF new, after
<1>7. Keyed(after)
  <2>1. \A k \in DOMAIN after : k = key \/ (k \in DOMAIN map /\ after[k] = map[k])
    BY <1>1
  <2>2. \A q \in ToSet(new) : KeyOf(q, VoxelSize) = key
    BY <1>3, <1>4
  <2>3. DOMAIN after \subseteq Int
    BY <1>1, <1>6 DEF Keyed
  <2>4. ASSUME NEW k \in DOMAIN after
        PROVE  /\ after[k] \in Seq(Int) /\ after[k] # <<>> /\ Len(after[k]) <= Capacity
               /\ \A q \in ToSet(after[k]) : KeyOf(q, VoxelSize) = k
    BY <1>1, <1>3, <1>5, <2>1, <2>2 DEF Keyed
  <2> QED BY <1>1, <2>3, <2>4 DEF Keyed
<1>8. Kept(after, p)
  BY <1>1, <1>3 DEF Kept
<1>9. ASSUME NEW q \in Int, Kept(map, q)
      PROVE  Kept(after, q)
  <2> DEFINE k == KeyOf(q, VoxelSize)
  <2>1. /\ k \in DOMAIN map
        /\ Len(map[k]) = Capacity \/ \E r \in ToSet(map[k]) : Gap(q, r) <= MinDist
    BY <1>9 DEF Kept
  <2>2. CASE k # key
    BY <1>1, <2>1, <2>2 DEF Kept
  <2>3. CASE k = key
    <3>1. old = map[k] /\ after[k] = new
      BY <1>1, <2>1, <2>3
    <3>2. Len(old) = Capacity => Len(new) = Capacity
      BY <1>2, <1>3, GridAssumption
    <3> QED BY <1>1, <1>3, <2>1, <3>1, <3>2 DEF Kept
  <2> QED BY <2>2, <2>3
<1> QED BY <1>7, <1>8, <1>9 DEF after

-----------------------------------------------------------------------------
(* A frame's points, one after the other.                                  *)

\* f[n] is the map after n of the points.
Afters(f, start, points, m) ==
  f = [n \in 0..m |-> IF n = 0 THEN start ELSE With(f[n-1], points[n])]

LEMMA AftersStep ==
  ASSUME NEW f, NEW start, NEW points, NEW m \in Nat, Afters(f, start, points, m),
         NEW n \in 0..m
  PROVE  f[n] = IF n = 0 THEN start ELSE With(f[n-1], points[n])
<1> DEFINE g == [j \in 0..m |-> IF j = 0 THEN start ELSE With(f[j-1], points[j])]
<1>1. g[n] = IF n = 0 THEN start ELSE With(f[n-1], points[n])
  OBVIOUS
<1>2. f = g
  BY DEF Afters
<1> HIDE DEF g
<1> QED BY <1>1, <1>2, Zenon

LEMMA AftersExist ==
  ASSUME NEW start, NEW points, NEW n \in Nat
  PROVE  \E f : Afters(f, start, points, n)
<1> DEFINE T == {m \in Nat : \E f : Afters(f, start, points, m)}
<1>1. 0 \in T
  <2> DEFINE f == [i \in 0..0 |-> start]
  <2>1. f = [i \in 0..0 |-> IF i = 0 THEN start ELSE With(f[i-1], points[i])]
    <3>1. \A i \in 0..0 : start = IF i = 0 THEN start ELSE With(f[i-1], points[i])
      OBVIOUS
    <3> QED BY <3>1
  <2>2. Afters(f, start, points, 0)
    BY <2>1 DEF Afters
  <2> QED BY <2>2
<1>2. ASSUME NEW m \in 1..n, m - 1 \in T
      PROVE  m \in T
  <2>1. PICK f : Afters(f, start, points, m - 1)
    BY <1>2
  <2> DEFINE x == With(f[m-1], points[m])
             g == [i \in 0..m |-> IF i = m THEN x ELSE f[i]]
  <2>2. m - 1 \in Nat
    OBVIOUS
  <2>3. \A i \in 0..(m - 1) : f[i] = IF i = 0 THEN start ELSE With(f[i-1], points[i])
    BY <2>1, <2>2, AftersStep
  <2>4. ASSUME NEW i \in 0..m
        PROVE  g[i] = IF i = 0 THEN start ELSE With(g[i-1], points[i])
    <3>1. CASE i = m
      <4>1. m # 0 /\ m - 1 \in 0..m /\ m - 1 # m
        OBVIOUS
      <4>2. g[i] = x /\ g[i-1] = f[m-1]
        BY <3>1, <4>1
      <4> QED BY <3>1, <4>1, <4>2
    <3>2. CASE i = 0
      <4>1. 0 \in 0..m /\ 0 # m /\ 0 \in 0..(m - 1)
        OBVIOUS
      <4>2. g[0] = f[0]
        BY <4>1
      <4> QED BY <2>3, <3>2, <4>1, <4>2
    <3>3. CASE i \in 1..(m - 1)
      <4>1. i - 1 \in 0..m /\ i - 1 # m /\ i \in 0..(m - 1) /\ i # m /\ i # 0
        BY <3>3
      <4>2. g[i] = f[i] /\ g[i-1] = f[i-1]
        BY <4>1
      <4> QED BY <2>3, <4>1, <4>2
    <3> QED BY <3>1, <3>2, <3>3
  <2>5. g = [i \in 0..m |-> g[i]]
    OBVIOUS
  <2> HIDE DEF g
  <2>6. Afters(g, start, points, m)
    BY <2>4, <2>5 DEF Afters
  <2> QED BY <2>6
<1> HIDE DEF T
<1>3. n \in T
  BY <1>1, <1>2, UpTo
<1> QED BY <1>3 DEF T

\* Every point of a frame that was added is kept.
LEMMA AddedKeeps ==
  ASSUME NEW map, Keyed(map), NEW points \in Seq(Int)
  PROVE  /\ Keyed(Added(map, points))
         /\ \A p \in ToSet(points) : Kept(Added(map, points), p)
<1> DEFINE f == CHOOSE g : Afters(g, map, points, Len(points))
           T == {n \in Nat : Keyed(f[n]) /\ \A i \in 1..n : Kept(f[n], points[i])}
<1>1. Len(points) \in Nat /\ \A i \in 1..Len(points) : points[i] \in Int
  OBVIOUS
<1>2. Added(map, points) = f[Len(points)]
  BY DEF Added, Afters
<1>3. Afters(f, map, points, Len(points))
  <2>1. \E g : Afters(g, map, points, Len(points))
    BY <1>1, AftersExist
  <2> QED BY <2>1
<1> HIDE DEF f
<1>4. \A n \in 0..Len(points) : f[n] = IF n = 0 THEN map ELSE With(f[n-1], points[n])
  BY <1>1, <1>3, AftersStep
<1>5. 0 \in T
  <2>1. f[0] = map /\ 1..0 = {}
    BY <1>1, <1>4
  <2> QED BY <2>1
<1>6. ASSUME NEW n \in 1..Len(points), n - 1 \in T
      PROVE  n \in T
  <2>1. Keyed(f[n-1]) /\ \A i \in 1..(n - 1) : Kept(f[n-1], points[i])
    BY <1>6
  <2>2. f[n] = With(f[n-1], points[n]) /\ points[n] \in Int
    BY <1>1, <1>4
  <2> DEFINE before == f[n-1]
             x == points[n]
  <2>3. Keyed(f[n]) /\ Kept(f[n], points[n])
        /\ \A q \in Int : Kept(f[n-1], q) => Kept(f[n], q)
    <3>1. Keyed(before) /\ x \in Int /\ f[n] = With(before, x)
      BY <2>1, <2>2
    <3> HIDE DEF before, x
    <3>2. /\ Keyed(With(before, x)) /\ Kept(With(before, x), x)
          /\ \A q \in Int : Kept(before, q) => Kept(With(before, x), q)
      BY <3>1, WithAdds
    <3> QED BY <3>1, <3>2 DEF before, x
  <2>4. ASSUME NEW i \in 1..n
        PROVE  Kept(f[n], points[i])
    <3>1. CASE i = n
      BY <2>3, <3>1
    <3>2. CASE i \in 1..(n - 1)
      <4>1. points[i] \in Int
        BY <1>1
      <4> QED BY <2>1, <2>3, <3>2, <4>1
    <3> QED BY <3>1, <3>2
  <2>5. n \in Nat
    BY <1>1
  <2> QED BY <2>3, <2>4, <2>5
<1>7. Len(points) \in T
  <2> HIDE DEF T
  <2>1. \A n \in 0..Len(points) : n \in T
    BY <1>1, <1>5, <1>6, UpTo
  <2> QED BY <1>1, <2>1
<1> QED BY <1>2, <1>7, BlockPoints

\* Suppressing far voxels leaves what is near, since a voxel's oldest point is
\* not far from any other place in it.
LEMMA SurroundingsKeep ==
  ASSUME NEW map, Keyed(map), NEW at \in Int
  PROVE  /\ Keyed(Surroundings(map, at))
         /\ \A p \in Int : Gap(p, at) + 2 * VoxelSize <= MaxDistance /\ Kept(map, p)
                             => Kept(Surroundings(map, at), p)
<1> DEFINE after == Surroundings(map, at)
<1>1. /\ DOMAIN after = {k \in DOMAIN map : ~TooFar(Head(map[k]), at)}
      /\ after = [k \in DOMAIN after |-> after[k]]
      /\ \A k \in DOMAIN after : after[k] = map[k]
  BY DEF Surroundings, Restrict
<1> HIDE DEF after
<1>2. Keyed(after)
  BY <1>1 DEF Keyed
<1>3. ASSUME NEW p \in Int, Gap(p, at) + 2 * VoxelSize <= MaxDistance, Kept(map, p)
      PROVE  Kept(after, p)
  <2> DEFINE k == KeyOf(p, VoxelSize)
             oldest == Head(map[k])
  <2>1. k \in DOMAIN map
    BY <1>3 DEF Kept
  <2>2. oldest \in Int /\ KeyOf(oldest, VoxelSize) = k
    <3>1. map[k] \in Seq(Int) /\ map[k] # <<>>
      BY <2>1 DEF Keyed
    <3>2. oldest \in ToSet(map[k]) /\ ToSet(map[k]) \subseteq Int
      BY <3>1, BlockPoints
    <3> QED BY <2>1, <3>2 DEF Keyed
  <2> HIDE DEF oldest
  <2>3. Gap(oldest, p) < 2 * VoxelSize
    BY <2>2, OneVoxel
  <2>4. Gap(oldest, at) <= Gap(oldest, p) + Gap(p, at)
        /\ Gap(oldest, at) \in Int /\ Gap(oldest, p) \in Int /\ Gap(p, at) \in Int
    <3>1. oldest \in Int
      BY <2>2
    <3>2. Gap(oldest, at) <= Gap(oldest, p) + Gap(p, at) /\ Gap(oldest, p) \in Nat
      BY <3>1, Gaps
    <3>3. Gap(oldest, at) \in Nat /\ Gap(p, at) \in Nat
      BY <3>1, Gaps
    <3> QED BY <3>2, <3>3
  <2>5. ~(Gap(oldest, at) > MaxDistance)
    BY <1>3, <2>3, <2>4, GridAssumption, UpkeepAssumption
  <2>6. k \in DOMAIN after
    BY <1>1, <2>1, <2>5 DEF TooFar, oldest
  <2> QED BY <1>1, <1>3, <2>6 DEF Kept
<1> QED BY <1>2, <1>3 DEF after

-----------------------------------------------------------------------------
(* The nearest of a set.                                                   *)
LEMMA NearerOrders ==
  ASSUME NEW p \in Int, NEW q \in Int, NEW r \in Int, NEW s \in Int
  PROVE  /\ ~Nearer(p, q, q)
         /\ Nearer(p, q, r) /\ Nearer(p, r, s) => Nearer(p, q, s)
         /\ q = r \/ Nearer(p, q, r) \/ Nearer(p, r, q)
         /\ ~Nearer(p, q, r) => Gap(p, r) <= Gap(p, q)
<1>1. Gap(p, q) \in Nat /\ Gap(p, r) \in Nat /\ Gap(p, s) \in Nat
  BY Gaps
<1> QED BY <1>1 DEF Nearer

LEMMA NearestExists ==
  ASSUME NEW p \in Int, NEW G \in SUBSET Int, G # {}
  PROVE  \E m \in G : \A q \in G : q = m \/ Nearer(p, m, q)
<1> DEFINE gaps == {Gap(p, q) : q \in G}
<1>1. PICK g \in gaps : \A h \in gaps : g <= h
  <2>1. gaps \in SUBSET Nat /\ gaps # {}
    BY Gaps
  <2> HIDE DEF gaps
  <2> QED BY <2>1, LeastNatural
<1>2. PICK a \in G : g = Gap(p, a)
  BY <1>1
<1>3. \A q \in G : Gap(p, a) <= Gap(p, q)
  BY <1>1, <1>2
<1>4. \A q \in G : Gap(p, q) \in Nat
  BY Gaps
<1>5. CASE \A q \in G : Gap(p, q) = Gap(p, a) => a <= q
  <2>1. \A q \in G : q = a \/ Nearer(p, a, q)
    BY <1>2, <1>3, <1>4, <1>5 DEF Nearer
  <2> QED BY <1>2, <2>1
<1>6. ASSUME NEW b \in G, Gap(p, b) = Gap(p, a), b < a
      PROVE  \E m \in G : \A q \in G : q = m \/ Nearer(p, m, q)
  <2>1. \A q \in G : Gap(p, q) = Gap(p, a) => q = a \/ q = b
    BY <1>2, <1>6 DEF Gap
  <2>2. \A q \in G : q = b \/ Nearer(p, b, q)
    BY <1>2, <1>3, <1>4, <1>6, <2>1 DEF Nearer
  <2> QED BY <2>2
<1> QED BY <1>2, <1>5, <1>6

\* The points of F with fewer than w nearer ones are the w nearest, or all.
LEMMA NearestMany ==
  ASSUME NEW p \in Int, NEW F \in SUBSET Int, IsFiniteSet(F), NEW W \in Nat
  PROVE  LET N == {q \in F : Cardinality({r \in F : Nearer(p, r, q)}) < W}
         IN \A q \in F : \/ q \in N
                         \/ Cardinality(N) = W /\ \A r \in N : Gap(p, r) <= Gap(p, q)
<1> DEFINE Below(q) == {r \in F : Nearer(p, r, q)}
           N(w) == {q \in F : Cardinality(Below(q)) < w}
           T == {w \in Nat : Cardinality(N(w)) = w \/ N(w) = F}
<1>1. \A q : IsFiniteSet(Below(q)) /\ Cardinality(Below(q)) \in Nat
  <2> TAKE q
  <2>1. Below(q) \subseteq F
    OBVIOUS
  <2> HIDE DEF Below
  <2> QED BY <2>1, FS_Subset, FS_CardinalityType
<1>2. \A w : IsFiniteSet(N(w)) /\ Cardinality(N(w)) \in Nat
  <2> TAKE w
  <2>1. N(w) \subseteq F
    OBVIOUS
  <2> HIDE DEF N
  <2> QED BY <2>1, FS_Subset, FS_CardinalityType
<1>3. ASSUME NEW q \in F, NEW r \in F, Nearer(p, q, r)
      PROVE  /\ q \notin Below(q) /\ Below(q) \cup {q} \subseteq Below(r)
             /\ Cardinality(Below(q)) + 1 <= Cardinality(Below(r))
  <2>1. q \notin Below(q)
    BY NearerOrders
  <2>2. \A s \in F : Nearer(p, s, q) => Nearer(p, s, r)
    BY <1>3, NearerOrders
  <2>3. Below(q) \cup {q} \subseteq Below(r)
    BY <1>3, <2>2
  <2> HIDE DEF Below
  <2>4. IsFiniteSet(Below(q) \cup {q}) /\ Cardinality(Below(q) \cup {q}) = Cardinality(Below(q)) + 1
    BY <1>1, <2>1, FS_AddElement
  <2>5. Cardinality(Below(q) \cup {q}) <= Cardinality(Below(r))
    BY <1>1, <2>3, FS_Subset
  <2> QED BY <2>1, <2>3, <2>4, <2>5
<1> HIDE DEF Below
<1>4. 0 \in T
  <2>1. N(0) = {}
    BY <1>1
  <2> HIDE DEF N
  <2> QED BY <2>1, FS_EmptySet
<1>5. ASSUME NEW w \in 1..W, w - 1 \in T
      PROVE  w \in T
  <2>1. \A q \in F : Cardinality(Below(q)) \in Nat
    BY <1>1
  <2>2. CASE N(w - 1) = F
    <3>1. w \in Nat
      OBVIOUS
    <3>2. \A q \in F : Cardinality(Below(q)) < w - 1
      BY <2>2
    <3>3. \A q \in F : Cardinality(Below(q)) < w
      BY <2>1, <3>1, <3>2
    <3>4. N(w) = F
      BY <3>3
    <3> QED BY <3>1, <3>4
  <2>3. CASE N(w - 1) # F
    <3>1. Cardinality(N(w - 1)) = w - 1
      BY <1>5, <2>3
    <3>2. PICK m \in F \ N(w - 1) : \A q \in F \ N(w - 1) : q = m \/ Nearer(p, m, q)
      <4>1. F \ N(w - 1) \in SUBSET Int /\ F \ N(w - 1) # {}
        BY <2>3
      <4> HIDE DEF N
      <4> QED BY <4>1, NearestExists
    <3>3. Below(m) \subseteq N(w - 1)
      <4> SUFFICES ASSUME NEW r \in Below(m), r \notin N(w - 1) PROVE FALSE
        OBVIOUS
      <4>1. r \in F /\ Nearer(p, r, m)
        BY DEF Below
      <4>2. r = m \/ Nearer(p, m, r)
        BY <3>2, <4>1
      <4> QED BY <3>2, <4>1, <4>2, NearerOrders
    <3>4. N(w - 1) \subseteq Below(m)
      <4> SUFFICES ASSUME NEW r \in N(w - 1) PROVE r \in Below(m)
        OBVIOUS
      <4>1. r \in F /\ m \in F /\ r # m
            /\ Cardinality(Below(r)) < w - 1 /\ ~(Cardinality(Below(m)) < w - 1)
        BY <3>2
      <4>2. ~Nearer(p, m, r)
        BY <1>3, <2>1, <4>1
      <4>3. Nearer(p, r, m)
        BY <4>1, <4>2, NearerOrders
      <4> QED BY <4>1, <4>3 DEF Below
    <3>5. Cardinality(Below(m)) = w - 1
      BY <3>1, <3>3, <3>4
    <3>6. N(w) = N(w - 1) \cup {m}
      <4>1. m \in N(w) /\ N(w - 1) \subseteq N(w)
        <5>1. w - 1 < w /\ \A c \in Nat : c < w - 1 => c < w
          OBVIOUS
        <5>2. m \in N(w)
          BY <3>2, <3>5, <5>1
        <5>3. ASSUME NEW q \in N(w - 1)
              PROVE  q \in N(w)
          <6>1. q \in F /\ Cardinality(Below(q)) < w - 1
            OBVIOUS
          <6> QED BY <2>1, <5>1, <6>1
        <5> QED BY <5>2, <5>3
      <4>2. ASSUME NEW q \in N(w), q \notin N(w - 1), q # m
            PROVE  FALSE
        <5>1. q \in F /\ m \in F /\ Nearer(p, m, q) /\ Cardinality(Below(q)) < w
          BY <3>2, <4>2
        <5>2. Cardinality(Below(m)) + 1 <= Cardinality(Below(q))
          BY <1>3, <5>1
        <5> QED BY <2>1, <3>5, <5>1, <5>2
      <4> QED BY <4>1, <4>2
    <3>7. Cardinality(N(w)) = w
      <4>1. m \notin N(w - 1)
        BY <3>2
      <4> HIDE DEF N
      <4>2. Cardinality(N(w)) = Cardinality(N(w - 1)) + 1
        BY <1>2, <3>6, <4>1, FS_AddElement
      <4> QED BY <3>1, <4>2
    <3> QED BY <3>7
  <2> QED BY <2>2, <2>3
<1>6. W \in T
  <2> HIDE DEF T
  <2>1. \A w \in 0..W : w \in T
    BY <1>4, <1>5, UpTo
  <2> QED BY <2>1
<1>7. ASSUME NEW q \in F, q \notin N(W)
      PROVE  Cardinality(N(W)) = W /\ \A r \in N(W) : Gap(p, r) <= Gap(p, q)
  <2>1. Cardinality(N(W)) = W
    BY <1>6, <1>7
  <2>2. ASSUME NEW r \in N(W)
        PROVE  Gap(p, r) <= Gap(p, q)
    <3>1. r \in F /\ Cardinality(Below(r)) < W /\ ~(Cardinality(Below(q)) < W)
      BY <1>7
    <3>2. ~Nearer(p, q, r)
      BY <1>1, <1>3, <3>1
    <3> QED BY <3>1, <3>2, NearerOrders
  <2> QED BY <2>1, <2>2
<1> QED BY <1>7 DEF Below
-----------------------------------------------------------------------------
(* The search.                                                             *)

LEMMA FiniteValues ==
  ASSUME NEW S, IsFiniteSet(S), NEW f
  PROVE  IsFiniteSet({f[x] : x \in S})
<1> DEFINE g == [x \in S |-> f[x]]
           T == {f[x] : x \in S}
<1>1. g \in Surjection(S, T)
  BY DEF Surjection
<1> QED BY <1>1, FS_Surjection

LEMMA CandidatesFinite ==
  ASSUME NEW map, Keyed(map), NEW p \in Int, Window \in Nat
  PROVE  Candidates(map, p) \subseteq Int /\ IsFiniteSet(Candidates(map, p))
<1> DEFINE keys == Visited(p) \cap DOMAIN map
           chosen == {j \in keys : Len(map[j]) >= Threshold}
           points == {ToSet(map[k]) : k \in chosen}
<1>1. IsFiniteSet(chosen)
  <2>1. KeyOf(p, VoxelSize) \in Int
    BY VoxelOf
  <2>2. IsFiniteSet(Visited(p))
    BY <2>1, FS_Interval DEF Visited
  <2>3. chosen \subseteq Visited(p)
    OBVIOUS
  <2> HIDE DEF chosen
  <2> QED BY <2>2, <2>3, FS_Subset
<1>2. \A k \in chosen : map[k] \in Seq(Int)
  BY DEF Keyed
<1>3. \A k \in chosen : ToSet(map[k]) \subseteq Int /\ IsFiniteSet(ToSet(map[k]))
  <2> TAKE k \in chosen
  <2> DEFINE block == map[k]
  <2>1. block \in Seq(Int)
    BY <1>2
  <2> HIDE DEF block
  <2>2. ToSet(block) = {block[i] : i \in 1..Len(block)} /\ ToSet(block) \subseteq Int
    BY <2>1, BlockPoints
  <2>3. IsFiniteSet(1..Len(block))
    BY <2>1, FS_Interval
  <2>4. IsFiniteSet({block[i] : i \in 1..Len(block)})
    BY <2>3, FiniteValues
  <2> QED BY <2>2, <2>4 DEF block
<1>4. IsFiniteSet(points)
  <2> DEFINE f == [k \in chosen |-> ToSet(map[k])]
  <2>1. points = {f[k] : k \in chosen}
    OBVIOUS
  <2> HIDE DEF chosen, points, f
  <2> QED BY <1>1, <2>1, FiniteValues
<1>5. IsFiniteSet(UNION points) /\ UNION points \subseteq Int
  <2>1. \A T \in points : T \subseteq Int /\ IsFiniteSet(T)
    BY <1>3
  <2> HIDE DEF points
  <2> QED BY <1>4, <2>1, FS_UNION
<1>6. Candidates(map, p) \subseteq UNION points
  BY DEF Candidates, Dense
<1> QED BY <1>5, <1>6, FS_Subset

\* Whatever place the search is for, not only one of a scan.
LEMMA SearchIsComplete ==
  ASSUME NEW map, Keyed(map), NEW p \in Int, Window \in Nat,
         NEW q \in Dense(map, DOMAIN map),
         Gap(p, q) <= MaxNear, Gap(p, q) <= Window * VoxelSize
  PROVE  LET found == Neighbours(map, p)
         IN \/ q \in found
            \/ Cardinality(found) = Wanted /\ \A r \in found : Gap(p, r) <= Gap(p, q)
<1>1. PICK k \in DOMAIN map : Len(map[k]) >= Threshold /\ q \in ToSet(map[k])
  BY DEF Dense
<1>2. q \in Int /\ KeyOf(q, VoxelSize) = k
  <2>1. map[k] \in Seq(Int)
    BY DEF Keyed
  <2> QED BY <1>1, <2>1, BlockPoints DEF Keyed
<1>3. k \in Visited(p)
  BY <1>2, ReachedVoxels DEF Visited
<1>4. q \in Candidates(map, p)
  BY <1>1, <1>3 DEF Candidates, Dense
<1>5. Candidates(map, p) \in SUBSET Int /\ IsFiniteSet(Candidates(map, p))
  BY CandidatesFinite
<1>6. Wanted \in Nat
  BY UpkeepAssumption
<1> DEFINE F == Candidates(map, p)
           N == {x \in F : Cardinality({r \in F : Nearer(p, r, x)}) < Wanted}
<1>7. F \in SUBSET Int /\ IsFiniteSet(F)
  BY <1>5
<1>8. N = Neighbours(map, p) /\ q \in F
  BY <1>4 DEF Neighbours
<1> HIDE DEF F
<1>9. \/ q \in N
      \/ Cardinality(N) = Wanted /\ \A r \in N : Gap(p, r) <= Gap(p, q)
  BY <1>6, <1>7, <1>8, NearestMany
<1> HIDE DEF N
<1> QED BY <1>8, <1>9


-----------------------------------------------------------------------------
(* The dictionary that the table stands for speaks of the same things.     *)
LEMMA SamePlaces ==
  /\ \A p, q : Dictionary!Gap(p, q) = Gap(p, q)
  /\ \A p, size : Dictionary!KeyOf(p, size) = KeyOf(p, size)
  /\ \A s : Dictionary!ToSet(s) = ToSet(s)
  /\ \A scan, at : Dictionary!Seen(scan, at) = Seen(scan, at)
  /\ \A S : Dictionary!Cardinality(S) = Cardinality(S)
<1>1. \A p, q : Dictionary!Gap(p, q) = Gap(p, q)
  BY DEF Dictionary!Gap, Gap
<1>2. \A p, size : Dictionary!KeyOf(p, size) = KeyOf(p, size)
  BY DEF Dictionary!KeyOf, KeyOf
<1>3. \A s : Dictionary!ToSet(s) = ToSet(s)
  BY DEF Dictionary!ToSet, ToSet, Dictionary!Range, Range
<1>4. \A scan, at : Dictionary!Seen(scan, at) = Seen(scan, at)
  BY DEF Dictionary!Seen, Seen
<1>5. \A S : Dictionary!Cardinality(S) = Cardinality(S)
  BY DEF Dictionary!Cardinality, Cardinality
<1> QED BY <1>1, <1>2, <1>3, <1>4, <1>5

LEMMA SameUpkeep ==
  /\ \A map, points : Dictionary!Added(map, points) = Added(map, points)
  /\ \A map, at : Dictionary!Surroundings(map, at) = Surroundings(map, at)
  /\ \A points : Dictionary!FirstPoints(points) = FirstPoints(points)
  /\ \A map, p : Dictionary!Kept(map, p) <=> Kept(map, p)
  /\ \A at : Dictionary!ShouldUpdate(at) <=> ShouldUpdate(at)
  /\ Dictionary!StrideHit <=> StrideHit
<1>1. \A block, p : Dictionary!Upserted(block, p) = Upserted(block, p)
  BY SamePlaces DEF Dictionary!Upserted, Upserted
<1>2. \A map, p : Dictionary!With(map, p) = With(map, p)
  BY <1>1, SamePlaces DEF Dictionary!With, With
<1>3. \A map, points : Dictionary!Added(map, points) = Added(map, points)
  BY <1>2 DEF Dictionary!Added, Added
<1>4. \A map, at : Dictionary!Surroundings(map, at) = Surroundings(map, at)
  BY SamePlaces DEF Dictionary!Surroundings, Surroundings, Dictionary!Restrict, Restrict,
                    Dictionary!TooFar, TooFar
<1>5. \A points : Dictionary!FirstPoints(points) = FirstPoints(points)
  BY SamePlaces DEF Dictionary!FirstPoints, FirstPoints
<1>6. \A map, p : Dictionary!Kept(map, p) <=> Kept(map, p)
  BY SamePlaces DEF Dictionary!Kept, Kept
<1>7. \A at : Dictionary!ShouldUpdate(at) <=> ShouldUpdate(at)
  BY SamePlaces DEF Dictionary!ShouldUpdate, ShouldUpdate, Dictionary!MovedEnough,
     MovedEnough, Dictionary!SkippedTooLong, SkippedTooLong
<1>8. Dictionary!StrideHit <=> StrideHit
  BY DEF Dictionary!StrideHit, StrideHit
<1> QED BY <1>3, <1>4, <1>5, <1>6, <1>7, <1>8

LEMMA SameSearch ==
  /\ Dictionary!Window = Window
  /\ \A map, keys : Dictionary!Dense(map, keys) = Dense(map, keys)
  /\ \A map, p : Dictionary!Neighbours(map, p) = Neighbours(map, p)
  /\ \A map, p : Dictionary!Supported(map, p) <=> Supported(map, p)
<1>1. Dictionary!Window = Window /\ Dictionary!Threshold = Threshold
  BY DEF Dictionary!Window, Window, Dictionary!Threshold, Threshold
<1>2. \A p : Dictionary!Visited(p) = Visited(p)
  BY <1>1, SamePlaces DEF Dictionary!Visited, Visited
<1>3. \A map, keys : Dictionary!Dense(map, keys) = Dense(map, keys)
  BY <1>1, SamePlaces DEF Dictionary!Dense, Dense
<1>4. \A map, p : Dictionary!Candidates(map, p) = Candidates(map, p)
  BY <1>2, <1>3, SamePlaces DEF Dictionary!Candidates, Candidates
<1>5. \A p, q, r : Dictionary!Nearer(p, q, r) <=> Nearer(p, q, r)
  BY SamePlaces DEF Dictionary!Nearer, Nearer
<1>6. \A map, p : Dictionary!Neighbours(map, p) = Neighbours(map, p)
  BY <1>4, <1>5, SamePlaces DEF Dictionary!Neighbours, Neighbours
<1>7. \A map, p : Dictionary!Supported(map, p) <=> Supported(map, p)
  BY <1>6, SamePlaces DEF Dictionary!Supported, Supported
<1> QED BY <1>1, <1>3, <1>6, <1>7

-----------------------------------------------------------------------------
(* The table of voxels is the dictionary it holds.                         *)

\* What the table of the map holds at a key; the one for sampling holds a point.
Blocks == Seq(Int)

\* What a look-up finds is all that the table holds.
LEMMA FoundIs ==
  ASSUME NEW V, NEW t, Sound(t, V)
  PROVE  /\ Found(t) = MapOf(t) /\ DOMAIN MapOf(t) = KeysIn(t) /\ KeysIn(t) \subseteq Keys
         /\ t.size = 0 <=> KeysIn(t) = {}
<1>1. Linked(t, V) /\ t.size = Cardinality(Filled(t))
  BY DEF Sound, Counted
<1>2. KeysIn(t) \subseteq Keys
  BY <1>1, StoresMapOf
<1>3. {j \in KeysIn(t) : Holds(t, j)} = KeysIn(t)
  BY <1>2, LooksUp
<1>4. Found(t) = MapOf(t)
  BY <1>3 DEF Found, MapOf, KeysIn
<1>5. t.size = 0 <=> KeysIn(t) = {}
  BY <1>1, FilledCount, FS_EmptySet
<1>6. DOMAIN MapOf(t) = KeysIn(t)
  BY DEF MapOf
<1> QED BY <1>2, <1>4, <1>5, <1>6

\* addPointToMap
LEMMA WithPointAdds ==
  ASSUME NEW t, Sound(t, Blocks), NEW p \in Int, KeyOf(p, VoxelSize) \in Keys
  PROVE  LET u == WithPoint(t, p)
         IN Sound(u, Blocks) /\ MapOf(u) = With(MapOf(t), p)
<1> DEFINE k == KeyOf(p, VoxelSize)
           held == IF Holds(t, k) THEN ValueOf(t, k) ELSE <<>>
           old == IF k \in DOMAIN MapOf(t) THEN MapOf(t)[k] ELSE <<>>
           block == Upserted(old, p)
<1>1. DOMAIN MapOf(t) = KeysIn(t)
  BY DEF MapOf
<1>2. held = old /\ old \in Blocks
  <2>1. Holds(t, k) <=> k \in KeysIn(t)
    BY LooksUp
  <2>2. k \in KeysIn(t) => ValueOf(t, k) = MapOf(t)[k] /\ ValueOf(t, k) \in Blocks
    BY LooksUp
  <2>3. <<>> \in Blocks
    BY DEF Blocks
  <2> QED BY <1>1, <2>1, <2>2, <2>3
<1>3. block \in Blocks
  <2> HIDE DEF old
  <2> QED BY <1>2 DEF Upserted, Blocks
<1>4. WithPoint(t, p) = Assigned(t, k, block)
  <2>1. WithPoint(t, p) = Assigned(t, k, Upserted(held, p))
    BY DEF WithPoint
  <2> QED BY <1>2, <2>1
<1>5. With(MapOf(t), p) = Updated(MapOf(t), k, block)
  BY DEF With, Updated
<1> HIDE DEF block, k
<1>6. LET u == Assigned(t, k, block)
      IN Sound(u, Blocks) /\ MapOf(u) = Updated(MapOf(t), k, block)
  <2>1. k \in Keys
    BY DEF k
  <2> QED BY <1>3, <2>1, AssignedUpdates
<1> QED BY <1>4, <1>5, <1>6

LEMMA InKeys ==
  ASSUME NEW points \in Seq(Int), InRange(points), NEW i \in 1..Len(points)
  PROVE  /\ points[i] \in Int
         /\ KeyOf(points[i], VoxelSize) \in Keys /\ KeyOf(points[i], SampleSize) \in Keys
<1>1. points[i] \in ToSet(points) /\ points[i] \in Int
  BY BlockPoints
<1> QED BY <1>1 DEF InRange

LEMMA SoundTables ==
  ASSUME NEW V, NEW t, Sound(t, V)
  PROVE  t \in TablesOf(V)
  BY ShapeIsMembership DEF Sound, Linked

\* map_incremental
LEMMA ExtendedAdds ==
  ASSUME Sound(table, Blocks), NEW points \in Seq(Int), InRange(points)
  PROVE  LET u == Extended(points)
         IN Sound(u, Blocks) /\ MapOf(u) = Added(MapOf(table), points)
<1> DEFINE N == Len(points)
           f == CHOOSE g : Afters(g, MapOf(table), points, N)
           c == CHOOSE g : g = [n \in 0..N |->
                  IF n = 0 THEN table ELSE WithPoint(g[n-1], points[n])]
           Good(t, n) == Sound(t, Blocks) /\ MapOf(t) = f[n]
           S == [n \in 0..N |-> {t \in TablesOf(Blocks) : Good(t, n)}]
           F == [n \in 1..N |-> [t \in S[n-1] |-> WithPoint(t, points[n])]]
<1>1. N \in Nat /\ Extended(points) = c[N] /\ Added(MapOf(table), points) = f[N]
  BY DEF Extended, Added, Afters
<1>2. Afters(f, MapOf(table), points, N)
  <2>1. \E g : Afters(g, MapOf(table), points, N)
    BY <1>1, AftersExist
  <2> QED BY <2>1
<1> HIDE DEF f
<1>3. \A n \in 0..N : f[n] = IF n = 0 THEN MapOf(table) ELSE With(f[n-1], points[n])
  BY <1>1, <1>2, AftersStep
<1>4. table \in S[0]
  <2>1. Good(table, 0) /\ table \in TablesOf(Blocks)
    BY <1>1, <1>3, SoundTables
  <2> HIDE DEF Good
  <2> QED BY <1>1, <2>1
<1>5. ASSUME NEW n \in 1..N, NEW t \in S[n-1]
      PROVE  WithPoint(t, points[n]) \in S[n]
  <2> DEFINE u == WithPoint(t, points[n])
  <2>1. n - 1 \in 0..N /\ n \in 0..N /\ n # 0
    BY <1>1
  <2>2. Good(t, n - 1)
    <3> HIDE DEF Good
    <3> QED BY <1>5, <2>1
  <2>3. points[n] \in Int /\ KeyOf(points[n], VoxelSize) \in Keys
    BY InKeys
  <2>4. Sound(u, Blocks) /\ MapOf(u) = With(MapOf(t), points[n])
    BY <2>2, <2>3, WithPointAdds
  <2>5. Good(u, n) /\ u \in TablesOf(Blocks)
    BY <1>3, <2>1, <2>2, <2>4, SoundTables
  <2> HIDE DEF Good, u
  <2> QED BY <2>1, <2>5 DEF u
<1> HIDE DEF S
<1>6. c = [n \in 0..N |-> IF n = 0 THEN table ELSE WithPoint(c[n-1], points[n])]
  <2>1. \A n \in 1..N : \A t \in S[n-1] : F[n][t] = WithPoint(t, points[n])
    OBVIOUS
  <2>2. \A n \in 1..N : \A t \in S[n-1] : F[n][t] \in S[n]
    BY <1>5, <2>1
  <2> HIDE DEF F, N
  <2>3. PICK g : Iterated(g, N, table, F) /\ \A n \in 0..N : g[n] \in S[n]
    BY <1>1, <1>4, <2>2, Iterates
  <2>4. ASSUME NEW n \in 0..N
        PROVE  (IF n = 0 THEN table ELSE F[n][g[n-1]])
                 = (IF n = 0 THEN table ELSE WithPoint(g[n-1], points[n]))
    <3>1. n # 0 => n \in 1..N /\ n - 1 \in 0..N
      BY <1>1
    <3> QED BY <2>1, <2>3, <3>1
  <2>5. g = [n \in 0..N |-> IF n = 0 THEN table ELSE WithPoint(g[n-1], points[n])]
    BY <2>3, <2>4 DEF Iterated
  <2> QED BY <2>5
<1> HIDE DEF c, N
<1>7. \A n \in 0..N : c[n] = IF n = 0 THEN table ELSE WithPoint(c[n-1], points[n])
  BY <1>6
<1>8. c[N] \in S[N]
  <2> DEFINE T == {n \in 0..N : c[n] \in S[n]}
  <2>1. 0 \in T
    BY <1>1, <1>4, <1>7
  <2>2. ASSUME NEW n \in 1..N, n - 1 \in T
        PROVE  n \in T
    BY <1>5, <1>7, <2>2
  <2> HIDE DEF T
  <2>3. N \in T
    <3>1. \A n \in 0..N : n \in T
      BY <1>1, <2>1, <2>2, UpTo
    <3> QED BY <1>1, <3>1
  <2> QED BY <2>3 DEF T
<1>9. Good(c[N], N)
  <2> HIDE DEF Good
  <2> QED BY <1>1, <1>8 DEF S
<1> QED BY <1>1, <1>9

\* lasermap_fov_segment
LEMMA SegmentedLeaves ==
  ASSUME NEW t, Sound(t, Blocks), NEW at
  PROVE  LET u == Segmented(t, at)
         IN Sound(u, Blocks) /\ MapOf(u) = Surroundings(MapOf(t), at)
<1> DEFINE W == Width(t)
           m == MapOf(t)
           Gone(n) == {k \in KeysIn(t) : \E i \in Filled(t) :
                         i < n /\ t.cells[i].key = k /\ TooFar(Head(t.cells[i].value), at)}
           part(n) == [k \in KeysIn(t) \ Gone(n) |-> m[k]]
           Good(u, n) == Sound(u, Blocks) /\ MapOf(u) = part(n)
           S == [n \in 0..W |-> {u \in TablesOf(Blocks) : Good(u, n)}]
           F == [n \in 1..W |-> [u \in S[n-1] |-> WithoutFar(u, t.cells[n-1], at)]]
           c == CHOOSE g : g = [n \in 0..W |->
                  IF n = 0 THEN t ELSE WithoutFar(g[n-1], t.cells[n-1], at)]
<1>1. /\ Linked(t, Blocks) /\ t.count \in Nat /\ W \in Nat \ {0}
      /\ Filled(t) \subseteq 0..(W - 1) /\ Buckets(t) = 0..(W - 1)
  BY Widths, Cells DEF Sound, Linked, Shape, Buckets
<1>2. /\ \A i \in Filled(t) : t.cells[i].key \in KeysIn(t) /\ m[t.cells[i].key] = t.cells[i].value
      /\ DOMAIN m = KeysIn(t) /\ m = [k \in KeysIn(t) |-> m[k]] /\ KeysIn(t) \subseteq Keys
  <2>1. Stores(t, Vacant, MapOf(t)) /\ KeysIn(t) \subseteq Keys
    BY <1>1, StoresMapOf
  <2> QED BY <2>1 DEF Stores, MapOf, KeysIn
<1> HIDE DEF m
<1>3. t \in S[0]
  <2>1. Gone(0) = {}
    BY <1>1
  <2>2. part(0) = m
    BY <1>2, <2>1
  <2>3. Good(t, 0) /\ t \in TablesOf(Blocks)
    BY <2>2, SoundTables DEF m
  <2> HIDE DEF Good, W
  <2> QED BY <1>1, <2>3
<1>4. ASSUME NEW n \in 1..W, NEW u \in S[n-1]
      PROVE  WithoutFar(u, t.cells[n-1], at) \in S[n]
  <2> DEFINE cell == t.cells[n-1]
             new == WithoutFar(u, cell, at)
             far == cell # Vacant /\ TooFar(Head(cell.value), at)
  <2>1. Good(u, n - 1)
    <3>1. n - 1 \in 0..W
      BY <1>1
    <3> HIDE DEF Good, W
    <3> QED BY <3>1, <1>4
  <2>2. n - 1 \in Buckets(t) /\ n - 1 \in Int /\ n - 1 < n
    BY <1>1
  <2>3. n - 1 \in Filled(t) <=> cell # Vacant
    BY <1>1, <2>2, Cells DEF Linked, Filled
  <2>4. \A i \in Filled(t) : i < n <=> i < n - 1 \/ i = n - 1
    BY <1>1
  <2>5. ASSUME ~far PROVE Good(new, n)
    <3>1. new = u
      BY <2>5 DEF WithoutFar
    <3>2. Gone(n) = Gone(n - 1)
      BY <2>3, <2>4, <2>5
    <3>3. Good(new, n)
      BY <2>1, <3>1, <3>2
    <3> QED BY <3>3
  <2>6. ASSUME far PROVE Good(new, n)
    <3>1. n - 1 \in Filled(t) /\ cell.key \in KeysIn(t) /\ cell.key \in Keys
      BY <1>2, <2>3, <2>6
    <3>2. Gone(n) = Gone(n - 1) \cup {cell.key}
      BY <2>2, <2>4, <2>6, <3>1
    <3>3. new = Erased(u, cell.key)
      BY <2>6 DEF WithoutFar
    <3>4. Sound(new, Blocks) /\ MapOf(new) = Without(MapOf(u), cell.key)
      <4> HIDE DEF cell, new
      <4> QED BY <2>1, <3>1, <3>3, ErasedRemoves
    <3>5. Without(part(n - 1), cell.key) = part(n)
      <4>1. (KeysIn(t) \ Gone(n - 1)) \ {cell.key} = KeysIn(t) \ Gone(n)
        BY <3>2
      <4> HIDE DEF Gone, cell
      <4> QED BY <4>1 DEF Without
    <3>6. Good(new, n)
      BY <2>1, <3>4, <3>5
    <3> QED BY <3>6
  <2>7. Good(new, n) /\ new \in TablesOf(Blocks)
    <3>1. Good(new, n)
      <4> HIDE DEF Good, new
      <4> QED BY <2>5, <2>6
    <3> QED BY <3>1, SoundTables
  <2> HIDE DEF Good, W, new
  <2> QED BY <2>7 DEF new
<1> HIDE DEF S
<1>5. c = [n \in 0..W |-> IF n = 0 THEN t ELSE WithoutFar(c[n-1], t.cells[n-1], at)]
  <2>1. \A n \in 1..W : \A u \in S[n-1] : F[n][u] = WithoutFar(u, t.cells[n-1], at)
    OBVIOUS
  <2>2. \A n \in 1..W : \A u \in S[n-1] : F[n][u] \in S[n]
    BY <1>4, <2>1
  <2> HIDE DEF F, W
  <2>3. PICK g : Iterated(g, W, t, F) /\ \A n \in 0..W : g[n] \in S[n]
    <3>1. W \in Nat
      BY <1>1
    <3> QED BY <1>3, <2>2, <3>1, Iterates
  <2>4. ASSUME NEW n \in 0..W
        PROVE  (IF n = 0 THEN t ELSE F[n][g[n-1]])
                 = (IF n = 0 THEN t ELSE WithoutFar(g[n-1], t.cells[n-1], at))
    <3>1. n # 0 => n \in 1..W /\ n - 1 \in 0..W
      BY <1>1
    <3> QED BY <2>1, <2>3, <3>1
  <2>5. g = [n \in 0..W |-> IF n = 0 THEN t ELSE WithoutFar(g[n-1], t.cells[n-1], at)]
    BY <2>3, <2>4 DEF Iterated
  <2> QED BY <2>5
<1>6. Segmented(t, at) = c[W]
  BY DEF Segmented
<1> HIDE DEF c, W
<1>7. \A n \in 0..W : c[n] = IF n = 0 THEN t ELSE WithoutFar(c[n-1], t.cells[n-1], at)
  BY <1>5
<1>8. c[W] \in S[W]
  <2> DEFINE T == {n \in 0..W : c[n] \in S[n]}
  <2>1. 0 \in T
    BY <1>1, <1>3, <1>7
  <2>2. ASSUME NEW n \in 1..W, n - 1 \in T
        PROVE  n \in T
    BY <1>4, <1>7, <2>2
  <2> HIDE DEF T
  <2>3. W \in T
    <3>1. \A n \in 0..W : n \in T
      BY <1>1, <2>1, <2>2, UpTo
    <3> QED BY <1>1, <3>1
  <2> QED BY <2>3 DEF T
<1>9. Good(c[W], W)
  <2> HIDE DEF Good
  <2> QED BY <1>1, <1>8 DEF S
<1>10. part(W) = Surroundings(m, at)
  <2>1. Gone(W) = {k \in KeysIn(t) : TooFar(Head(m[k]), at)}
    <3>1. \A k \in KeysIn(t) : \E i \in Filled(t) : t.cells[i].key = k
      BY DEF KeysIn
    <3>2. \A i \in Filled(t) : i < W
      BY <1>1
    <3> QED BY <1>2, <3>1, <3>2
  <2>2. KeysIn(t) \ Gone(W) = {k \in DOMAIN m : ~TooFar(Head(m[k]), at)}
    BY <1>2, <2>1
  <2> HIDE DEF Gone
  <2> QED BY <1>2, <2>2 DEF Surroundings, Restrict
<1> QED BY <1>6, <1>9, <1>10 DEF m

\* The first point of every key among the first n.
FirstOf(points, n) ==
  {points[i] : i \in {j \in 1..n : \A l \in 1..(j-1) :
     KeyOf(points[l], SampleSize) # KeyOf(points[j], SampleSize)}}

SampleKeys(points, n) == {KeyOf(points[j], SampleSize) : j \in 1..n}

LEMMA FirstOfNext ==
  ASSUME NEW points, NEW n \in Nat \ {0}
  PROVE  LET k == KeyOf(points[n], SampleSize)
         IN /\ SampleKeys(points, n) = SampleKeys(points, n - 1) \cup {k}
            /\ FirstOf(points, n) =
                 IF k \in SampleKeys(points, n - 1) THEN FirstOf(points, n - 1)
                 ELSE FirstOf(points, n - 1) \cup {points[n]}
<1> DEFINE key(j) == KeyOf(points[j], SampleSize)
           new(j) == \A l \in 1..(j-1) : key(l) # key(j)
           first(m) == {j \in 1..m : new(j)}
<1>1. 1..n = 1..(n - 1) \cup {n}
  OBVIOUS
<1>2. SampleKeys(points, n) = SampleKeys(points, n - 1) \cup {key(n)}
  BY <1>1 DEF SampleKeys
<1>3. new(n) <=> key(n) \notin SampleKeys(points, n - 1)
  BY DEF SampleKeys
<1>4. first(n) = IF new(n) THEN first(n - 1) \cup {n} ELSE first(n - 1)
  <2> HIDE DEF new
  <2> QED BY <1>1
<1>5. \A m : FirstOf(points, m) = {points[j] : j \in first(m)}
  BY DEF FirstOf
<1> HIDE DEF first, new
<1> QED BY <1>2, <1>3, <1>4, <1>5

\* One more point of the frame, kept if it is the first of its key.
LEMMA WithSampleAdds ==
  ASSUME NEW t, Sound(t, Int), NEW points \in Seq(Int), NEW n \in 1..Len(points),
         KeyOf(points[n], SampleSize) \in Keys,
         KeysIn(t) = SampleKeys(points, n - 1),
         {MapOf(t)[k] : k \in KeysIn(t)} = FirstOf(points, n - 1)
  PROVE  LET u == WithSample(t, points[n])
         IN /\ Sound(u, Int) /\ KeysIn(u) = SampleKeys(points, n)
            /\ {MapOf(u)[k] : k \in KeysIn(u)} = FirstOf(points, n)
<1> DEFINE k == KeyOf(points[n], SampleSize)
           u == WithSample(t, points[n])
<1>1. points[n] \in Int /\ n \in Nat \ {0}
  OBVIOUS
<1>2. /\ SampleKeys(points, n) = SampleKeys(points, n - 1) \cup {k}
      /\ FirstOf(points, n) = IF k \in SampleKeys(points, n - 1) THEN FirstOf(points, n - 1)
                              ELSE FirstOf(points, n - 1) \cup {points[n]}
  BY <1>1, FirstOfNext
<1>3. Holds(t, k) <=> k \in KeysIn(t)
  BY LooksUp
<1>4. CASE k \in KeysIn(t)
  <2>1. u = t
    BY <1>3, <1>4 DEF WithSample
  <2>2. KeysIn(t) = SampleKeys(points, n) /\ FirstOf(points, n) = FirstOf(points, n - 1)
    BY <1>2, <1>4
  <2> HIDE DEF u
  <2> QED BY <2>1, <2>2 DEF u
<1>5. CASE k \notin KeysIn(t)
  <2>1. u = Assigned(t, k, points[n])
    BY <1>3, <1>5 DEF WithSample
  <2> HIDE DEF u
  <2>2. Sound(u, Int) /\ MapOf(u) = Updated(MapOf(t), k, points[n])
    BY <1>1, <2>1, AssignedUpdates
  <2>3. DOMAIN MapOf(t) = KeysIn(t) /\ DOMAIN MapOf(u) = KeysIn(u)
    BY DEF MapOf
  <2> DEFINE m == MapOf(t)
             w == MapOf(u)
  <2>4. DOMAIN m = KeysIn(t) /\ DOMAIN w = KeysIn(u) /\ w = Updated(m, k, points[n])
    BY <2>2, <2>3
  <2> HIDE DEF m, w
  <2>5. /\ KeysIn(u) = KeysIn(t) \cup {k} /\ w[k] = points[n]
        /\ \A j \in KeysIn(t) : w[j] = m[j]
    BY <1>5, <2>4 DEF Updated
  <2>6. KeysIn(u) = SampleKeys(points, n)
    BY <1>2, <2>5
  <2>7. {w[j] : j \in KeysIn(u)} = {m[j] : j \in KeysIn(t)} \cup {points[n]}
    BY <2>5
  <2>8. {w[j] : j \in KeysIn(u)} = FirstOf(points, n)
    BY <1>2, <1>5, <2>7 DEF m
  <2> QED BY <2>2, <2>6, <2>8 DEF w, u
<1> HIDE DEF u
<1> QED BY <1>4, <1>5 DEF u

\* grid_sampling
LEMMA SampledFirst ==
  ASSUME NEW points \in Seq(Int), InRange(points)
  PROVE  Sampled(points) = FirstPoints(points)
<1> DEFINE N == Len(points)
           room == N \div 4
           start == Reserved(IF room = 0 THEN 1 ELSE room)
           Values(t) == {MapOf(t)[k] : k \in KeysIn(t)}
           Good(t, n) == /\ Sound(t, Int) /\ KeysIn(t) = SampleKeys(points, n)
                         /\ Values(t) = FirstOf(points, n)
           S == [n \in 0..N |-> {t \in TablesOf(Int) : Good(t, n)}]
           F == [n \in 1..N |-> [t \in S[n-1] |-> WithSample(t, points[n])]]
           c == CHOOSE g : g = [n \in 0..N |->
                  IF n = 0 THEN start ELSE WithSample(g[n-1], points[n])]
<1>1. N \in Nat /\ (IF room = 0 THEN 1 ELSE room) \in Nat
  OBVIOUS
<1>2. start \in S[0]
  <2>1. Sound(start, Int) /\ KeysIn(start) = {}
    <3> HIDE DEF room
    <3> QED BY <1>1, ReservedSound
  <2> HIDE DEF start
  <2>2. Good(start, 0) /\ start \in TablesOf(Int)
    <3>1. SampleKeys(points, 0) = {} /\ FirstOf(points, 0) = {} /\ Values(start) = {}
      BY <2>1 DEF SampleKeys, FirstOf
    <3> QED BY <2>1, <3>1, SoundTables
  <2> HIDE DEF Good, N
  <2> QED BY <1>1, <2>2
<1>3. ASSUME NEW n \in 1..N, NEW t \in S[n-1]
      PROVE  WithSample(t, points[n]) \in S[n]
  <2> DEFINE u == WithSample(t, points[n])
  <2>1. n - 1 \in 0..N /\ n \in 0..N /\ n # 0
    BY <1>1
  <2>2. Good(t, n - 1)
    <3> HIDE DEF Good
    <3> QED BY <1>3, <2>1
  <2>3. KeyOf(points[n], SampleSize) \in Keys
    BY InKeys
  <2>4. /\ Sound(u, Int) /\ KeysIn(u) = SampleKeys(points, n)
        /\ Values(u) = FirstOf(points, n)
    <3> HIDE DEF start, F, c
    <3> QED BY <2>2, <2>3, WithSampleAdds
  <2>5. Good(u, n) /\ u \in TablesOf(Int)
    BY <2>4, SoundTables
  <2> HIDE DEF Good, u
  <2> QED BY <2>1, <2>5 DEF u
<1>4. Sampled(points) = {c[N].cells[i].value : i \in Filled(c[N])}
  BY DEF Sampled
<1> HIDE DEF S, start
<1>5. c = [n \in 0..N |-> IF n = 0 THEN start ELSE WithSample(c[n-1], points[n])]
  <2>1. \A n \in 1..N : \A t \in S[n-1] : F[n][t] = WithSample(t, points[n])
    OBVIOUS
  <2>2. \A n \in 1..N : \A t \in S[n-1] : F[n][t] \in S[n]
    BY <1>3, <2>1
  <2> HIDE DEF F, N
  <2>3. PICK g : Iterated(g, N, start, F) /\ \A n \in 0..N : g[n] \in S[n]
    BY <1>1, <1>2, <2>2, Iterates
  <2>4. ASSUME NEW n \in 0..N
        PROVE  (IF n = 0 THEN start ELSE F[n][g[n-1]])
                 = (IF n = 0 THEN start ELSE WithSample(g[n-1], points[n]))
    <3>1. n # 0 => n \in 1..N /\ n - 1 \in 0..N
      BY <1>1
    <3> QED BY <2>1, <2>3, <3>1
  <2>5. g = [n \in 0..N |-> IF n = 0 THEN start ELSE WithSample(g[n-1], points[n])]
    BY <2>3, <2>4 DEF Iterated
  <2> QED BY <2>5
<1> HIDE DEF c, N
<1>6. \A n \in 0..N : c[n] = IF n = 0 THEN start ELSE WithSample(c[n-1], points[n])
  BY <1>5
<1>7. c[N] \in S[N]
  <2> DEFINE T == {n \in 0..N : c[n] \in S[n]}
  <2>1. 0 \in T
    BY <1>1, <1>2, <1>6
  <2>2. ASSUME NEW n \in 1..N, n - 1 \in T
        PROVE  n \in T
    BY <1>3, <1>6, <2>2
  <2> HIDE DEF T
  <2>3. N \in T
    <3>1. \A n \in 0..N : n \in T
      BY <1>1, <2>1, <2>2, UpTo
    <3> QED BY <1>1, <3>1
  <2> QED BY <2>3 DEF T
<1>8. Good(c[N], N)
  <2> HIDE DEF Good
  <2> QED BY <1>1, <1>7 DEF S
<1>9. FirstOf(points, N) = FirstPoints(points)
  <2>1. DOMAIN points = 1..N
    BY DEF N
  <2> QED BY <2>1 DEF FirstOf, FirstPoints
<1> DEFINE u == c[N]
<1>10. /\ Linked(u, Int) /\ Values(u) = FirstPoints(points)
  BY <1>8, <1>9 DEF Sound
<1>11. Sampled(points) = {u.cells[i].value : i \in Filled(u)}
  BY <1>4
<1> HIDE DEF u
<1>12. {u.cells[i].value : i \in Filled(u)} = Values(u)
  <2>1. \A i \in Filled(u) :
          u.cells[i].key \in KeysIn(u) /\ MapOf(u)[u.cells[i].key] = u.cells[i].value
    <3>1. Stores(u, Vacant, MapOf(u)) /\ DOMAIN MapOf(u) = KeysIn(u)
      BY <1>10, StoresMapOf DEF MapOf
    <3> QED BY <3>1 DEF Stores
  <2>2. \A k \in KeysIn(u) : \E i \in Filled(u) : u.cells[i].key = k
    BY DEF KeysIn
  <2> QED BY <2>1, <2>2
<1> QED BY <1>10, <1>11, <1>12

-----------------------------------------------------------------------------
(* The behaviours.                                                         *)
Keeping ==
  \A p \in seen : Gap(p, upkeep[1].at) + 2 * VoxelSize <= MaxDistance => Kept(Found(table), p)

\* The buckets are sound, and what they hold is a map as VoxelBlocks keeps it.
MapInv ==
  /\ Sound(table, Blocks) /\ Keyed(Found(table))
  /\ robot \in Int /\ frame \in Nat \ {0} /\ seen \subseteq Int
  /\ seen # {} => upkeep[1].at \in Int
  /\ Keeping

LEMMA EmptyTable ==
  ASSUME table = NewTable(0)
  PROVE  Sound(table, Blocks) /\ Found(table) = <<>> /\ DOMAIN Found(table) = {}
<1>1. Sound(table, Blocks) /\ KeysIn(table) = {}
  BY NewTableEmpty
<1>2. DOMAIN Found(table) = {}
  BY <1>1, FoundIs
<1>3. Found(table) = [k \in DOMAIN Found(table) |-> Found(table)[k]]
  BY DEF Found
<1>4. Found(table) = <<>>
  BY <1>2, <1>3
<1> QED BY <1>1, <1>2, <1>4

LEMMA MapInvInit == MapInit => MapInv /\ Dictionary!BlocksInit
<1> SUFFICES ASSUME MapInit PROVE MapInv /\ Dictionary!BlocksInit
  OBVIOUS
<1>1. table = NewTable(0) /\ robot = 0 /\ frame = 1 /\ upkeep = <<>> /\ seen = {}
  BY DEF MapInit, UpkeepInit
<1>2. Sound(table, Blocks) /\ Found(table) = <<>> /\ DOMAIN Found(table) = {}
  BY <1>1, EmptyTable
<1>3. Found(table) = [k \in DOMAIN Found(table) |-> Found(table)[k]]
  BY DEF Found
<1>4. Keyed(Found(table))
  <2> DEFINE map == Found(table)
  <2>1. DOMAIN map = {} /\ map = [k \in DOMAIN map |-> map[k]]
    BY <1>2, <1>3
  <2> HIDE DEF map
  <2>2. Keyed(map)
    BY <2>1 DEF Keyed
  <2> QED BY <2>2 DEF map
<1>5. MapInv
  BY <1>1, <1>2, <1>4 DEF MapInv, Keeping
<1>6. Dictionary!BlocksInit
  BY <1>1, <1>2 DEF Dictionary!BlocksInit, Dictionary!UpkeepInit
<1> QED BY <1>5, <1>6

LEMMA SeenPoints ==
  ASSUME NEW scan \in Scans, NEW at \in Int
  PROVE  Seen(scan, at) \in Seq(Int)
<1>1. scan \in Seq(Int)
  BY UpkeepAssumption
<1>2. Len(scan) \in Nat /\ DOMAIN scan = 1..Len(scan) /\ \A i \in 1..Len(scan) : scan[i] \in Int
  BY <1>1
<1>3. Seen(scan, at) \in [1..Len(scan) -> Int]
  BY <1>2 DEF Seen
<1> QED BY <1>2, <1>3

\* The table accepts what the dictionary would.
LEMMA AcceptedAlike ==
  ASSUME MapInv, NEW points \in Seq(Int), InRange(points), NEW verdict
  PROVE  Accepted(points, verdict) <=> Dictionary!Accepted(points, verdict)
<1> DEFINE map == Found(table)
           support == Cardinality({p \in FirstPoints(points) : Supported(map, p)})
<1>1. table.size = 0 <=> DOMAIN map = {}
  <2>1. Sound(table, Blocks)
    BY DEF MapInv
  <2> QED BY <2>1, FoundIs
<1>2. Sampled(points) = FirstPoints(points)
  BY SampledFirst
<1>3. Accepted(points, verdict)
        <=> IF table.size = 0 THEN Len(points) >= MinResiduals
            ELSE verdict /\ Closest * support >= MinResiduals
  BY <1>2 DEF Accepted, MayMatch
<1>4. Dictionary!Cardinality({p \in Dictionary!FirstPoints(points) : Dictionary!Supported(map, p)})
        = support
  BY SamePlaces, SameUpkeep, SameSearch
<1> HIDE DEF support
<1>5. Dictionary!Accepted(points, verdict)
        <=> IF DOMAIN map = {} THEN Len(points) >= MinResiduals
            ELSE verdict /\ Closest * support >= MinResiduals
  BY <1>4 DEF Dictionary!Accepted, Dictionary!MayMatch
<1> QED BY <1>1, <1>3, <1>5

\* Adding a frame and suppressing what is far from it.
LEMMA UpkeepKeeps ==
  ASSUME MapInv, NEW points \in Seq(Int), InRange(points), NEW at \in Int, Upkeep(points, at)
  PROVE  /\ Sound(table', Blocks) /\ Keyed(Found(table')) /\ seen' \subseteq Int
         /\ upkeep'[1].at = at /\ Keeping'
         /\ Dictionary!Upkeep(points, at)
<1> DEFINE added == Added(Found(table), points)
           longer == Extended(points)
<1>1. seen' = ToSet(points) /\ seen' \subseteq Int /\ upkeep'[1].at = at
  BY BlockPoints DEF Upkeep, Maintained
<1>2. Sound(table, Blocks) /\ Found(table) = MapOf(table) /\ Keyed(Found(table))
  BY FoundIs DEF MapInv
<1>3. Sound(longer, Blocks) /\ MapOf(longer) = added
  BY <1>2, ExtendedAdds
<1>4. Keyed(added) /\ \A p \in ToSet(points) : Kept(added, p)
  BY <1>2, AddedKeeps
<1> HIDE DEF added, longer
<1>5. /\ Sound(table', Blocks)
      /\ Found(table') = IF StrideHit THEN Surroundings(added, at) ELSE added
  <2>1. table' = IF StrideHit THEN Segmented(longer, at) ELSE longer
    BY DEF Upkeep, longer
  <2>2. CASE StrideHit
    <3>1. Sound(table', Blocks) /\ MapOf(table') = Surroundings(added, at)
      BY <1>3, <2>1, <2>2, SegmentedLeaves
    <3>2. Found(table') = MapOf(table')
      BY <3>1, FoundIs
    <3> QED BY <2>2, <3>1, <3>2
  <2>3. CASE ~StrideHit
    <3>1. Sound(table', Blocks) /\ MapOf(table') = added
      BY <1>3, <2>1, <2>3
    <3>2. Found(table') = MapOf(table')
      BY <3>1, FoundIs
    <3> QED BY <2>3, <3>1, <3>2
  <2> QED BY <2>2, <2>3
<1>6. Keyed(Found(table'))
  BY <1>4, <1>5, SurroundingsKeep
<1>7. ASSUME NEW p \in seen', Gap(p, at) + 2 * VoxelSize <= MaxDistance
      PROVE  Kept(Found(table'), p)
  BY <1>1, <1>4, <1>5, <1>7, SurroundingsKeep
<1>8. Dictionary!Upkeep(points, at)
  <2>1. Dictionary!Maintained(points, at)
    BY SamePlaces DEF Upkeep, Maintained, Dictionary!Maintained
  <2>2. Found(table') = IF Dictionary!StrideHit
                        THEN Dictionary!Surroundings(Dictionary!Added(Found(table), points), at)
                        ELSE Dictionary!Added(Found(table), points)
    BY <1>5, SameUpkeep DEF added
  <2> QED BY <2>1, <2>2 DEF Dictionary!Upkeep
<1>9. Keeping'
  BY <1>1, <1>7 DEF Keeping
<1> QED BY <1>1, <1>5, <1>6, <1>8, <1>9

LEMMA MapStep ==
  ASSUME MapInv, [MapNext]_mapVars
  PROVE  MapInv' /\ [Dictionary!BlocksNext]_(Dictionary!blocksVars)
<1>1. ASSUME NEW step \in Steps, NEW scan \in Scans, NEW verdict \in Verdicts,
             ProcessMeasurements(step, scan, verdict)
      PROVE  MapInv' /\ Dictionary!BlocksNext
  <2> DEFINE at == robot + step
             points == Seen(scan, at)
             upkept == Accepted(points, verdict) /\ ShouldUpdate(at)
  <2>1. at \in Int /\ frame \in Nat \ {0}
    BY UpkeepAssumption DEF MapInv
  <2>2. /\ frame <= MaxFrame /\ robot' = at /\ frame' = frame + 1 /\ InRange(points)
        /\ IF upkept THEN Upkeep(points, at) ELSE UNCHANGED <<table, upkeep, seen>>
    BY <1>1 DEF ProcessMeasurements
  <2>3. points \in Seq(Int)
    BY <2>1, SeenPoints
  <2>4. upkept <=> Dictionary!Accepted(points, verdict) /\ Dictionary!ShouldUpdate(at)
    BY <2>2, <2>3, AcceptedAlike, SameUpkeep
  <2>5. Dictionary!Seen(scan, at) = points
    BY SamePlaces
  <2> HIDE DEF at, points, upkept
  <2>6. CASE upkept
    <3>1. Upkeep(points, at)
      BY <2>2, <2>6
    <3>2. /\ Sound(table', Blocks) /\ Keyed(Found(table')) /\ seen' \subseteq Int
          /\ upkeep'[1].at = at /\ Keeping' /\ Dictionary!Upkeep(points, at)
      BY <2>1, <2>2, <2>3, <3>1, UpkeepKeeps
    <3>3. MapInv'
      BY <2>1, <2>2, <3>2 DEF MapInv
    <3>4. Dictionary!ProcessMeasurements(step, scan, verdict)
      BY <2>2, <2>4, <2>5, <2>6, <3>2 DEF Dictionary!ProcessMeasurements, at
    <3> QED BY <3>3, <3>4 DEF Dictionary!BlocksNext
  <2>7. CASE ~upkept
    <3>1. UNCHANGED <<table, upkeep, seen>>
      BY <2>2, <2>7
    <3>2. Found(table') = Found(table) /\ Keeping'
      BY <3>1 DEF MapInv, Keeping
    <3>3. MapInv'
      BY <2>1, <2>2, <3>1, <3>2 DEF MapInv
    <3>4. Dictionary!ProcessMeasurements(step, scan, verdict)
      BY <2>2, <2>4, <2>5, <2>7, <3>1, <3>2 DEF Dictionary!ProcessMeasurements, at
    <3> QED BY <3>3, <3>4 DEF Dictionary!BlocksNext
  <2> QED BY <2>6, <2>7
<1>2. CASE UNCHANGED mapVars
  <2>1. UNCHANGED <<table, robot, frame, upkeep, seen>>
    BY <1>2 DEF mapVars, upkeepVars
  <2>2. MapInv'
    BY <2>1 DEF MapInv, Keeping
  <2>3. UNCHANGED Dictionary!blocksVars
    BY <2>1 DEF Dictionary!blocksVars, Dictionary!upkeepVars
  <2> QED BY <2>2, <2>3
<1> QED BY <1>1, <1>2 DEF MapNext

\* In any behaviour the table is sound: entries are as far from home as they
\* say, no key is in it twice, and it is never more than half full, so that
\* every search ends.
THEOREM MapInvHolds == MapSpec => []MapInv
<1> QED BY MapInvInit, MapStep, PTL DEF MapSpec

\* The hash table behaves as the dictionary of VoxelBlocks, whatever the hash:
\* displaced, rehashed and shifted back, no voxel is lost, doubled or mistaken.
THEOREM VoxelBlocksImplemented == MapSpec => ImplementsVoxelBlocks
<1> QED BY MapInvInit, MapStep, MapInvHolds, PTL
        DEF MapSpec, ImplementsVoxelBlocks, Dictionary!BlocksSpec

\* What the frame last added saw near the robot stays in the map.
THEOREM KeepsWhatItSawHolds == MapSpec => []KeepsWhatItSaw
<1>1. MapInv => KeepsWhatItSaw
  BY SamePlaces, SameUpkeep DEF MapInv, Keeping, KeepsWhatItSaw, Dictionary!KeepsWhatItSaw
<1> QED BY <1>1, MapInvHolds, PTL

\* The search misses no stored point within reach of its window of voxels.
THEOREM NearestAreFoundHolds == MapSpec => []NearestAreFound
<1>1. ASSUME MapInv PROVE NearestAreFound
  <2> DEFINE map == Found(table)
             reach == IF MaxNear < Window * VoxelSize THEN MaxNear ELSE Window * VoxelSize
  <2>1. Window \in Nat /\ MaxNear \in Nat /\ Window * VoxelSize \in Nat
    BY <1>1, UpkeepAssumption, GridAssumption DEF Window
  <2>2. Keyed(map)
    BY <1>1 DEF MapInv
  <2> HIDE DEF map
  <2>3. ASSUME NEW scan \in Scans, NEW offset \in ToSet(scan)
        PROVE  robot + offset \in Int
    <3>1. scan \in Seq(Int)
      BY UpkeepAssumption
    <3>2. offset \in Int
      BY <3>1, BlockPoints
    <3> QED BY <1>1, <3>2 DEF MapInv
  <2>4. ASSUME NEW p \in Int, NEW q \in Dense(map, DOMAIN map)
        PROVE  Gap(p, q) \in Int
    <3>1. PICK k \in DOMAIN map : q \in ToSet(map[k])
      BY DEF Dense
    <3>2. map[k] \in Seq(Int)
      BY <2>2 DEF Keyed
    <3>3. q \in Int
      BY <3>1, <3>2, BlockPoints
    <3> QED BY <3>3, Gaps
  <2>5. ASSUME NEW p \in Int, NEW q \in Dense(map, DOMAIN map)
        PROVE  \/ Gap(p, q) > reach
               \/ q \in Neighbours(map, p)
               \/ /\ Cardinality(Neighbours(map, p)) = Wanted
                  /\ \A r \in Neighbours(map, p) : Gap(p, r) <= Gap(p, q)
    <3> SUFFICES ASSUME ~(Gap(p, q) > reach)
                 PROVE  \/ q \in Neighbours(map, p)
                        \/ /\ Cardinality(Neighbours(map, p)) = Wanted
                           /\ \A r \in Neighbours(map, p) : Gap(p, r) <= Gap(p, q)
      OBVIOUS
    <3>1. Gap(p, q) <= MaxNear /\ Gap(p, q) <= Window * VoxelSize
      BY <2>1, <2>4
    <3> QED BY <2>1, <2>2, <3>1, SearchIsComplete, Zenon
  <2> HIDE DEF reach
  <2>6. ASSUME NEW scan \in Scans, NEW offset \in ToSet(scan), NEW q \in Dense(map, DOMAIN map)
        PROVE  LET p == robot + offset
                   found == Neighbours(map, p)
               IN \/ Gap(p, q) > reach
                  \/ q \in found
                  \/ Cardinality(found) = Wanted /\ \A r \in found : Gap(p, r) <= Gap(p, q)
    BY <2>3, <2>5
  <2> QED BY <2>6, SamePlaces, SameSearch
          DEF NearestAreFound, Dictionary!NearestAreFound, map, reach
<1> QED BY <1>1, MapInvHolds, PTL
=============================================================================
