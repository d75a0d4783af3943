---------------------- MODULE TranscodeWorkspace_proofs ----------------------
(***************************************************************************)
(* Proofs about TranscodeWorkspace for every set of sources, number of     *)
(* runs and limit of uploads: type correctness, that the encoder's tracks  *)
(* are never published, and that a run that overtook no other leaves one   *)
(* rendition.                                                              *)
(*                                                                         *)
(* The invariant is IInv.  It follows the source a run has downloaded from *)
(* the working directory (DiskInv) over the tasks (TaskInv, StoreInv) into *)
(* the bucket.                                                             *)
(***************************************************************************)
EXTENDS TranscodeWorkspace, FiniteSetTheorems, TLAPS

-----------------------------------------------------------------------------
(* The files of a rendition are artifacts other than the encoder's tracks. *)
LEMMA NamedFiles ==
  \A s : /\ Named(s) \subseteq Artifacts /\ Manifest \in Named(s)
        /\ Named(s) \cap Interim = {} /\ Input \notin Named(s) /\ Thumb \notin Named(s)
BY DEF Named, Streams, Artifacts, Interim, Input, Manifest, Thumb, Segment

(* The original is no artifact, and the tracks are artifacts. *)
LEMMA Kinds ==
  /\ Input \in Files /\ Input \notin Artifacts /\ Artifacts \subseteq Files
  /\ Interim \subseteq Artifacts /\ Input \notin Interim
  /\ Needed \subseteq Artifacts /\ Thumb \notin Interim
BY DEF Files, Artifacts, Interim, Input, Manifest, Thumb, Segment, Needed

(* The initial states satisfy the inductive invariant. *)
LEMMA InitInv == Init => IInv
<1>. SUFFICES ASSUME Init PROVE IInv
  OBVIOUS
<1>1. TypeOK
  <2>1. NoTask \in Task
    BY DEF NoTask, Task, Content
  <2>2. upload \in [Runs -> [Artifacts -> Task]]
    BY <2>1 DEF Init
  <2>3. disk \in [Files -> Content] /\ store \in [Artifacts -> Content]
    BY DEF Init, Content
  <2>4. run \in 0 .. MaxRuns /\ source \in Sources /\ paths \subseteq Needed
    BY WorkspaceAssumption DEF Init
  <2>5. stage \in Stage /\ outcome = "none" /\ overtook \in BOOLEAN
    BY DEF Init, Stage
  <2>. QED
    BY <2>2, <2>3, <2>4, <2>5 DEF TypeOK
<1>2. DiskInv /\ TaskInv /\ StoreInv /\ InterimInv /\ RenditionIsConsistent
  BY Kinds DEF Init, DiskInv, TaskInv, StoreInv, InterimInv, RenditionIsConsistent, Pending,
    NoTask, Encoded, Probed, InTheRun
<1>. QED
  BY <1>1, <1>2 DEF Init, IInv, RunInv

(* Every step keeps the types. *)
LEMMA TypeStep == TypeOK /\ RunInv /\ DiskInv /\ [Next]_vars => TypeOK'
<1>. USE WorkspaceAssumption, Kinds DEF TypeOK, Stage, Content, RunInv
<1>. SUFFICES ASSUME TypeOK, RunInv, DiskInv, [Next]_vars PROVE TypeOK'
  OBVIOUS
<1>1. CASE Begin
  BY <1>1 DEF Begin, Runs
<1>2. CASE Download
  BY <1>2 DEF Download, Write, DiskInv, Probed, Encoded
<1>3. CASE Probe
  BY <1>3 DEF Probe, Write, Throw, DiskInv, Probed, Encoded
<1>4. CASE EncodeAudio
  BY <1>4 DEF EncodeAudio, Write, DiskInv, Probed, Encoded
<1>5. CASE EncodeLadder
  BY <1>5 DEF EncodeLadder, Write, DiskInv, Probed, Encoded
<1>6. CASE Combine
  BY <1>6 DEF Combine, Write, DiskInv, Probed, Encoded
<1>7. CASE Tidy
  BY <1>7 DEF Tidy, Write, DiskInv, Probed, Encoded
<1>8. CASE ExtractThumbnail
  BY <1>8 DEF ExtractThumbnail, Write, DiskInv, Probed, Encoded
<1>9. CASE List
  BY <1>9 DEF List, Task
<1>10. CASE Uploaded
  BY <1>10 DEF Uploaded
<1>11. CASE Commit
  BY <1>11 DEF Commit
<1>12. CASE Cleanup
  BY <1>12 DEF Cleanup
<1>13. CASE CleanupFails
  BY <1>13 DEF CleanupFails
<1>14. CASE Fail
  BY <1>14 DEF Fail, Throw
<1>15. CASE Crash
  BY <1>15 DEF Crash, Task, NoTask
<1>16. ASSUME NEW r \in Runs, NEW f \in Artifacts, Open(r, f)
      PROVE  TypeOK'
  BY <1>16 DEF Open, SetTask, Task
<1>17. ASSUME NEW r \in Runs, NEW f \in Artifacts, Put(r, f)
      PROVE  TypeOK'
  BY <1>17 DEF Put, SetTask, Task
<1>18. ASSUME NEW r \in Runs, NEW f \in Artifacts, UploadFails(r, f)
      PROVE  TypeOK'
  BY <1>18 DEF UploadFails, SetTask, Broken, Task
<1>19. ASSUME NEW s \in Sources, Replace(s)
      PROVE  TypeOK'
  BY <1>19 DEF Replace
<1>20. CASE UNCHANGED vars
  BY <1>20 DEF vars
<1>. HIDE DEF TypeOK
<1>. QED
  BY <1>1, <1>2, <1>3, <1>4, <1>5, <1>6, <1>7, <1>8, <1>9, <1>10, <1>11, <1>12, <1>13,
     <1>14, <1>15, <1>16, <1>17, <1>18, <1>19, <1>20
  DEF Next, Work, Transferring, Transfer

(* A run that works or has committed has a number. *)
LEMMA RunStep == TypeOK /\ RunInv /\ [Next]_vars => RunInv'
<1>. USE WorkspaceAssumption DEF TypeOK, RunInv, Runs
<1>. SUFFICES ASSUME TypeOK, RunInv, [Next]_vars PROVE RunInv'
  OBVIOUS
<1>1. CASE Begin
  BY <1>1 DEF Begin
<1>2. CASE Download
  BY <1>2 DEF Download, Write
<1>3. CASE Probe
  BY <1>3 DEF Probe, Write, Throw
<1>4. CASE EncodeAudio
  BY <1>4 DEF EncodeAudio, Write
<1>5. CASE EncodeLadder
  BY <1>5 DEF EncodeLadder, Write
<1>6. CASE Combine
  BY <1>6 DEF Combine, Write
<1>7. CASE Tidy
  BY <1>7 DEF Tidy, Write
<1>8. CASE ExtractThumbnail
  BY <1>8 DEF ExtractThumbnail, Write
<1>9. CASE List
  BY <1>9 DEF List
<1>10. CASE Uploaded
  BY <1>10 DEF Uploaded
<1>11. CASE Commit
  BY <1>11 DEF Commit
<1>12. CASE Cleanup
  BY <1>12 DEF Cleanup
<1>13. CASE CleanupFails
  BY <1>13 DEF CleanupFails
<1>14. CASE Fail
  BY <1>14 DEF Fail, Throw
<1>15. CASE Crash
  BY <1>15 DEF Crash
<1>16. ASSUME NEW r \in Runs, NEW f \in Artifacts, UploadFails(r, f)
      PROVE  RunInv'
  BY <1>16 DEF UploadFails, SetTask, Broken
<1>17. CASE UNCHANGED <<run, stage, outcome>>
  BY <1>17
<1>. HIDE DEF RunInv
<1>. QED
  BY <1>1, <1>2, <1>3, <1>4, <1>5, <1>6, <1>7, <1>8, <1>9, <1>10, <1>11, <1>12, <1>13,
     <1>14, <1>15, <1>16, <1>17
  DEF Next, Work, Transferring, Transfer, Open, Put, Replace, SetTask, vars

(* A run makes all its files from the source it downloaded. *)
LEMMA DiskStep == TypeOK /\ DiskInv /\ [Next]_vars => DiskInv'
<1>. USE WorkspaceAssumption, Kinds, NamedFiles DEF TypeOK, DiskInv, Probed, Encoded, InTheRun
<1>. SUFFICES ASSUME TypeOK, DiskInv, [Next]_vars PROVE DiskInv'
  OBVIOUS
<1>1. CASE Begin
  BY <1>1 DEF Begin
<1>2. CASE Download
  BY <1>2 DEF Download, Write
<1>3. CASE Probe
  BY <1>3 DEF Probe, Write, Throw
<1>4. CASE EncodeAudio
  BY <1>4 DEF EncodeAudio, Write
<1>5. CASE EncodeLadder
  BY <1>5 DEF EncodeLadder, Write
<1>6. CASE Combine
  BY <1>6 DEF Combine, Write
<1>7. CASE Tidy
  BY <1>7 DEF Tidy, Write
<1>8. CASE ExtractThumbnail
  BY <1>8 DEF ExtractThumbnail, Write
<1>9. CASE List
  BY <1>9 DEF List
<1>10. CASE Uploaded
  BY <1>10 DEF Uploaded
<1>11. CASE Commit
  BY <1>11 DEF Commit
<1>12. CASE Cleanup
  BY <1>12 DEF Cleanup
<1>13. CASE CleanupFails
  BY <1>13 DEF CleanupFails
<1>14. CASE Fail
  BY <1>14 DEF Fail, Throw
<1>15. CASE Crash
  BY <1>15 DEF Crash
<1>16. ASSUME NEW r \in Runs, NEW f \in Artifacts, UploadFails(r, f)
      PROVE  DiskInv'
  BY <1>16 DEF UploadFails, SetTask, Broken
<1>17. CASE UNCHANGED <<disk, stage, outcome>>
  BY <1>17
<1>. HIDE DEF DiskInv
<1>. QED
  BY <1>1, <1>2, <1>3, <1>4, <1>5, <1>6, <1>7, <1>8, <1>9, <1>10, <1>11, <1>12, <1>13,
     <1>14, <1>15, <1>16, <1>17
  DEF Next, Work, Transferring, Transfer, Open, Put, Replace, SetTask, vars

(* The tasks under way are of runs that have begun. *)
LEMMA TaskStep == TypeOK /\ RunInv /\ DiskInv /\ TaskInv /\ [Next]_vars => TaskInv'
<1>. USE WorkspaceAssumption DEF TypeOK, TaskInv, Pending, Probed, Encoded, InTheRun, Runs
<1>. SUFFICES ASSUME TypeOK, RunInv, DiskInv, TaskInv, [Next]_vars PROVE TaskInv'
  OBVIOUS
<1>1. CASE Begin
  BY <1>1 DEF Begin
<1>2. CASE Download
  BY <1>2 DEF Download, Write
<1>3. CASE Probe
  BY <1>3 DEF Probe, Write, Throw
<1>4. CASE EncodeAudio
  BY <1>4 DEF EncodeAudio, Write
<1>5. CASE EncodeLadder
  BY <1>5 DEF EncodeLadder, Write
<1>6. CASE Combine
  BY <1>6 DEF Combine, Write
<1>7. CASE Tidy
  BY <1>7 DEF Tidy, Write
<1>8. CASE ExtractThumbnail
  BY <1>8 DEF ExtractThumbnail, Write
<1>9. CASE List
  BY <1>9 DEF List, RunInv, DiskInv
<1>10. CASE Uploaded
  BY <1>10 DEF Uploaded
<1>11. CASE Commit
  BY <1>11 DEF Commit
<1>12. CASE Cleanup
  BY <1>12 DEF Cleanup
<1>13. CASE CleanupFails
  BY <1>13 DEF CleanupFails
<1>14. CASE Fail
  BY <1>14 DEF Fail, Throw
<1>15. CASE Crash
  BY <1>15 DEF Crash, NoTask
<1>16. ASSUME NEW r \in Runs, NEW f \in Artifacts, Open(r, f)
      PROVE  TaskInv'
  BY <1>16 DEF Open, SetTask
<1>17. ASSUME NEW r \in Runs, NEW f \in Artifacts, Put(r, f)
      PROVE  TaskInv'
  BY <1>17 DEF Put, SetTask
<1>18. ASSUME NEW r \in Runs, NEW f \in Artifacts, UploadFails(r, f)
      PROVE  TaskInv'
  BY <1>18 DEF UploadFails, SetTask, Broken
<1>19. CASE UNCHANGED <<run, stage, outcome, upload, overtook>>
  BY <1>19
<1>. HIDE DEF TaskInv
<1>. QED
  BY <1>1, <1>2, <1>3, <1>4, <1>5, <1>6, <1>7, <1>8, <1>9, <1>10, <1>11, <1>12, <1>13,
     <1>14, <1>15, <1>16, <1>17, <1>18, <1>19
  DEF Next, Work, Transferring, Transfer, Replace, vars

(* A file of the rendition is put, or is still to be put. *)
LEMMA StoreStep == TypeOK /\ RunInv /\ DiskInv /\ TaskInv /\ StoreInv /\ [Next]_vars => StoreInv'
<1>. USE WorkspaceAssumption, NamedFiles, Kinds DEF TypeOK, StoreInv, Pending
<1>. SUFFICES ASSUME TypeOK, RunInv, DiskInv, TaskInv, StoreInv, [Next]_vars PROVE StoreInv'
  OBVIOUS
<1>1. CASE Begin
  BY <1>1 DEF Begin
<1>2. CASE Download
  BY <1>2 DEF Download, Write
<1>3. CASE Probe
  BY <1>3 DEF Probe, Write, Throw
<1>4. CASE EncodeAudio
  BY <1>4 DEF EncodeAudio, Write
<1>5. CASE EncodeLadder
  BY <1>5 DEF EncodeLadder, Write
<1>6. CASE Combine
  BY <1>6 DEF Combine, Write
<1>7. CASE Tidy
  BY <1>7 DEF Tidy, Write
<1>8. CASE ExtractThumbnail
  BY <1>8 DEF ExtractThumbnail, Write
<1>9. CASE List
  BY <1>9 DEF List, RunInv, DiskInv, Encoded, Probed
<1>10. CASE Uploaded
  BY <1>10 DEF Uploaded
<1>11. CASE Commit
  BY <1>11 DEF Commit
<1>12. CASE Cleanup
  BY <1>12 DEF Cleanup
<1>13. CASE CleanupFails
  BY <1>13 DEF CleanupFails
<1>14. CASE Fail
  BY <1>14 DEF Fail, Throw
<1>15. CASE Crash
  BY <1>15 DEF Crash
<1>16. ASSUME NEW r \in Runs, NEW f \in Artifacts, Open(r, f)
      PROVE  StoreInv'
  BY <1>16 DEF Open, SetTask, RunInv, DiskInv, Encoded
<1>17. ASSUME NEW r \in Runs, NEW f \in Artifacts, Put(r, f)
      PROVE  StoreInv'
  BY <1>17 DEF Put, SetTask, RunInv, TaskInv, InTheRun, Probed, Encoded
<1>18. ASSUME NEW r \in Runs, NEW f \in Artifacts, UploadFails(r, f)
      PROVE  StoreInv'
  BY <1>18 DEF UploadFails, SetTask, Broken, RunInv, TaskInv, DiskInv, Encoded
<1>19. CASE UNCHANGED <<disk, store, run, stage, upload, overtook>>
  BY <1>19
<1>. HIDE DEF StoreInv
<1>. QED
  BY <1>1, <1>2, <1>3, <1>4, <1>5, <1>6, <1>7, <1>8, <1>9, <1>10, <1>11, <1>12, <1>13,
     <1>14, <1>15, <1>16, <1>17, <1>18, <1>19
  DEF Next, Work, Transferring, Transfer, Replace, vars

(* A track is on the disk only until it is tidied up, and no task is for one. *)
LEMMA InterimStep == TypeOK /\ InterimInv /\ [Next]_vars => InterimInv'
<1>. USE WorkspaceAssumption, NamedFiles, Kinds DEF TypeOK, InterimInv, Pending
<1>. SUFFICES ASSUME TypeOK, InterimInv, [Next]_vars PROVE InterimInv'
  OBVIOUS
<1>1. CASE Begin
  BY <1>1 DEF Begin
<1>2. CASE Download
  BY <1>2 DEF Download, Write
<1>3. CASE Probe
  BY <1>3 DEF Probe, Write, Throw
<1>4. CASE EncodeAudio
  BY <1>4 DEF EncodeAudio, Write
<1>5. CASE EncodeLadder
  BY <1>5 DEF EncodeLadder, Write
<1>6. CASE Combine
  BY <1>6 DEF Combine, Write
<1>7. CASE Tidy
  BY <1>7 DEF Tidy, Write
<1>8. CASE ExtractThumbnail
  BY <1>8 DEF ExtractThumbnail, Write
<1>9. CASE List
  BY <1>9 DEF List
<1>10. CASE Uploaded
  BY <1>10 DEF Uploaded
<1>11. CASE Commit
  BY <1>11 DEF Commit
<1>12. CASE Cleanup
  BY <1>12 DEF Cleanup
<1>13. CASE CleanupFails
  BY <1>13 DEF CleanupFails
<1>14. CASE Fail
  BY <1>14 DEF Fail, Throw
<1>15. CASE Crash
  BY <1>15 DEF Crash, NoTask
<1>16. ASSUME NEW r \in Runs, NEW f \in Artifacts, Open(r, f)
      PROVE  InterimInv'
  BY <1>16 DEF Open, SetTask
<1>17. ASSUME NEW r \in Runs, NEW f \in Artifacts, Put(r, f)
      PROVE  InterimInv'
  BY <1>17 DEF Put, SetTask
<1>18. ASSUME NEW r \in Runs, NEW f \in Artifacts, UploadFails(r, f)
      PROVE  InterimInv'
  BY <1>18 DEF UploadFails, SetTask, Broken
<1>19. CASE UNCHANGED <<disk, store, stage, upload>>
  BY <1>19
<1>. HIDE DEF InterimInv
<1>. QED
  BY <1>1, <1>2, <1>3, <1>4, <1>5, <1>6, <1>7, <1>8, <1>9, <1>10, <1>11, <1>12, <1>13,
     <1>14, <1>15, <1>16, <1>17, <1>18, <1>19
  DEF Next, Work, Transferring, Transfer, Replace, vars

(* A run commits a rendition of its own, and nothing is under way then. *)
LEMMA RenditionStep == IInv /\ [Next]_vars => RenditionIsConsistent'
<1>. USE WorkspaceAssumption, NamedFiles, Kinds DEF IInv, TypeOK, RenditionIsConsistent
<1>. SUFFICES ASSUME IInv, [Next]_vars PROVE RenditionIsConsistent'
  OBVIOUS
<1>1. CASE Begin
  BY <1>1 DEF Begin
<1>2. CASE Download
  BY <1>2 DEF Download, Write
<1>3. CASE Probe
  BY <1>3 DEF Probe, Write, Throw
<1>4. CASE EncodeAudio
  BY <1>4 DEF EncodeAudio, Write
<1>5. CASE EncodeLadder
  BY <1>5 DEF EncodeLadder, Write
<1>6. CASE Combine
  BY <1>6 DEF Combine, Write
<1>7. CASE Tidy
  BY <1>7 DEF Tidy, Write
<1>8. CASE ExtractThumbnail
  BY <1>8 DEF ExtractThumbnail, Write
<1>9. CASE List
  BY <1>9 DEF List
<1>10. CASE Uploaded
  BY <1>10 DEF Uploaded
<1>11. CASE Commit
  BY <1>11 DEF Commit, StoreInv, DiskInv, Encoded, Probed
<1>12. CASE Cleanup
  BY <1>12 DEF Cleanup
<1>13. CASE CleanupFails
  BY <1>13 DEF CleanupFails
<1>14. CASE Fail
  BY <1>14 DEF Fail, Throw
<1>15. CASE Crash
  BY <1>15 DEF Crash
<1>16. ASSUME NEW r \in Runs, NEW f \in Artifacts, Open(r, f)
      PROVE  RenditionIsConsistent'
  BY <1>16 DEF Open, SetTask
<1>17. ASSUME NEW r \in Runs, NEW f \in Artifacts, Put(r, f)
      PROVE  RenditionIsConsistent'
  BY <1>17 DEF Put, SetTask, TaskInv, Pending, RunInv
<1>18. ASSUME NEW r \in Runs, NEW f \in Artifacts, UploadFails(r, f)
      PROVE  RenditionIsConsistent'
  BY <1>18 DEF UploadFails, SetTask, Broken
<1>19. ASSUME NEW s \in Sources, Replace(s)
      PROVE  RenditionIsConsistent'
  BY <1>19 DEF Replace
<1>20. CASE UNCHANGED vars
  BY <1>20 DEF vars
<1>. HIDE DEF RenditionIsConsistent
<1>. QED
  BY <1>1, <1>2, <1>3, <1>4, <1>5, <1>6, <1>7, <1>8, <1>9, <1>10, <1>11, <1>12, <1>13,
     <1>14, <1>15, <1>16, <1>17, <1>18, <1>19, <1>20
  DEF Next, Work, Transferring, Transfer

-----------------------------------------------------------------------------
(* Every step keeps the inductive invariant. *)
LEMMA StepInv == IInv /\ [Next]_vars => IInv'
<1>. SUFFICES ASSUME IInv, [Next]_vars PROVE IInv'
  OBVIOUS
<1>1. RenditionIsConsistent'
  BY RenditionStep
<1>. QED
  BY <1>1, TypeStep, RunStep, DiskStep, TaskStep, StoreStep, InterimStep DEF IInv

(* The inductive invariant holds in every reachable state. *)
THEOREM InvHolds == Spec => []IInv
<1>1. Init => IInv
  BY InitInv
<1>2. IInv /\ [Next]_vars => IInv'
  BY StepInv
<1>. QED
  BY <1>1, <1>2, PTL DEF Spec

(* Every variable keeps its type. *)
THEOREM TypesHold == Spec => []TypeOK
<1>1. IInv => TypeOK
  BY DEF IInv
<1>. QED
  BY <1>1, InvHolds, PTL

(* No track of the encoder is ever put into the bucket, whatever a crashed run
   left on the disk. *)
THEOREM TracksStayHome == Spec => []InterimStaysHome
<1>1. IInv => InterimStaysHome
  BY DEF IInv, InterimInv, InterimStaysHome
<1>. QED
  BY <1>1, InvHolds, PTL

(* A committed run that overtook no other leaves the manifest and the segments
   of one source. *)
THEOREM RenditionsAreConsistent == Spec => []RenditionIsConsistent
<1>1. IInv => RenditionIsConsistent
  BY DEF IInv
<1>. QED
  BY <1>1, InvHolds, PTL

-----------------------------------------------------------------------------
(* What a run costs.  The files of a workspace are finitely many. *)
LEMMA FiniteFiles ==
  /\ IsFiniteSet(Artifacts) /\ Cardinality(Artifacts) \in Nat
  /\ \A T \in SUBSET (Runs \X Artifacts) : IsFiniteSet(T) /\ Cardinality(T) \in Nat
<1>1. IsFiniteSet(0 .. 6) /\ IsFiniteSet(Runs)
  <2>1. 0 \in Int /\ 1 \in Int /\ 6 \in Int /\ MaxRuns \in Int
    BY WorkspaceAssumption
  <2>2. IsFiniteSet(0 .. 6)
    BY <2>1, FS_Interval
  <2>3. IsFiniteSet(1 .. MaxRuns)
    BY <2>1, FS_Interval
  <2>. QED
    BY <2>2, <2>3 DEF Runs
<1>2. IsFiniteSet({"segment"}) /\ IsFiniteSet({"interim"})
  BY FS_Singleton
<1>3. IsFiniteSet({"segment"} \X (0 .. 6)) /\ IsFiniteSet({"interim"} \X (0 .. 6))
  BY <1>1, <1>2, FS_Product
<1>4. IsFiniteSet({Manifest, Thumb})
  <2>1. IsFiniteSet({Manifest} \cup {Thumb})
    BY FS_Singleton, FS_AddElement
  <2>2. {Manifest} \cup {Thumb} = {Manifest, Thumb}
    OBVIOUS
  <2>. QED
    BY <2>1, <2>2
<1>5. Artifacts = ({Manifest, Thumb} \cup {"segment"} \X (0 .. 6)) \cup {"interim"} \X (0 .. 6)
  BY DEF Artifacts, Segment, Interim
<1>6. IsFiniteSet({Manifest, Thumb} \cup {"segment"} \X (0 .. 6))
  BY <1>3, <1>4, FS_Union
<1>7. IsFiniteSet(Artifacts)
  BY <1>3, <1>5, <1>6, FS_Union
<1>8. IsFiniteSet(Runs \X Artifacts)
  BY <1>1, <1>7, FS_Product
<1>. QED
  BY <1>7, <1>8, FS_Subset, FS_CardinalityType

(* The parts of WorkLeft are numbers, and all 0 exactly at rest. *)
LEMMA WorkIsNat ==
  TypeOK => /\ StageWork \in 0 .. 11 /\ WorkLeft \in Nat
            /\ WorkLeft = 0 <=> AtRest
<1>. SUFFICES ASSUME TypeOK
              PROVE  StageWork \in 0 .. 11 /\ WorkLeft \in Nat /\ (WorkLeft = 0 <=> AtRest)
  OBVIOUS
<1>1. StageWork \in 0 .. 11 /\ (StageWork = 0 <=> stage = "idle")
  <2>1. stage \in Stage
    BY DEF TypeOK
  <2>2. CASE stage = "idle"
    BY <2>2 DEF StageWork
  <2>3. CASE stage = "cleanup"
    BY <2>3 DEF StageWork
  <2>4. CASE stage = "commit"
    BY <2>4 DEF StageWork
  <2>5. CASE stage = "upload"
    BY <2>5 DEF StageWork
  <2>6. CASE stage = "list"
    BY <2>6 DEF StageWork
  <2>7. CASE stage = "thumb"
    BY <2>7 DEF StageWork
  <2>8. CASE stage = "tidy"
    BY <2>8 DEF StageWork
  <2>9. CASE stage = "manifest"
    BY <2>9 DEF StageWork
  <2>10. CASE stage = "video"
    BY <2>10 DEF StageWork
  <2>11. CASE stage = "audio"
    BY <2>11 DEF StageWork
  <2>12. CASE stage = "probe"
    BY <2>12 DEF StageWork
  <2>13. CASE stage = "download"
    BY <2>13 DEF StageWork
  <2>. QED
    BY <2>1, <2>2, <2>3, <2>4, <2>5, <2>6, <2>7, <2>8, <2>9, <2>10, <2>11, <2>12, <2>13 DEF Stage
<1>2. StageWeight \in Nat \ {0}
  BY FiniteFiles DEF StageWeight
<1>3. \A t \in {"queued", "open"} :
         /\ IsFiniteSet(Tasks(t)) /\ Cardinality(Tasks(t)) \in Nat
         /\ Cardinality(Tasks(t)) = 0 <=> Tasks(t) = {}
  BY FiniteFiles, FS_EmptySet DEF Tasks
<1>4. StageWeight * StageWork \in Nat /\ (StageWeight * StageWork = 0 <=> StageWork = 0)
  BY <1>1, <1>2
<1>5. AtRest <=> stage = "idle" /\ Tasks("queued") = {} /\ Tasks("open") = {}
  <2>1. ASSUME Tasks("queued") = {}, Tasks("open") = {}, NEW r \in Runs, NEW f \in Artifacts
        PROVE  ~ Pending(r, f)
    <3>1. <<r, f>> \in Runs \X Artifacts
      OBVIOUS
    <3>. QED
      BY <2>1, <3>1 DEF Pending, Tasks
  <2>2. ASSUME NEW t \in Runs \X Artifacts, t \in Tasks("queued") \/ t \in Tasks("open")
        PROVE  Pending(t[1], t[2]) /\ t[1] \in Runs /\ t[2] \in Artifacts
    BY <2>2 DEF Pending, Tasks
  <2>3. Tasks("queued") \subseteq Runs \X Artifacts /\ Tasks("open") \subseteq Runs \X Artifacts
    BY DEF Tasks
  <2>. QED
    BY <2>1, <2>2, <2>3 DEF AtRest
<1>. QED
  BY <1>1, <1>3, <1>4, <1>5 DEF WorkLeft

(* The same of the next state. *)
LEMMA WorkIsNatNext ==
  TypeOK' => /\ StageWork' \in 0 .. 11
             /\ Cardinality(Tasks("queued"))' \in Nat /\ Cardinality(Tasks("open"))' \in Nat
<1>1. TypeOK => /\ StageWork \in 0 .. 11
                /\ Cardinality(Tasks("queued")) \in Nat /\ Cardinality(Tasks("open")) \in Nat
  BY WorkIsNat, FiniteFiles DEF Tasks
<1>2. (TypeOK => /\ StageWork \in 0 .. 11
                 /\ Cardinality(Tasks("queued")) \in Nat
                 /\ Cardinality(Tasks("open")) \in Nat)'
  BY <1>1, PTL
<1>. QED
  BY <1>2

(* An earlier stage outweighs the tasks that come with the next one. *)
LEMMA Outweighs ==
  ASSUME NEW k \in Nat, NEW a \in Nat, NEW b \in Nat, a < b,
         NEW c \in Nat, NEW d \in Nat, d < c + k
  PROVE  k * a + d < k * b + c
<1>1. PICK e \in Nat : b = (a + 1) + e
  <2>1. b - (a + 1) \in Nat
    OBVIOUS
  <2>. QED
    BY <2>1
<1>2. k * b = k * a + k + k * e /\ k * e \in Nat /\ k * a \in Nat
  BY <1>1
<1>. QED
  BY <1>2

(* A step to a later stage that leaves the tasks alone. *)
LEMMA StageOn ==
  ASSUME TypeOK, TypeOK', upload' = upload, StageWork' < StageWork
  PROVE  WorkLeft' < WorkLeft
<1>1. PICK k \in Nat, w \in Nat, w1 \in Nat : k = StageWeight /\ w = StageWork /\ w1 = StageWork'
  BY WorkIsNat, WorkIsNatNext, FiniteFiles DEF StageWeight
<1>2. PICK q \in Nat, o \in Nat : q = Cardinality(Tasks("queued")) /\ o = Cardinality(Tasks("open"))
  BY FiniteFiles DEF Tasks
<1>3. Tasks("queued")' = Tasks("queued") /\ Tasks("open")' = Tasks("open")
  BY DEF Tasks
<1>4. WorkLeft = k * w + 2 * q + o /\ WorkLeft' = k * w1 + 2 * q + o
  BY <1>1, <1>2, <1>3 DEF WorkLeft, StageWeight
<1>5. k > 0
  BY <1>1, FiniteFiles DEF StageWeight
<1>6. 2 * q + o \in Nat /\ 2 * q + o < 2 * q + o + k
  BY <1>5
<1>7. k * w1 + (2 * q + o) < k * w + (2 * q + o)
  BY <1>1, <1>6, Outweighs
<1>8. k * w \in Nat /\ k * w1 \in Nat
  OBVIOUS
<1>. QED
  BY <1>4, <1>7, <1>8

(* A task that goes on from one step to another. *)
LEMMA TaskMoves ==
  ASSUME TypeOK, NEW r \in Runs, NEW f \in Artifacts, NEW step, NEW content,
         SetTask(r, f, step, content)
  PROVE  \A s : Tasks(s)' = IF s = step THEN Tasks(s) \cup {<<r, f>>} ELSE Tasks(s) \ {<<r, f>>}
<1>. SUFFICES ASSUME NEW s
              PROVE  Tasks(s)' = IF s = step THEN Tasks(s) \cup {<<r, f>>}
                                             ELSE Tasks(s) \ {<<r, f>>}
  OBVIOUS
<1>1. \A q \in Runs, g \in Artifacts :
         upload'[q][g].step = IF q = r /\ g = f THEN step ELSE upload[q][g].step
  BY DEF SetTask, TypeOK
<1>2. \A t \in Runs \X Artifacts :
         /\ t[1] \in Runs /\ t[2] \in Artifacts
         /\ t = <<r, f>> <=> t[1] = r /\ t[2] = f
  OBVIOUS
<1>3. \A t \in Runs \X Artifacts :
         upload'[t[1]][t[2]].step = IF t = <<r, f>> THEN step ELSE upload[t[1]][t[2]].step
  BY <1>1, <1>2
<1>. QED
  BY <1>3 DEF Tasks

(* It has less to do then. *)
LEMMA TaskOn ==
  ASSUME TypeOK, TypeOK', NEW r \in Runs, NEW f \in Artifacts, NEW step, NEW content,
         SetTask(r, f, step, content), StageWork' <= StageWork,
         \/ upload[r][f].step = "queued" /\ step \in {"open", "none"}
         \/ upload[r][f].step = "open" /\ step = "none"
  PROVE  WorkLeft' < WorkLeft
<1>1. PICK q, o : q = Cardinality(Tasks("queued")) /\ o = Cardinality(Tasks("open"))
  OBVIOUS
<1>2. q \in Nat /\ o \in Nat /\ IsFiniteSet(Tasks("queued")) /\ IsFiniteSet(Tasks("open"))
  BY <1>1, FiniteFiles DEF Tasks
<1>3. /\ <<r, f>> \in Tasks("queued") <=> upload[r][f].step = "queued"
      /\ <<r, f>> \in Tasks("open") <=> upload[r][f].step = "open"
  BY DEF Tasks
<1>4. PICK q1, o1 : q1 = Cardinality(Tasks("queued"))' /\ o1 = Cardinality(Tasks("open"))'
  OBVIOUS
<1>5. Tasks("queued")' = Tasks("queued") \ {<<r, f>>}
  BY TaskMoves
<1>6. q1 = IF <<r, f>> \in Tasks("queued") THEN q - 1 ELSE q
  BY <1>1, <1>2, <1>4, <1>5, FS_RemoveElement
<1>7. step = "open" => Tasks("open")' = Tasks("open") \cup {<<r, f>>}
  BY TaskMoves
<1>8. step = "none" => Tasks("open")' = Tasks("open") \ {<<r, f>>}
  BY TaskMoves
<1>9. Cardinality(Tasks("open") \cup {<<r, f>>}) <= o + 1
  <2>1. Cardinality(Tasks("open") \cup {<<r, f>>}) =
          IF <<r, f>> \in Tasks("open") THEN o ELSE o + 1
    BY <1>1, <1>2, FS_AddElement
  <2>. QED
    BY <1>2, <2>1
<1>10. Cardinality(Tasks("open") \ {<<r, f>>}) =
         IF <<r, f>> \in Tasks("open") THEN o - 1 ELSE o
  BY <1>1, <1>2, FS_RemoveElement
<1>11. q1 \in Nat /\ o1 \in Nat
  BY <1>4, WorkIsNatNext
<1>12. 2 * q1 + o1 < 2 * q + o
  <2>1. CASE upload[r][f].step = "queued"
    <3>1. q1 = q - 1
      BY <1>3, <1>6, <2>1
    <3>2. step = "open" => o1 <= o + 1
      BY <1>4, <1>7, <1>9
    <3>3. step = "none" => o1 <= o + 1
      BY <1>2, <1>3, <1>4, <1>8, <1>10, <2>1
    <3>. QED
      BY <1>2, <1>11, <2>1, <3>1, <3>2, <3>3
  <2>2. CASE upload[r][f].step = "open"
    <3>1. q1 = q /\ o1 = o - 1
      BY <1>3, <1>4, <1>6, <1>8, <1>10, <2>2
    <3>. QED
      BY <1>2, <3>1
  <2>. QED
    BY <2>1, <2>2
<1>13. PICK k \in Nat, w \in Nat, w1 \in Nat : k = StageWeight /\ w = StageWork /\ w1 = StageWork'
  BY WorkIsNat, WorkIsNatNext, FiniteFiles DEF StageWeight
<1>14. WorkLeft = k * w + 2 * q + o /\ WorkLeft' = k * w1 + 2 * q1 + o1
  BY <1>1, <1>4, <1>13 DEF WorkLeft, StageWeight
<1>15. k * w1 <= k * w
  <2>1. CASE w1 = w
    BY <2>1
  <2>2. CASE w1 < w
    <3>1. k * w1 + 0 < k * w + 1
      BY <2>2, Outweighs
    <3>. QED
      BY <3>1
  <2>3. w1 = w \/ w1 < w
    BY <1>13
  <2>. QED
    BY <2>1, <2>2, <2>3
<1>16. k * w \in Nat /\ k * w1 \in Nat
  OBVIOUS
<1>. QED
  BY <1>2, <1>11, <1>12, <1>14, <1>15, <1>16

(* The list of files becomes tasks, no more than there are artifacts. *)
LEMMA ListOn == ASSUME TypeOK, TypeOK', run \in Runs, List PROVE WorkLeft' < WorkLeft
<1>1. PICK q \in Nat, o \in Nat, q1 \in Nat, o1 \in Nat :
         /\ q = Cardinality(Tasks("queued")) /\ o = Cardinality(Tasks("open"))
         /\ q1 = Cardinality(Tasks("queued"))' /\ o1 = Cardinality(Tasks("open"))'
  BY FiniteFiles, WorkIsNatNext DEF Tasks
<1>2. PICK n \in Nat : n = Cardinality(Artifacts)
  BY FiniteFiles
<1>3. \A r \in Runs \ {run} : upload'[r] = upload[r]
  BY DEF List, TypeOK
<1>4. \A f \in Artifacts : upload'[run][f].step \in {"none", "queued"}
  BY DEF List, TypeOK
<1>5. q1 <= q + n
  <2>. DEFINE mine == {run} \X Artifacts
  <2>1. IsFiniteSet(mine) /\ Cardinality(mine) = n
    <3>1. IsFiniteSet({run}) /\ Cardinality({run}) = 1
      BY FS_Singleton
    <3>2. IsFiniteSet(mine) /\ Cardinality(mine) = 1 * Cardinality(Artifacts)
      BY <3>1, FiniteFiles, FS_Product
    <3>. QED
      BY <1>2, <3>2
  <2>2. Tasks("queued")' \in SUBSET (Tasks("queued") \cup mine)
    BY <1>3 DEF Tasks
  <2>. HIDE DEF mine
  <2>3. IsFiniteSet(Tasks("queued"))
    BY FiniteFiles DEF Tasks
  <2>4. IsFiniteSet(Tasks("queued") \cap mine)
    BY <2>1, <2>3, FS_Subset
  <2>5. Cardinality(Tasks("queued") \cap mine) \in Nat
    BY <2>4, FS_CardinalityType
  <2>6. /\ IsFiniteSet(Tasks("queued") \cup mine)
        /\ Cardinality(Tasks("queued") \cup mine) = q + n - Cardinality(Tasks("queued") \cap mine)
    BY <1>1, <2>1, <2>3, FS_Union
  <2>7. q1 <= Cardinality(Tasks("queued") \cup mine)
    BY <1>1, <2>2, <2>6, FS_Subset
  <2>. QED
    BY <2>5, <2>6, <2>7
<1>6. o1 <= o
  <2>1. Tasks("open")' \in SUBSET Tasks("open")
    BY <1>3, <1>4 DEF Tasks
  <2>2. IsFiniteSet(Tasks("open"))
    BY FiniteFiles DEF Tasks
  <2>. QED
    BY <1>1, <2>1, <2>2, FS_Subset
<1>7. StageWork = 4 /\ StageWork' = 3
  BY DEF List, StageWork
<1>8. PICK k \in Nat : k = StageWeight /\ k = 2 * n + 1
  BY <1>2 DEF StageWeight
<1>9. WorkLeft = k * 4 + 2 * q + o /\ WorkLeft' = k * 3 + 2 * q1 + o1
  BY <1>1, <1>7, <1>8 DEF WorkLeft, StageWeight
<1>. QED
  BY <1>5, <1>6, <1>8, <1>9

(* A crash leaves nothing to do. *)
LEMMA CrashOn == ASSUME TypeOK, TypeOK', Crash PROVE WorkLeft' < WorkLeft
<1>1. PICK q \in Nat, o \in Nat : q = Cardinality(Tasks("queued")) /\ o = Cardinality(Tasks("open"))
  BY FiniteFiles DEF Tasks
<1>2. PICK k \in Nat, w \in Nat : k = StageWeight /\ w = StageWork
  BY WorkIsNat, FiniteFiles DEF StageWeight
<1>3. k > 0 /\ w > 0
  <2>1. k > 0
    BY <1>2, FiniteFiles DEF StageWeight
  <2>2. stage \in Stage \ {"idle"}
    BY DEF Crash, TypeOK
  <2>3. w # 0
    BY <1>2, <2>2 DEF StageWork, Stage
  <2>. QED
    BY <2>1, <2>3
<1>4. WorkLeft' = 0
  <2>1. Tasks("queued")' = {} /\ Tasks("open")' = {}
    BY DEF Crash, Tasks, NoTask
  <2>2. StageWork' = 0
    BY DEF Crash, StageWork
  <2>3. StageWeight * 0 = 0
    BY <1>2
  <2>. QED
    BY <2>1, <2>2, <2>3, FS_EmptySet DEF WorkLeft, StageWeight
<1>5. WorkLeft = k * w + 2 * q + o
  BY <1>1, <1>2 DEF WorkLeft
<1>6. k * w > 0
  BY <1>3
<1>. QED
  BY <1>4, <1>5, <1>6

(* Every step but the delivery of a job and a new original shrinks the work. *)
LEMMA WindStep == IInv /\ IInv' /\ [Next]_vars => [WindsDown]_vars
<1>. SUFFICES ASSUME IInv, IInv', Next PROVE WindsDown
  BY DEF WindsDown
<1>0. TypeOK /\ TypeOK' /\ (stage # "idle" => run \in Runs)
  BY DEF IInv, RunInv
<1>1. CASE Download
  <2>1. upload' = upload /\ StageWork' < StageWork
    BY <1>1 DEF Download, Write, StageWork
  <2>. QED
    BY <1>0, <2>1, StageOn DEF WindsDown
<1>2. CASE Probe
  <2>1. upload' = upload /\ StageWork' < StageWork
    BY <1>2 DEF Probe, Write, Throw, StageWork
  <2>. QED
    BY <1>0, <2>1, StageOn DEF WindsDown
<1>3. CASE EncodeAudio
  <2>1. upload' = upload /\ StageWork' < StageWork
    BY <1>3 DEF EncodeAudio, Write, StageWork
  <2>. QED
    BY <1>0, <2>1, StageOn DEF WindsDown
<1>4. CASE EncodeLadder
  <2>1. upload' = upload /\ StageWork' < StageWork
    BY <1>4 DEF EncodeLadder, Write, StageWork
  <2>. QED
    BY <1>0, <2>1, StageOn DEF WindsDown
<1>5. CASE Combine
  <2>1. upload' = upload /\ StageWork' < StageWork
    BY <1>5 DEF Combine, Write, StageWork
  <2>. QED
    BY <1>0, <2>1, StageOn DEF WindsDown
<1>6. CASE Tidy
  <2>1. upload' = upload /\ StageWork' < StageWork
    BY <1>6 DEF Tidy, Write, StageWork
  <2>. QED
    BY <1>0, <2>1, StageOn DEF WindsDown
<1>7. CASE ExtractThumbnail
  <2>1. upload' = upload /\ StageWork' < StageWork
    BY <1>7 DEF ExtractThumbnail, Write, StageWork
  <2>. QED
    BY <1>0, <2>1, StageOn DEF WindsDown
<1>8. CASE Uploaded
  <2>1. upload' = upload /\ StageWork' < StageWork
    BY <1>8 DEF Uploaded, StageWork
  <2>. QED
    BY <1>0, <2>1, StageOn DEF WindsDown
<1>9. CASE Commit
  <2>1. upload' = upload /\ StageWork' < StageWork
    BY <1>9 DEF Commit, StageWork
  <2>. QED
    BY <1>0, <2>1, StageOn DEF WindsDown
<1>10. CASE Cleanup
  <2>1. upload' = upload /\ StageWork' < StageWork
    BY <1>10 DEF Cleanup, StageWork
  <2>. QED
    BY <1>0, <2>1, StageOn DEF WindsDown
<1>11. CASE CleanupFails
  <2>1. upload' = upload /\ StageWork' < StageWork
    BY <1>11 DEF CleanupFails, StageWork
  <2>. QED
    BY <1>0, <2>1, StageOn DEF WindsDown
<1>12. CASE Fail
  <2>1. stage \in Stage \ {"idle", "cleanup", "upload"} /\ upload' = upload
    BY <1>0, <1>12 DEF Fail, Throw, TypeOK
  <2>2. StageWork' = 1
    BY <1>12 DEF Fail, Throw, StageWork
  <2>3. StageWork > 1
    BY <2>1 DEF StageWork, Stage
  <2>. QED
    BY <1>0, <2>1, <2>2, <2>3, StageOn DEF WindsDown
<1>13. CASE List
  BY <1>0, <1>13, ListOn DEF WindsDown, List
<1>14. CASE Crash
  BY <1>0, <1>14, CrashOn DEF WindsDown
<1>15. ASSUME NEW r \in Runs, NEW f \in Artifacts, Open(r, f)
       PROVE  WindsDown
  <2>1. StageWork' <= StageWork
    <3>1. StageWork' = StageWork
      BY <1>15 DEF Open, StageWork
    <3>. QED
      BY <1>0, <3>1, WorkIsNat
  <2>. QED
    BY <1>0, <1>15, <2>1, TaskOn DEF Open, WindsDown
<1>16. ASSUME NEW r \in Runs, NEW f \in Artifacts, Put(r, f)
       PROVE  WindsDown
  <2>1. StageWork' <= StageWork
    <3>1. StageWork' = StageWork
      BY <1>16 DEF Put, StageWork
    <3>. QED
      BY <1>0, <3>1, WorkIsNat
  <2>. QED
    BY <1>0, <1>16, <2>1, TaskOn DEF Put, WindsDown
<1>17. ASSUME NEW r \in Runs, NEW f \in Artifacts, UploadFails(r, f)
       PROVE  WindsDown
  <2>1. StageWork' <= StageWork
    <3>1. CASE stage' = stage
      <4>1. StageWork' = StageWork
        BY <3>1 DEF StageWork
      <4>. QED
        BY <1>0, <4>1, WorkIsNat
    <3>2. CASE stage = "upload" /\ stage' = "cleanup"
      BY <3>2 DEF StageWork
    <3>. QED
      BY <1>17, <3>1, <3>2 DEF UploadFails
  <2>. QED
    BY <1>0, <1>17, <2>1, TaskOn DEF UploadFails, Broken, WindsDown
<1>18. CASE Begin \/ \E s \in Sources : Replace(s)
  BY <1>18 DEF WindsDown
<1>. QED
  BY <1>1, <1>2, <1>3, <1>4, <1>5, <1>6, <1>7, <1>8, <1>9, <1>10, <1>11, <1>12, <1>13, <1>14, <1>15, <1>16, <1>17, <1>18
  DEF Next, Work, Transferring, Transfer

(* A run ends: whatever fails, each step that is not the delivery of a job to
   an idle worker, or a new original, shrinks WorkLeft, which is a number and
   0 only at rest.  What is left of ComesToRest is that a step is taken, which
   is the fairness of ffmpeg, the disk and R2. *)
THEOREM RunsEnd ==
  Spec => [][WindsDown]_vars /\ [](WorkLeft \in Nat /\ (WorkLeft = 0 <=> AtRest))
<1>1. IInv => WorkLeft \in Nat /\ (WorkLeft = 0 <=> AtRest)
  BY WorkIsNat DEF IInv
<1>. QED
  BY <1>1, WindStep, InvHolds, PTL DEF Spec
=============================================================================
