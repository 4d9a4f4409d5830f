------------------------- MODULE SnapshotServerProofs -------------------------
(***************************************************************************)
(* Proofs about the snapshot server's main (SnapshotServer), for every    *)
(* chain, start slots and snapshot listings satisfying BlocksAssumption   *)
(* and ConstantsAssumption.                                                *)
(***************************************************************************)
EXTENDS SnapshotServer, BlockStreamProofs, TLAPS

-----------------------------------------------------------------------------
(* What fetch_block_parent_slot and the stream's start give.                *)

LEMMA ParentFacts ==
    ASSUME NEW s \in StartSlots
    PROVE  /\ ParentSlot(s) \in Blocks
           /\ ParentSlot(s) < s
           /\ \A b \in Blocks : b < s => b <= ParentSlot(s)
<1> DEFINE T == {b \in Blocks : b < s}
<1>1. s \in Nat /\ T \subseteq Nat /\ T # {}
      BY BlocksAssumption, ConstantsAssumption
<1> DEFINE D == {s - b : b \in T}
<1>2. D \subseteq Nat /\ D # {}
      BY <1>1
<1>3. PICK d \in D : \A e \in D : d <= e
      BY <1>2, NatSetHasLeast
<1>4. PICK p \in T : d = s - p
      OBVIOUS
<1>5. \A b \in T : b <= p
      <2> TAKE b \in T
      <2>1. s - b \in D
            OBVIOUS
      <2>2. s - p <= s - b
            BY <1>3, <1>4, <2>1
      <2> QED
          BY <1>1, <2>2
<1>6. Max(T) = p
      BY <1>1, <1>5, MaxIsGreatest
<1> QED
    BY <1>5, <1>6 DEF ParentSlot

\* With --start-slot s, the stream that starts after s's parent begins
\* with s.
LEMMA FirstAfterParent ==
    ASSUME NEW s \in StartSlots
    PROVE  FirstStreamed(ParentSlot(s)) = s
<1>1. s \in Blocks /\ Blocks \subseteq Nat
      BY BlocksAssumption, ConstantsAssumption
<1>2. /\ ParentSlot(s) \in Blocks
      /\ ParentSlot(s) < s
      /\ \A b \in Blocks : b < s => b <= ParentSlot(s)
      BY ParentFacts
<1> DEFINE P == ParentSlot(s)
      S == {c \in Blocks : c > P}
<1>3. s \in S
      BY <1>1, <1>2 DEF S, P
<1>4. ASSUME NEW b \in S PROVE s <= b
      <2>1. b \in Blocks /\ b > P /\ P \in Nat
            BY <1>1, <1>2 DEF S, P
      <2>2. ~(b < s)
            BY <1>1, <1>2, <2>1 DEF P
      <2> QED
          BY <1>1, <2>1, <2>2
<1>5. S \subseteq Int
      <2>1. S \subseteq Blocks
            BY Zenon DEF S
      <2>2. ASSUME NEW x \in S PROVE x \in Int
            <3>1. x \in Nat
                  BY <1>1, <2>1
            <3> QED
                BY <3>1
      <2> QED
          BY <2>2
<1>6. Min(S) = s
      BY <1>3, <1>4, <1>5, MinIsLeast
<1> QED
    BY <1>6 DEF FirstStreamed

\* In a listing in slot order, the last file has the greatest end slot.
LEMMA LastIsGreatest ==
    ASSUME NEW f \in SnapshotListings, f # <<>>
    PROVE  Max({f[i] : i \in DOMAIN f}) = f[Len(f)]
<1>1. f \in Seq(Nat) /\ Len(f) \in DOMAIN f
      BY ConstantsAssumption
<1>2. \A i \in DOMAIN f : f[i] <= f[Len(f)]
      BY <1>1, ConstantsAssumption
<1>3. {f[i] : i \in DOMAIN f} \subseteq Int
      BY <1>1
<1> QED
    BY <1>1, <1>2, <1>3, MaxIsGreatest

-----------------------------------------------------------------------------
\* The slot main has chosen, as SelectLastIndexedSlot chooses it.
Chosen ==
    /\ startSlot # NoSlot => lastIndexedSlot = ParentSlot(startSlot)
    /\ startSlot = NoSlot /\ files # <<>> => lastIndexedSlot = files[Len(files)]

\* The body of the /download response: every byte read has been sent, and
\* a body that ended normally has read the whole stream.
BodyIntact ==
    /\ download.sent = download.pos
    /\ download.pos <= Len(download.items)
    /\ download.state = "complete" => download.pos = Len(download.items)

\* The inductive invariant: once main is past the choice (about to spawn,
\* or the snapshotter exists), lastIndexedSlot is the chosen slot; the
\* download's body is intact; and when main is about to abort the server,
\* the snapshotter has ended.
IInv ==
    /\ TypeOK
    /\ BodyIntact
    /\ pc \in {"setup", "slot"} => snapshotter = "none"
    /\ pc = "spawn" => Chosen
    /\ snapshotter # "none" => Chosen
    /\ pc = "abort_server" => snapshotter \in {"cancelled", "panicked"}

LEMMA InitIInv == Init => IInv
BY DEF Init, IInv, TypeOK, NoSlot, BodyIntact, NoDownload

LEMMA NextIInv == IInv /\ [Next]_vars => IInv'
<1> SUFFICES ASSUME IInv, [Next]_vars PROVE IInv'
    OBVIOUS
<1> USE DEF IInv, TypeOK, BodyIntact
<1>1. CASE SelectLastIndexedSlot
      <2>1. startSlot # NoSlot => ParentSlot(startSlot) \in Nat
            BY ParentFacts, BlocksAssumption DEF NoSlot
      <2>2. files # <<>> => files[Len(files)] \in Nat
            BY ConstantsAssumption
      <2>3. NetworkStartSlots \subseteq Nat
            BY ConstantsAssumption
      <2>4. /\ pc = "slot" /\ pc' = "spawn"
            /\ UNCHANGED <<download, startSlot, files, snapshotter, server,
                           status>>
            BY <1>1 DEF SelectLastIndexedSlot
      <2>5. Chosen'
            <3>1. CASE startSlot # NoSlot
                  <4>1. lastIndexedSlot' = ParentSlot(startSlot)
                        BY <1>1, <3>1 DEF SelectLastIndexedSlot
                  <4> QED
                      BY <2>4, <3>1, <4>1 DEF Chosen
            <3>2. CASE startSlot = NoSlot /\ files # <<>>
                  <4>1. lastIndexedSlot' = files[Len(files)]
                        BY <1>1, <3>2 DEF SelectLastIndexedSlot
                  <4> QED
                      BY <2>4, <3>2, <4>1 DEF Chosen
            <3>3. CASE startSlot = NoSlot /\ files = <<>>
                  BY <2>4, <3>3 DEF Chosen
            <3> QED
                BY <3>1, <3>2, <3>3
      <2>6. lastIndexedSlot' \in {NoSlot} \cup Nat
            <3>1. CASE startSlot # NoSlot
                  <4>1. lastIndexedSlot' = ParentSlot(startSlot)
                        BY <1>1, <3>1 DEF SelectLastIndexedSlot
                  <4> QED
                      BY <2>1, <3>1, <4>1
            <3>2. CASE startSlot = NoSlot /\ files # <<>>
                  <4>1. lastIndexedSlot' = files[Len(files)]
                        BY <1>1, <3>2 DEF SelectLastIndexedSlot
                  <4> QED
                      BY <2>2, <3>2, <4>1
            <3>3. CASE startSlot = NoSlot /\ files = <<>>
                  <4>1. lastIndexedSlot' \in NetworkStartSlots
                        BY <1>1, <3>3 DEF SelectLastIndexedSlot
                  <4> QED
                      BY <2>3, <4>1
            <3> QED
                BY <3>1, <3>2, <3>3
      <2> QED
          BY <2>4, <2>5, <2>6
<1>2. CASE CreateSnapshotDir
      BY <1>2 DEF CreateSnapshotDir, Chosen
<1>3. CASE SpawnTasks
      BY <1>3 DEF SpawnTasks, Chosen
<1>4. CASE AbortSnapshotter
      BY <1>4 DEF AbortSnapshotter, Aborted, Chosen
<1>5. CASE JoinSnapshotter
      BY <1>5 DEF JoinSnapshotter, Chosen
<1>6. CASE AbortServer
      BY <1>6 DEF AbortServer, Aborted, Chosen
<1>7. CASE JoinServer
      BY <1>7 DEF JoinServer, Chosen
<1>8. CASE Signal
      BY <1>8 DEF Signal, Chosen
<1>9. CASE TaskCancelled
      BY <1>9 DEF TaskCancelled, Chosen
<1>10. CASE SnapshotterPanics
       BY <1>10 DEF SnapshotterPanics, Chosen
<1>11. CASE ServerEnds
       BY <1>11 DEF ServerEnds, Chosen
<1>12. CASE HandleRequest
       <2>1. SnapshotStreams \subseteq Seq({"byte", "err"})
             BY ConstantsAssumption
       <2> QED
           BY <1>12, <2>1 DEF HandleRequest, Route, Chosen, BodyIntact,
              Downloads
<1>13. CASE UNCHANGED vars
       BY <1>13 DEF vars, Chosen
<1>18. CASE ListSnapshotFilesFails
       BY <1>18 DEF ListSnapshotFilesFails, Chosen
<1>14. CASE SendByte
       <2>1. download \in Downloads
             BY <1>14 DEF SendByte, NoDownload
       <2>2. download' = [items |-> download.items, pos |-> download.pos + 1,
                          sent |-> download.sent + 1, state |-> "streaming"]
             BY <1>14, <2>1 DEF SendByte, Downloads
       <2>4. download.pos < Len(download.items)
             BY <1>14 DEF SendByte
       <2>3. download' \in Downloads /\ BodyIntact'
             BY <2>1, <2>2, <2>4 DEF Downloads, BodyIntact
       <2> QED
           BY <1>14, <2>3 DEF SendByte, Chosen
<1>15. CASE StreamError
       <2>1. download \in Downloads
             BY <1>15 DEF StreamError, NoDownload
       <2> QED
           BY <1>15, <2>1 DEF StreamError, Chosen, BodyIntact, Downloads
<1>16. CASE EndOfBody
       <2>1. download \in Downloads
             BY <1>16 DEF EndOfBody, NoDownload
       <2> QED
           BY <1>16, <2>1 DEF EndOfBody, Chosen, BodyIntact, Downloads
<1>17. CASE ConnectionDropped
       <2>1. download \in Downloads
             BY <1>17 DEF ConnectionDropped, NoDownload
       <2> QED
           BY <1>17, <2>1 DEF ConnectionDropped, Chosen, BodyIntact, Downloads
<1> QED
    BY <1>1, <1>2, <1>3, <1>4, <1>5, <1>6, <1>7, <1>8, <1>9, <1>10, <1>11,
       <1>12, <1>13, <1>14, <1>15, <1>16, <1>17, <1>18 DEF Next, MainStep

\* The chosen slot makes the snapshotter start right.
LEMMA IInvStartsRight == IInv => SnapshotterStartsRight
<1> SUFFICES ASSUME IInv PROVE SnapshotterStartsRight
    OBVIOUS
<1>1. ASSUME snapshotter # "none", startSlot # NoSlot
      PROVE  FirstStreamed(lastIndexedSlot) = startSlot
      <2>1. startSlot \in StartSlots /\ lastIndexedSlot = ParentSlot(startSlot)
            BY <1>1 DEF IInv, TypeOK, Chosen
      <2> QED
          BY <2>1, FirstAfterParent
<1>2. ASSUME snapshotter # "none", startSlot = NoSlot, files # <<>>
      PROVE  FirstStreamed(lastIndexedSlot) = FirstBlockFrom(LastSnapshotEnd + 1)
      <2>1. files \in SnapshotListings /\ lastIndexedSlot = files[Len(files)]
            BY <1>2 DEF IInv, TypeOK, Chosen
      <2>5. files \in Seq(Nat) /\ Len(files) \in DOMAIN files
            BY <1>2, <2>1, ConstantsAssumption
      <2>2. lastIndexedSlot = LastSnapshotEnd
            BY <1>2, <2>1, LastIsGreatest DEF LastSnapshotEnd
      <2>3. lastIndexedSlot \in Int /\ Blocks \subseteq Int
            BY <2>1, <2>5, BlocksAssumption
      <2>6. \A b \in Blocks : b > lastIndexedSlot <=> b >= lastIndexedSlot + 1
            BY <2>3
      <2>4. {b \in Blocks : b > lastIndexedSlot}
              = {b \in Blocks : b >= lastIndexedSlot + 1}
            BY <2>6, Zenon
      <2> QED
          BY <2>2, <2>4 DEF FirstStreamed, FirstBlockFrom
<1> QED
    BY <1>1, <1>2 DEF SnapshotterStartsRight

(***************************************************************************)
(* Every reachable state of the snapshot server's main is well typed.     *)
(***************************************************************************)
THEOREM TypeCorrect == Spec => []TypeOK
<1>1. IInv => TypeOK
      BY DEF IInv
<1> QED
    BY InitIInv, NextIInv, <1>1, PTL DEF Spec

(***************************************************************************)
(* For every chain and every listing in slot order, the snapshotter main  *)
(* spawns resumes at the right block: with --start-slot at that slot's    *)
(* block (main passes its parent), and otherwise right after the last     *)
(* snapshot's end slot.                                                    *)
(***************************************************************************)
THEOREM ResumesRight == Spec => []SnapshotterStartsRight
BY InitIInv, NextIInv, IInvStartsRight, PTL DEF Spec

=============================================================================
