-------------------------- MODULE VmObserverRings ---------------------------
(***************************************************************************)
(* The inductive invariant of VmObserver, first part: the arithmetic of    *)
(* the two rings, the steps of the host that open, call, wait and receive, *)
(* and those of the client.                                                *)
(***************************************************************************)
EXTENDS VmObserver, TLAPS

-----------------------------------------------------------------------------
(* Arithmetic of the two rings.                                            *)

(* Inc stays in the ring. *)
LEMMA IncValue ==
    ASSUME NEW i \in FrameIndex
    PROVE  /\ Inc(i) = IF i + 1 = NumCommandFrames THEN 0 ELSE i + 1
           /\ Inc(i) \in FrameIndex
  <1>1. (i + 1) % NumCommandFrames = IF i + 1 < NumCommandFrames THEN i + 1 ELSE i + 1 - NumCommandFrames
    BY QueueAssumption DEF FrameIndex
  <1> QED BY <1>1, QueueAssumption DEF Inc, FrameIndex

(* Distances are ring positions and identify frames. *)
LEMMA DistType ==
    ASSUME NEW a \in FrameIndex, NEW b \in FrameIndex
    PROVE  /\ Dist(a, b) \in FrameIndex
           /\ Dist(a, b) = 0 <=> a = b
  BY QueueAssumption DEF Dist, FrameIndex

(* No two frames are equally far from the same frame. *)
LEMMA DistInjective ==
    ASSUME NEW a \in FrameIndex, NEW b \in FrameIndex, NEW c \in FrameIndex,
           Dist(a, b) = Dist(a, c)
    PROVE  b = c
  BY QueueAssumption DEF Dist, FrameIndex

(* Moving the origin one frame forward shortens every other distance by one. *)
LEMMA DistIncOrigin ==
    ASSUME NEW a \in FrameIndex, NEW b \in FrameIndex, a # b
    PROVE  Dist(Inc(a), b) = Dist(a, b) - 1
  BY IncValue, QueueAssumption DEF Dist, FrameIndex

(* The old origin becomes the most distant frame. *)
LEMMA DistIncSelf ==
    ASSUME NEW a \in FrameIndex
    PROVE  Dist(Inc(a), a) = NumCommandFrames - 1
  BY IncValue, QueueAssumption DEF Dist, FrameIndex

(* Moving the target one frame forward lengthens the distance by one. *)
LEMMA DistIncTarget ==
    ASSUME NEW a \in FrameIndex, NEW b \in FrameIndex, Dist(a, b) < NumCommandFrames - 1
    PROVE  Dist(a, Inc(b)) = Dist(a, b) + 1
  BY IncValue, QueueAssumption DEF Dist, FrameIndex

(* Taking the first element off a queue. *)
LEMMA HeadTailFacts ==
    ASSUME NEW S, NEW q \in Seq(S), q # <<>>
    PROVE  /\ Head(q) = q[1] /\ Head(q) \in S
           /\ Len(q) \in Nat /\ Len(q) >= 1
           /\ Tail(q) \in Seq(S) /\ Len(Tail(q)) = Len(q) - 1
           /\ \A k \in 1 .. Len(q) - 1 : Tail(q)[k] = q[k + 1]
  OBVIOUS

(* Adding an element at the end of a queue. *)
LEMMA AppendFacts ==
    ASSUME NEW S, NEW q \in Seq(S), NEW e \in S
    PROVE  /\ Append(q, e) \in Seq(S) /\ Len(q) \in Nat
           /\ Len(Append(q, e)) = Len(q) + 1
           /\ \A k \in 1 .. Len(q) : Append(q, e)[k] = q[k]
           /\ Append(q, e)[Len(q) + 1] = e
  OBVIOUS

-----------------------------------------------------------------------------
(* Steps that touch neither of the rings.                                  *)

(* The state of the rings, as far as the host and the client agree on it. *)
quietVars == <<next, current, frames, pages, hostRead, hostCached, num_queued,
               page_frames_allocated, next_page_frame,
               clientRead, clientCached, clientFrame, clientPc>>

(* Steps that leave the host's indices, the frames and the pages alone. *)
LEMMA PagesKept ==
    ASSUME PageInv, MemoryInv, Prepared' = Prepared,
           UNCHANGED <<next, frames, pages, hostRead, page_frames_allocated, next_page_frame>>
    PROVE  PageInv' /\ MemoryInv' /\ Live' = Live
  <1>1. \A f : Ahead(f)' = Ahead(f) /\ Behind(f)' = Behind(f) /\ PagesOf(f)' = PagesOf(f)
    BY DEF Ahead, Dist, Behind, PageDist, PagesOf
  <1>2. LiveLen' = LiveLen
    BY DEF LiveLen, Ahead, Dist
  <1>3. Live' = Live
    BY <1>1, <1>2 DEF Live
  <1>4. PageInv'
    BY <1>1, <1>2, <1>3 DEF PageInv
  <1>5. MemoryInv'
    BY <1>1, <1>3 DEF MemoryInv
  <1> QED BY <1>3, <1>4, <1>5

(* Quiet steps keep the part of the invariant that is about the rings. *)
LEMMA QuietStep ==
    ASSUME RingInv, DoneInv, PageInv, MemoryInv, UNCHANGED quietVars,
           pc = "publish" <=> pc' = "publish"
    PROVE  RingInv' /\ DoneInv' /\ PageInv' /\ MemoryInv'
  <1>1. Prepared' = Prepared
    BY DEF Prepared
  <1>2. RingInv'
    BY DEF quietVars, RingInv, Ahead, Dist
  <1>3. DoneInv'
    BY DEF quietVars, DoneInv, Ahead, Dist
  <1>4. PageInv' /\ MemoryInv'
    BY <1>1, PagesKept DEF quietVars
  <1> QED BY <1>2, <1>3, <1>4

(* The types of the quiet variables. *)
QuietTypeOK ==
    /\ next \in FrameIndex /\ current \in FrameIndex
    /\ frames \in [FrameIndex -> [req : Request, first : PageIndex, len : 0 .. MaxLen, done : BOOLEAN]]
    /\ pages \in [PageIndex -> [req : Request, done : BOOLEAN]]
    /\ hostRead \in FrameIndex /\ hostCached \in FrameIndex
    /\ num_queued \in 0 .. NumCommandFrames - 1
    /\ page_frames_allocated \in 0 .. NumPageFrames - 1
    /\ next_page_frame \in PageIndex
    /\ clientRead \in FrameIndex /\ clientCached \in FrameIndex /\ clientFrame \in FrameIndex
    /\ clientPc \in {"poll", "observe", "mark"}

IterTypeOK ==
    /\ waiting \in 0 .. WaitLimit - 1
    /\ num_to_discard \in 0 .. NumCommandFrames - 1
    /\ pc \in {"idle", "discard", "iter", "fill", "publish", "recv", "crashed", "exhausted"}
    /\ batch \in 0 .. MaxBatches /\ total \in 0 .. MaxBatch /\ remaining \in 0 .. MaxBatch
    /\ queue \in Seq(Request) /\ entry \in Request
    /\ alive \in BOOLEAN

(* The type invariant is the two parts together. *)
LEMMA TypeParts == TypeOK <=> QuietTypeOK /\ IterTypeOK
  BY DEF TypeOK, QuietTypeOK, IterTypeOK

(* Unchanged variables keep their types. *)
LEMMA QuietType ==
    ASSUME QuietTypeOK, UNCHANGED quietVars
    PROVE  QuietTypeOK'
  BY DEF QuietTypeOK, quietVars

(* An empty queue has no pages allocated, hence is not full. *)
LEMMA EmptyNotFull ==
    ASSUME TypeOK, RingInv, PageInv, num_queued = 0, pc # "publish"
    PROVE  ~QueueFull
  BY QueueAssumption DEF TypeOK, RingInv, PageInv, QueueFull, LiveLen, Prepared

(* batch_iter is entered: only the caller's variables change. *)
LEMMA BatchIterInv ==
    ASSUME IInv, NEW n \in 0 .. MaxBatch, BatchIter(n)
    PROVE  IInv'
  <1> USE DEF BatchIter, ringVars, hostQVars, countVars, clientVars
  <1>0. UNCHANGED quietVars /\ pc # "publish" /\ pc' # "publish"
    BY DEF quietVars
  <1>1. RingInv' /\ DoneInv' /\ PageInv' /\ MemoryInv'
    BY <1>0, QuietStep DEF IInv
  <1>2. QuietTypeOK'
    BY <1>0, QuietType, TypeParts DEF IInv
  <1>3. IterTypeOK'
    BY QueueAssumption, TypeParts DEF IInv, IterTypeOK, Request, NoRequest
  <1>4. Held = 0 /\ Held' = 0 /\ Prepared' = 0 /\ Len(queue) = 0 /\ Len(queue') = 0
    BY DEF IInv, OwnerInv, Held, Prepared, TypeOK
  <1>5. OwnerInv'
    BY <1>4, QueueAssumption DEF IInv, OwnerInv, TypeOK
  <1>6. RoomInv' /\ ResultBelongsToRequest' /\ NeverOutOfPages' /\ NoneOnlyAtEnd'
    BY DEF RoomInv, ResultBelongsToRequest, NeverOutOfPages, NoneOnlyAtEnd, NoResult
  <1> QED BY <1>1, <1>2, <1>3, <1>5, <1>6, TypeParts DEF IInv, TypeOK, QuietTypeOK, IterTypeOK

(* batch_iter finds nothing to discard: the queue is empty. *)
LEMMA DiscardDoneInv == IInv /\ DiscardDone => IInv'
  <1> SUFFICES ASSUME IInv, DiscardDone PROVE IInv'
    OBVIOUS
  <1> USE DEF DiscardDone, ringVars, hostQVars, countVars, clientVars
  <1>0. UNCHANGED quietVars /\ pc # "publish" /\ pc' # "publish"
    BY DEF quietVars
  <1>1. RingInv' /\ DoneInv' /\ PageInv' /\ MemoryInv'
    BY <1>0, QuietStep DEF IInv
  <1>2. TypeOK'
    BY <1>0, QuietType, TypeParts DEF IInv, IterTypeOK, TypeOK, QuietTypeOK
  <1>4. Held = 0 /\ Held' = 0 /\ Prepared = 0 /\ Prepared' = 0 /\ Len(queue) = 0
    BY DEF IInv, OwnerInv, Held, Prepared, TypeOK
  <1>5. OwnerInv'
    BY <1>4 DEF IInv, OwnerInv, Ahead, Dist
  <1>6. num_queued = 0
    BY <1>4 DEF IInv, OwnerInv, TypeOK
  <1>7. RoomInv'
    BY <1>6, EmptyNotFull DEF IInv, RoomInv, QueueFull
  <1>8. ResultBelongsToRequest' /\ NeverOutOfPages' /\ NoneOnlyAtEnd'
    BY DEF IInv, ResultBelongsToRequest, NeverOutOfPages, NoneOnlyAtEnd, GoodResult
  <1> QED BY <1>1, <1>2, <1>5, <1>7, <1>8 DEF IInv

(* ObserveIter::next is entered. *)
LEMMA CallNextInv == IInv /\ CallNext => IInv'
  <1> SUFFICES ASSUME IInv, CallNext PROVE IInv'
    OBVIOUS
  <1> USE DEF CallNext, ringVars, hostQVars, countVars, clientVars
  <1>0. UNCHANGED quietVars /\ pc # "publish" /\ pc' # "publish"
    BY DEF quietVars
  <1>1. RingInv' /\ DoneInv' /\ PageInv' /\ MemoryInv'
    BY <1>0, QuietStep DEF IInv
  <1>2. TypeOK'
    BY <1>0, QuietType, TypeParts DEF IInv, IterTypeOK, TypeOK, QuietTypeOK
  <1>4. Held = 0 /\ Held' = 0 /\ Prepared = 0 /\ Prepared' = 0
    BY DEF IInv, OwnerInv, Held, Prepared, TypeOK
  <1>5. OwnerInv'
    BY <1>4 DEF IInv, OwnerInv, Ahead, Dist
  <1>7. RoomInv'
    BY DEF IInv, RoomInv, QueueFull
  <1>8. ResultBelongsToRequest' /\ NeverOutOfPages' /\ NoneOnlyAtEnd'
    BY DEF ResultBelongsToRequest, NeverOutOfPages, NoneOnlyAtEnd, NoResult
  <1> QED BY <1>1, <1>2, <1>5, <1>7, <1>8 DEF IInv

(* The fill loop ends; the oldest request, if any, is awaited. *)
LEMMA FillEndInv == IInv /\ FillEnd => IInv'
  <1> SUFFICES ASSUME IInv, FillEnd PROVE IInv'
    OBVIOUS
  <1>u. UNCHANGED <<ringVars, hostQVars, countVars, batch, total, remaining, clientVars>> /\ pc = "fill"
    BY DEF FillEnd
  <1>0. UNCHANGED quietVars /\ pc # "publish" /\ pc' # "publish"
    BY DEF FillEnd, quietVars, ringVars, hostQVars, countVars, clientVars
  <1>1. RingInv' /\ DoneInv' /\ PageInv' /\ MemoryInv'
    BY <1>0, QuietStep DEF IInv
  <1>2. QuietTypeOK'
    BY <1>0, QuietType, TypeParts DEF IInv
  <1>3. Held = 0 /\ Prepared = 0 /\ Prepared' = 0
    BY <1>0, <1>u DEF IInv, OwnerInv, Held, Prepared
  <1>4. CASE queue = <<>>
    <2>0. pc' = "iter" /\ result' = NoneResult /\ UNCHANGED <<queue, entry>> /\ (QueueFull \/ remaining = 0)
      BY <1>4 DEF FillEnd
    <2>1. Held' = 0 /\ Len(queue) = 0
      BY <1>3, <1>4, <2>0 DEF Held
    <2>2. OwnerInv'
      BY <1>3, <1>4, <1>u, <2>0, <2>1 DEF IInv, OwnerInv, Ahead, Dist, ringVars, hostQVars, countVars
    <2>3. RoomInv'
      BY <1>4, <1>u, <2>0 DEF IInv, RoomInv, QueueFull, countVars
    <2>4. ResultBelongsToRequest' /\ NeverOutOfPages' /\ NoneOnlyAtEnd'
      BY <1>4, <1>u, <2>0 DEF IInv, RoomInv, ResultBelongsToRequest, NeverOutOfPages, NoneOnlyAtEnd, NoneResult
    <2>5. IterTypeOK'
      BY <1>u, <2>0, TypeParts DEF IInv, IterTypeOK, countVars, clientVars
    <2> QED BY Zenon, <1>1, <1>2, <2>2, <2>3, <2>4, <2>5, TypeParts DEF IInv, TypeOK, QuietTypeOK, IterTypeOK
  <1>5. CASE queue # <<>>
    <2>0. pc' = "recv" /\ entry' = Head(queue) /\ queue' = Tail(queue) /\ UNCHANGED result
      BY <1>5 DEF FillEnd
    <2> DEFINE L == Len(queue)
    <2>a. queue \in Seq(Request) /\ num_to_discard \in Nat /\ total \in Nat /\ remaining \in Nat
      BY QueueAssumption DEF IInv, TypeOK
    <2>1. /\ L \in Nat /\ L >= 1
          /\ entry' = queue[1] /\ entry' \in Request
          /\ queue' \in Seq(Request) /\ Len(queue') = L - 1
          /\ \A k \in 1 .. L - 1 : queue'[k] = queue[k + 1]
      BY <1>5, <2>0, <2>a, HeadTailFacts
    <2>b. /\ num_queued = num_to_discard + L
          /\ remaining + L <= total
          /\ batch # 0
          /\ \A k \in 1 .. L : queue[k] = [batch |-> batch, index |-> total - remaining - L + k]
          /\ \A f \in FrameIndex : \A k \in 1 .. L :
                Ahead(f) = num_to_discard + k - 1 => frames[f].req = queue[k]
      BY <1>3, <1>u, <2>1, <2>a DEF IInv, OwnerInv
    <2>2. entry' = [batch |-> batch, index |-> total - remaining - L + 1]
      BY <2>1, <2>b
    <2>4. Held' = 1
      BY <2>2, <2>b DEF Held, NoRequest
    <2>c. /\ num_queued' = num_queued /\ num_to_discard' = num_to_discard /\ batch' = batch
          /\ total' = total /\ remaining' = remaining /\ frames' = frames
          /\ \A f \in FrameIndex : Ahead(f)' = Ahead(f)
      BY <1>u DEF Ahead, Dist, ringVars, hostQVars, countVars
    <2>5. OwnerInv'
      <3>1. num_queued' = num_to_discard' + Len(queue)' + Held'
        <4>1. /\ num_queued = num_to_discard + L /\ L \in Nat /\ num_to_discard \in Nat
              /\ Len(queue') = L - 1 /\ num_queued' = num_queued /\ num_to_discard' = num_to_discard
          BY <2>1, <2>a, <2>b, <2>c
        <4> QED BY <4>1, <2>4
      <3>2. remaining' + Len(queue') + Held' + Prepared' <= total'
        BY <1>3, <2>1, <2>4, <2>a, <2>b, <2>c
      <3>3. entry' = [batch |-> batch', index |-> total' - remaining' - Len(queue')]
        BY <2>1, <2>2, <2>a, <2>c
      <3>4. \A k \in 1 .. Len(queue') :
               queue'[k] = [batch |-> batch', index |-> total' - remaining' - Prepared' - Len(queue') + k]
        BY <1>3, <2>1, <2>a, <2>b, <2>c
      <3>5. \A f \in FrameIndex : Ahead(f)' = num_to_discard' => frames'[f].req = entry'
        BY <2>1, <2>a, <2>b, <2>c
      <3>6. \A f \in FrameIndex : \A k \in 1 .. Len(queue') :
               Ahead(f)' = num_to_discard' + Held' + k - 1 => frames'[f].req = queue'[k]
        BY <2>1, <2>4, <2>a, <2>b, <2>c
      <3> QED BY <3>1, <3>2, <3>3, <3>4, <3>5, <3>6, <2>0, <2>4, <2>b, <2>c DEF OwnerInv
    <2>6. RoomInv' /\ ResultBelongsToRequest' /\ NeverOutOfPages' /\ NoneOnlyAtEnd'
      <3>1. result.kind # "none"
        BY <1>5 DEF IInv, NoneOnlyAtEnd
      <3> QED BY <2>0, <3>1 DEF IInv, RoomInv, ResultBelongsToRequest, NeverOutOfPages, NoneOnlyAtEnd, GoodResult
    <2>7. IterTypeOK'
      BY <1>u, <2>0, <2>1, TypeParts DEF IInv, IterTypeOK, countVars, clientVars
    <2> QED BY Zenon, <1>1, <1>2, <2>5, <2>6, <2>7, TypeParts DEF IInv, TypeOK, QuietTypeOK, IterTypeOK
  <1> QED BY <1>4, <1>5

(* discard_pending: everything queued now has to be discarded. *)
LEMMA DropIterInv == IInv /\ DropIter => IInv'
  <1> SUFFICES ASSUME IInv, DropIter PROVE IInv'
    OBVIOUS
  <1> USE DEF DropIter, ringVars, hostQVars, countVars, clientVars
  <1>0. UNCHANGED quietVars /\ pc # "publish" /\ pc' # "publish"
    BY DEF quietVars
  <1>1. RingInv' /\ DoneInv' /\ PageInv' /\ MemoryInv'
    BY <1>0, QuietStep DEF IInv
  <1>2. TypeOK'
    BY <1>0, QuietType, TypeParts, QueueAssumption DEF IInv, IterTypeOK, TypeOK, QuietTypeOK
  <1>3. Held' = 0 /\ Prepared' = 0 /\ Len(queue') = 0
    BY DEF IInv, OwnerInv, Held, Prepared, TypeOK
  <1>4. OwnerInv'
    BY <1>3 DEF IInv, OwnerInv, TypeOK
  <1>5. RoomInv' /\ ResultBelongsToRequest' /\ NeverOutOfPages' /\ NoneOnlyAtEnd'
    BY DEF RoomInv, ResultBelongsToRequest, NeverOutOfPages, NoneOnlyAtEnd, NoResult
  <1> QED BY <1>1, <1>2, <1>4, <1>5 DEF IInv

(* A poll that finds nothing refreshes the cached position at most. *)
LEMMA NotReceivedQuiet ==
    ASSUME IInv, NEW to, NotReceived(to), to # "publish", to # "exhausted", pc # "publish",
           UNCHANGED <<ringVars, clientVars>>
    PROVE  /\ RingInv' /\ DoneInv' /\ PageInv' /\ MemoryInv' /\ QuietTypeOK'
           /\ pc' \in {to, "crashed"} /\ waiting' \in 0 .. WaitLimit - 1
           /\ UNCHANGED quietVars /\ UNCHANGED num_to_discard
  <1>1. UNCHANGED quietVars /\ UNCHANGED num_to_discard
    BY DEF NotReceived, quietVars, ringVars, clientVars, Available, Refreshed
  <1>2. pc' \in {to, "crashed"}
    BY DEF NotReceived
  <1>3. waiting \in 0 .. WaitLimit - 1 /\ waiting' = (waiting + 1) % WaitLimit
    BY DEF NotReceived, IInv, TypeOK
  <1>4. waiting' \in 0 .. WaitLimit - 1
    BY <1>3, QueueAssumption
  <1>5. QuietTypeOK'
    BY <1>1, QuietType, TypeParts DEF IInv
  <1> QED BY <1>1, <1>2, <1>4, <1>5, QuietStep DEF IInv

(* batch_iter polls in vain, and leaves its loop only with room in the queue. *)
LEMMA DiscardWaitInv == IInv /\ DiscardWait => IInv'
  <1> SUFFICES ASSUME IInv, DiscardWait PROVE IInv'
    OBVIOUS
  <1> DEFINE to == IF QueueFull THEN "discard" ELSE "iter"
  <1>0. /\ pc = "discard" /\ NotReceived(to)
        /\ UNCHANGED <<ringVars, clientVars>>
        /\ UNCHANGED <<batch, total, remaining, queue, entry, result>>
    BY DEF DiscardWait
  <1>1. to # "publish" /\ to # "exhausted"
    OBVIOUS
  <1> HIDE DEF to
  <1>2. /\ RingInv' /\ DoneInv' /\ PageInv' /\ MemoryInv' /\ QuietTypeOK'
        /\ pc' \in {to, "crashed"} /\ waiting' \in 0 .. WaitLimit - 1
        /\ UNCHANGED quietVars /\ UNCHANGED num_to_discard
    BY <1>0, <1>1, NotReceivedQuiet
  <1>3. pc' \in {"iter", "discard", "crashed"} /\ (pc' = "iter" => ~QueueFull)
    BY <1>2 DEF to
  <1>4. IterTypeOK'
    BY <1>0, <1>2, <1>3, TypeParts DEF IInv, IterTypeOK, clientVars
  <1>5. Held = 0 /\ Held' = 0 /\ Prepared = 0 /\ Prepared' = 0
    BY <1>0, <1>3 DEF IInv, OwnerInv, Held, Prepared
  <1>6. OwnerInv'
    BY <1>0, <1>2, <1>3, <1>5 DEF IInv, OwnerInv, Ahead, Dist, quietVars
  <1>7. RoomInv' /\ ResultBelongsToRequest' /\ NeverOutOfPages' /\ NoneOnlyAtEnd'
    BY <1>0, <1>2, <1>3 DEF IInv, RoomInv, ResultBelongsToRequest, NeverOutOfPages, NoneOnlyAtEnd,
                            GoodResult, QueueFull, quietVars
  <1> QED BY Zenon, <1>2, <1>4, <1>6, <1>7, TypeParts DEF IInv, TypeOK, QuietTypeOK, IterTypeOK

(* ObserveIter::next polls in vain. *)
LEMMA RecvWaitInv == IInv /\ RecvWait => IInv'
  <1> SUFFICES ASSUME IInv, RecvWait PROVE IInv'
    OBVIOUS
  <1>0. /\ pc = "recv" /\ NotReceived("recv")
        /\ UNCHANGED <<ringVars, clientVars>>
        /\ UNCHANGED <<batch, total, remaining, queue, entry, result>>
    BY DEF RecvWait
  <1>2. /\ RingInv' /\ DoneInv' /\ PageInv' /\ MemoryInv' /\ QuietTypeOK'
        /\ pc' \in {"recv", "crashed"} /\ waiting' \in 0 .. WaitLimit - 1
        /\ UNCHANGED quietVars /\ UNCHANGED num_to_discard
    BY <1>0, NotReceivedQuiet
  <1>4. IterTypeOK'
    BY <1>0, <1>2, TypeParts DEF IInv, IterTypeOK, clientVars
  <1>5. Held' = Held /\ Prepared = 0 /\ Prepared' = 0
    BY <1>0, <1>2 DEF Held, Prepared
  <1>6. OwnerInv'
    BY <1>0, <1>2, <1>5 DEF IInv, OwnerInv, Ahead, Dist, quietVars
  <1>7. RoomInv' /\ ResultBelongsToRequest' /\ NeverOutOfPages' /\ NoneOnlyAtEnd'
    BY <1>0, <1>2 DEF IInv, RoomInv, ResultBelongsToRequest, NeverOutOfPages, NoneOnlyAtEnd, GoodResult
  <1> QED BY Zenon, <1>2, <1>4, <1>6, <1>7, TypeParts DEF IInv, TypeOK, QuietTypeOK, IterTypeOK

(* The death of the machine changes nothing in shared memory. *)
LEMMA VmDiesInv == IInv /\ VmDies => IInv'
  <1> SUFFICES ASSUME IInv, VmDies PROVE IInv'
    OBVIOUS
  <1>0. /\ UNCHANGED quietVars
        /\ UNCHANGED <<waiting, num_to_discard, pc, batch, total, remaining, queue, entry, result>>
        /\ alive' = FALSE
    BY DEF VmDies, ringVars, hostQVars, countVars, iterVars, quietVars
  <1>1. RingInv' /\ DoneInv' /\ PageInv' /\ MemoryInv'
    BY <1>0, QuietStep DEF IInv
  <1>2. IterTypeOK'
    BY Zenon, <1>0, TypeParts DEF IInv, IterTypeOK
  <1>3. TypeOK'
    BY Zenon, <1>0, <1>2, QuietType, TypeParts DEF IInv, TypeOK, QuietTypeOK, IterTypeOK
  <1>4. OwnerInv'
    BY <1>0 DEF IInv, quietVars, OwnerInv, Held, Prepared, Ahead, Dist
  <1>5. RoomInv' /\ ResultBelongsToRequest' /\ NeverOutOfPages' /\ NoneOnlyAtEnd'
    BY <1>0 DEF IInv, quietVars, RoomInv, ResultBelongsToRequest, NeverOutOfPages, NoneOnlyAtEnd, GoodResult, QueueFull
  <1> QED BY <1>1, <1>3, <1>4, <1>5 DEF IInv

-----------------------------------------------------------------------------
(* A result is received: the origin of the ring moves one frame.           *)

(* Every frame has a position on the ring. *)
LEMMA AheadType ==
    ASSUME TypeOK
    PROVE  /\ \A f \in FrameIndex : Ahead(f) \in 0 .. NumCommandFrames - 1 /\ (Ahead(f) = 0 <=> f = hostRead)
           /\ \A f, g \in FrameIndex : Ahead(f) = Ahead(g) => f = g
  BY Zenon, DistType, DistInjective DEF TypeOK, Ahead, FrameIndex

(* Every command has its first page, its length and its distance to the next page. *)
LEMMA BehindType ==
    ASSUME TypeOK, NEW f \in FrameIndex
    PROVE  /\ frames[f].first \in PageIndex /\ frames[f].len \in 0 .. MaxLen
           /\ frames[f].len \in Nat
           /\ Behind(f) \in 0 .. NumPageFrames - 1
  <1>1. frames[f].first \in PageIndex /\ frames[f].len \in 0 .. MaxLen /\ next_page_frame \in PageIndex
    BY DEF TypeOK
  <1>2. PageDist(frames[f].first, next_page_frame) \in 0 .. NumPageFrames - 1
    BY <1>1, QueueAssumption DEF PageDist, PageIndex
  <1> QED BY <1>1, <1>2, QueueAssumption DEF Behind

(* What receiving a result does to the two rings. *)
LEMMA ReceivedRings ==
    ASSUME IInv, Received, pc # "publish", pc' # "publish", UNCHANGED <<ringVars, clientVars>>
    PROVE  /\ RingInv' /\ DoneInv' /\ PageInv' /\ MemoryInv' /\ QuietTypeOK'
           /\ num_queued >= 1 /\ num_queued' = num_queued - 1
           /\ \A f \in FrameIndex : f # hostRead => Ahead(f)' = Ahead(f) - 1
           /\ Dist(hostRead', hostRead) = NumCommandFrames - 1
           /\ frames[hostRead].done /\ hostRead \in Live
  <1>0. /\ TypeOK /\ RingInv /\ DoneInv /\ PageInv /\ MemoryInv
        /\ UNCHANGED <<next, current, frames, pages, clientRead, clientCached, clientFrame,
                       clientPc, next_page_frame>>
    BY DEF Received, ringVars, clientVars, IInv
  <1>1. /\ hostRead \in FrameIndex /\ hostCached \in FrameIndex /\ current \in FrameIndex
        /\ clientRead \in FrameIndex /\ clientCached \in FrameIndex /\ next \in FrameIndex
        /\ clientFrame \in FrameIndex
    BY <1>0 DEF TypeOK
  <1>a. \A f \in FrameIndex : Ahead(f) \in 0 .. NumCommandFrames - 1 /\ (Ahead(f) = 0 <=> f = hostRead)
    BY <1>0, AheadType
  <1>2. /\ hostCached' \in {hostCached, current} /\ hostCached' # hostRead
        /\ Ahead(hostCached') <= Ahead(current)
    BY <1>0, <1>1, <1>a DEF Received, Available, Refreshed, RingInv
  <1>3. hostRead' = Inc(hostRead) /\ hostRead' \in FrameIndex /\ hostCached' \in FrameIndex
    BY <1>1, <1>2, IncValue DEF Received
  <1>4. /\ Ahead(hostCached') >= 1 /\ Ahead(current) >= 1 /\ Ahead(clientRead) >= 1
        /\ Ahead(clientCached) >= 1 /\ Ahead(next) >= 1
    BY <1>0, <1>1, <1>2, <1>3, <1>a, QueueAssumption DEF RingInv
  <1>5. hostRead # current /\ hostRead # clientRead /\ hostRead # clientCached /\ hostRead # next
    BY <1>1, <1>4, <1>a
  <1>6. \A f \in FrameIndex : f # hostRead => Ahead(f)' = Ahead(f) - 1
    BY <1>1, <1>3, DistIncOrigin DEF Ahead
  <1>7. Dist(hostRead', hostRead) = NumCommandFrames - 1
    BY <1>1, <1>3, DistIncSelf
  <1>8. /\ Dist(hostRead', hostCached') = Ahead(hostCached') - 1
        /\ Ahead(current)' = Ahead(current) - 1 /\ Ahead(clientRead)' = Ahead(clientRead) - 1
        /\ Ahead(clientCached)' = Ahead(clientCached) - 1 /\ Ahead(next)' = Ahead(next) - 1
    BY <1>0, <1>1, <1>2, <1>3, <1>5, DistIncOrigin DEF Ahead
  <1>9. num_queued >= 1 /\ num_queued' = num_queued - 1 /\ num_queued = Ahead(next)
    BY <1>0, <1>4 DEF RingInv, Received
  <1>10. RingInv'
    BY <1>0, <1>1, <1>2, <1>3, <1>8, <1>9, <1>a, QueueAssumption DEF RingInv, Ahead
  <1>11. DoneInv' /\ frames[hostRead].done
    <2>1. frames[hostRead].done
      BY <1>0, <1>1, <1>4, <1>a, QueueAssumption DEF DoneInv
    <2>2. ASSUME NEW f \in FrameIndex, Ahead(f)' < Ahead(current)' PROVE frames'[f].done
      <3>1. CASE f = hostRead
        BY <3>1, <2>1, <1>0
      <3>2. CASE f # hostRead
        BY <3>2, <2>2, <1>0, <1>1, <1>6, <1>8, <1>a, QueueAssumption DEF DoneInv
      <3> QED BY <3>1, <3>2
    <2> QED BY <2>1, <2>2, <1>0 DEF DoneInv
  <1>12. LiveLen = Ahead(next) /\ LiveLen' = Ahead(next) - 1 /\ hostRead \in Live
    BY <1>1, <1>4, <1>8, <1>a, QueueAssumption DEF LiveLen, Live, Prepared
  <1>13. \A f \in Live' : f # hostRead /\ f \in Live /\ Ahead(f)' = Ahead(f) - 1 /\ Ahead(f) >= 1
    BY <1>1, <1>6, <1>7, <1>12, <1>a, QueueAssumption DEF Live, Ahead
  <1>14. \A f \in FrameIndex : Behind(f)' = Behind(f)
    BY <1>0 DEF Behind, PageDist
  <1>15. /\ frames[hostRead].len \in 1 .. MaxLen
         /\ Behind(hostRead) = page_frames_allocated
         /\ frames[hostRead].len <= page_frames_allocated
         /\ page_frames_allocated' = page_frames_allocated - frames[hostRead].len
         /\ page_frames_allocated \in 0 .. NumPageFrames - 1
    BY <1>0, <1>1, <1>12, <1>a, QueueAssumption DEF PageInv, TypeOK, Received
  <1>16. PageInv'
    <2>1. ASSUME NEW f \in Live'
          PROVE  /\ frames'[f].len >= 1
                 /\ frames'[f].len <= Behind(f)'
                 /\ Behind(f)' <= page_frames_allocated'
                 /\ Ahead(f)' = 0 => Behind(f)' = page_frames_allocated'
                 /\ Ahead(f)' = LiveLen' - 1 => Behind(f)' = frames'[f].len
      <3>1. /\ f \in Live /\ f \in FrameIndex /\ hostRead \in Live /\ Ahead(hostRead) = 0
            /\ Ahead(f) >= 1 /\ Ahead(f)' = Ahead(f) - 1 /\ Ahead(f) \in Nat
        BY <2>1, <1>1, <1>12, <1>13, <1>a DEF Live
      <3>2. Behind(f) \in Nat /\ frames[f].len \in Nat
        BY <3>1, <1>0, BehindType, QueueAssumption
      <3>3. Behind(f) + frames[hostRead].len <= Behind(hostRead)
        BY <3>1, <1>0 DEF PageInv
      <3>4. Ahead(f)' = 0 => Behind(hostRead) = Behind(f) + frames[hostRead].len
        BY <3>1, <1>0 DEF PageInv
      <3>5. /\ frames[f].len >= 1 /\ frames[f].len <= Behind(f)
            /\ Ahead(f) = LiveLen - 1 => Behind(f) = frames[f].len
        BY <3>1, <1>0 DEF PageInv
      <3>6. Ahead(f)' = LiveLen' - 1 => Ahead(f) = LiveLen - 1
        BY <3>1, <1>1, <1>12, <1>a
      <3> QED BY <3>1, <3>2, <3>3, <3>4, <3>5, <3>6, <1>0, <1>14, <1>15
    <2>2. ASSUME NEW f \in Live', NEW g \in Live'
          PROVE  /\ Ahead(f)' < Ahead(g)' => Behind(g)' + frames'[f].len <= Behind(f)'
                 /\ Ahead(g)' = Ahead(f)' + 1 => Behind(f)' = Behind(g)' + frames'[f].len
      <3>1. /\ f \in Live /\ g \in Live /\ f \in FrameIndex /\ g \in FrameIndex
            /\ Ahead(f)' = Ahead(f) - 1 /\ Ahead(g)' = Ahead(g) - 1
            /\ Ahead(f) \in Nat /\ Ahead(g) \in Nat
        BY <1>13, <1>a DEF Live
      <3>2. /\ Ahead(f) < Ahead(g) => Behind(g) + frames[f].len <= Behind(f)
            /\ Ahead(g) = Ahead(f) + 1 => Behind(f) = Behind(g) + frames[f].len
        BY <3>1, <1>0 DEF PageInv
      <3>3. Behind(f)' = Behind(f) /\ Behind(g)' = Behind(g) /\ frames'[f].len = frames[f].len
        BY <3>1, <1>0, <1>14
      <3> QED BY <3>1, <3>2, <3>3
    <2>3. LiveLen' = 0 => page_frames_allocated' = 0
      BY <1>0, <1>1, <1>12, <1>15, <1>a, QueueAssumption DEF PageInv
    <2> QED BY <2>1, <2>2, <2>3 DEF PageInv
  <1>17. MemoryInv'
    <2>1. \A f : PagesOf(f)' = PagesOf(f)
      BY <1>0 DEF PagesOf
    <2> QED BY <2>1, <1>0, <1>13 DEF MemoryInv
  <1>18. QuietTypeOK'
    <2>1. num_queued' \in 0 .. NumCommandFrames - 1
      BY <1>0, <1>9, QueueAssumption DEF TypeOK
    <2>2. page_frames_allocated' \in 0 .. NumPageFrames - 1
      BY <1>15, QueueAssumption
    <2> QED BY <1>0, <1>3, <2>1, <2>2 DEF TypeOK, QuietTypeOK
  <1> QED BY <1>6, <1>7, <1>9, <1>10, <1>11, <1>12, <1>16, <1>17, <1>18

(* Discarding a result keeps the types of the host's counters. *)
LEMMA CountType ==
    ASSUME TypeOK, Received, num_to_discard \in 0 .. NumCommandFrames - 1, num_to_discard > 0,
           num_to_discard' = num_to_discard - 1, pc' \in {pc, "iter"},
           UNCHANGED clientVars, UNCHANGED <<batch, total, remaining, queue, entry>>
    PROVE  IterTypeOK'
  <1>1. num_to_discard' \in 0 .. NumCommandFrames - 1
    BY QueueAssumption
  <1>2. UNCHANGED <<waiting, alive>>
    BY DEF Received, clientVars
  <1>3. IterTypeOK
    BY TypeParts
  <1> QED BY <1>1, <1>2, <1>3 DEF IterTypeOK

(* batch_iter throws away a result of a dropped iterator. *)
LEMMA DiscardResultInv == IInv /\ DiscardResult => IInv'
  <1> SUFFICES ASSUME IInv, DiscardResult PROVE IInv'
    OBVIOUS
  <1>0. /\ pc = "discard" /\ num_to_discard > 0 /\ Received /\ num_to_discard' = num_to_discard - 1
        /\ pc' = IF num_to_discard = 1 THEN "iter" ELSE "discard"
        /\ UNCHANGED <<ringVars, clientVars>>
        /\ UNCHANGED <<batch, total, remaining, queue, entry, result>>
    BY DEF DiscardResult
  <1>1. /\ RingInv' /\ DoneInv' /\ PageInv' /\ MemoryInv' /\ QuietTypeOK'
        /\ num_queued >= 1 /\ num_queued' = num_queued - 1
    BY <1>0, ReceivedRings
  <1>2. Held = 0 /\ Held' = 0 /\ Prepared' = 0 /\ queue = <<>> /\ Len(queue) = 0 /\ Prepared = 0
    BY <1>0 DEF IInv, OwnerInv, Held, Prepared
  <1>3. num_to_discard \in 0 .. NumCommandFrames - 1 /\ num_queued \in Nat
    BY QueueAssumption DEF IInv, TypeOK
  <1>4. OwnerInv'
    <2>1. /\ num_queued = num_to_discard + Len(queue) + Held
          /\ remaining + Len(queue) + Held + Prepared <= total /\ (batch = 0 => pc = "idle")
      BY DEF IInv, OwnerInv
    <2>2. num_queued' = num_to_discard' + Len(queue)' + Held'
      <3>1. num_queued' = num_queued - 1 /\ num_to_discard' = num_to_discard - 1 /\ queue' = queue
        BY <1>0, <1>1
      <3> QED BY <3>1, <2>1, <1>2, <1>3
    <2>3. /\ pc' \in {"iter", "discard"} /\ queue' = <<>> /\ Len(queue)' = 0 /\ batch' # 0
          /\ remaining' + Len(queue)' + Held' + Prepared' <= total'
      BY <2>1, <1>0, <1>2
    <2> QED BY <2>2, <2>3, <1>2 DEF OwnerInv
  <1>5. IterTypeOK'
    BY <1>0, <1>3, CountType DEF IInv
  <1>6. TypeOK'
    BY <1>1, <1>5 DEF TypeOK, QuietTypeOK, IterTypeOK
  <1>7. RoomInv'
    <2>1. pc' = "iter" => num_queued' = 0
      BY <1>0, <1>1, <1>2, <1>3 DEF IInv, OwnerInv
    <2>2. num_queued' = 0 => page_frames_allocated' = 0
      <3>1. num_queued' = 0 => LiveLen' = 0
        BY <1>1, <1>2 DEF RingInv, LiveLen
      <3> QED BY Zenon, <3>1, <1>1 DEF PageInv
    <2> QED BY <2>1, <2>2, <1>0, QueueAssumption DEF RoomInv, QueueFull
  <1>8. ResultBelongsToRequest' /\ NeverOutOfPages' /\ NoneOnlyAtEnd'
    BY <1>0 DEF IInv, ResultBelongsToRequest, NeverOutOfPages, NoneOnlyAtEnd, GoodResult
  <1> QED BY <1>1, <1>4, <1>6, <1>7, <1>8 DEF IInv

(* ObserveIter::next throws away a result of a dropped iterator. *)
LEMMA RecvDiscardInv == IInv /\ RecvDiscard => IInv'
  <1> SUFFICES ASSUME IInv, RecvDiscard PROVE IInv'
    OBVIOUS
  <1>0. /\ pc = "recv" /\ num_to_discard > 0 /\ Received /\ num_to_discard' = num_to_discard - 1
        /\ UNCHANGED <<ringVars, clientVars>>
        /\ UNCHANGED <<pc, batch, total, remaining, queue, entry, result>>
    BY DEF RecvDiscard, iterVars
  <1>1. /\ RingInv' /\ DoneInv' /\ PageInv' /\ MemoryInv' /\ QuietTypeOK'
        /\ num_queued >= 1 /\ num_queued' = num_queued - 1
        /\ \A f \in FrameIndex : f # hostRead => Ahead(f)' = Ahead(f) - 1
        /\ Dist(hostRead', hostRead) = NumCommandFrames - 1
    BY <1>0, ReceivedRings
  <1>2. Held = 1 /\ Held' = 1 /\ Prepared' = 0 /\ Prepared = 0
    BY <1>0 DEF IInv, OwnerInv, Held, Prepared
  <1>3. /\ num_to_discard \in 0 .. NumCommandFrames - 1 /\ num_queued \in 0 .. NumCommandFrames - 1
        /\ Len(queue) \in Nat /\ frames' = frames
    BY <1>0 DEF IInv, TypeOK, ringVars
  <1>4. /\ num_queued = num_to_discard + Len(queue) + 1
        /\ \A f \in FrameIndex :
              /\ Ahead(f) = num_to_discard => frames[f].req = entry
              /\ \A k \in 1 .. Len(queue) : Ahead(f) = num_to_discard + k => frames[f].req = queue[k]
    BY <1>2, <1>3 DEF IInv, OwnerInv
  <1>5. ASSUME NEW f \in FrameIndex
        PROVE  /\ Ahead(f)' = num_to_discard' => frames'[f].req = entry'
               /\ \A k \in 1 .. Len(queue)' : Ahead(f)' = num_to_discard' + 1 + k - 1 => frames'[f].req = queue'[k]
    <2>1. CASE f = hostRead
      BY <2>1, <1>0, <1>1, <1>3, <1>4, QueueAssumption DEF Ahead
    <2>2. CASE f # hostRead
      <3>1. Ahead(f) \in Nat /\ Ahead(f)' = Ahead(f) - 1
        BY <2>2, <1>1, AheadType, QueueAssumption DEF IInv
      <3>2. Ahead(f)' = num_to_discard' => frames'[f].req = entry'
        BY <3>1, <1>0, <1>3, <1>4
      <3>3. ASSUME NEW k \in 1 .. Len(queue)', Ahead(f)' = num_to_discard' + 1 + k - 1
            PROVE  frames'[f].req = queue'[k]
        <4>1. k \in 1 .. Len(queue) /\ Ahead(f) = num_to_discard + k
          BY <3>1, <3>3, <1>0, <1>3
        <4> QED BY <4>1, <1>0, <1>3, <1>4
      <3> QED BY <3>2, <3>3
    <2> QED BY <2>1, <2>2
  <1>6. OwnerInv'
    <2>1. num_queued' = num_to_discard' + Len(queue)' + Held'
      <3>1. /\ num_queued' = num_queued - 1 /\ num_to_discard' = num_to_discard - 1 /\ Held' = 1
            /\ num_queued = num_to_discard + Len(queue) + 1 /\ queue' = queue
            /\ num_to_discard \in Nat /\ Len(queue) \in Nat
        <4>1. num_queued' = num_queued - 1 /\ Held' = 1 /\ num_queued = num_to_discard + Len(queue) + 1
          BY <1>1, <1>2, <1>4
        <4>2. num_to_discard \in Nat /\ Len(queue) \in Nat
          BY <1>3
        <4> QED BY <4>1, <4>2, <1>0
      <3> QED BY <3>1
    <2>2. /\ remaining' + Len(queue)' + Held' + Prepared' <= total'
          /\ batch' = 0 => pc' = "idle"
          /\ entry' = [batch |-> batch', index |-> total' - remaining' - Len(queue)']
          /\ \A k \in 1 .. Len(queue)' :
                queue'[k] = [batch |-> batch', index |-> total' - remaining' - Prepared' - Len(queue)' + k]
      BY <1>0, <1>2 DEF IInv, OwnerInv
    <2>3. pc' = "recv"
      BY <1>0
    <2> QED BY <2>1, <2>2, <2>3, <1>2, <1>5 DEF OwnerInv
  <1>7. IterTypeOK'
    BY <1>0, <1>3, CountType DEF IInv
  <1>8. TypeOK'
    BY <1>1, <1>7 DEF TypeOK, QuietTypeOK, IterTypeOK
  <1>9. RoomInv' /\ ResultBelongsToRequest' /\ NeverOutOfPages' /\ NoneOnlyAtEnd'
    BY <1>0 DEF IInv, RoomInv, ResultBelongsToRequest, NeverOutOfPages, NoneOnlyAtEnd, GoodResult
  <1> QED BY <1>1, <1>6, <1>8, <1>9 DEF IInv

(* ObserveIter::next receives the result of its own oldest request. *)
LEMMA RecvResultInv == IInv /\ RecvResult => IInv'
  <1> SUFFICES ASSUME IInv, RecvResult PROVE IInv'
    OBVIOUS
  <1>0. /\ pc = "recv" /\ num_to_discard = 0 /\ Received /\ pc' = "iter" /\ entry' = NoRequest
        /\ UNCHANGED <<ringVars, clientVars>>
        /\ UNCHANGED <<num_to_discard, batch, total, remaining, queue>>
    BY DEF RecvResult
  <1>r. result' = [kind |-> "result", entry |-> entry, of |-> frames[hostRead].req,
                   done |-> frames[hostRead].done,
                   memory |-> {pages[p] : p \in PagesOf(hostRead)}]
    BY DEF RecvResult
  <1>1. /\ RingInv' /\ DoneInv' /\ PageInv' /\ MemoryInv' /\ QuietTypeOK'
        /\ num_queued >= 1 /\ num_queued' = num_queued - 1
        /\ \A f \in FrameIndex : f # hostRead => Ahead(f)' = Ahead(f) - 1
        /\ Dist(hostRead', hostRead) = NumCommandFrames - 1
        /\ frames[hostRead].done /\ hostRead \in Live
    BY <1>0, ReceivedRings
  <1>2. Held = 1 /\ Held' = 0 /\ Prepared' = 0 /\ Prepared = 0
    BY <1>0 DEF IInv, OwnerInv, Held, Prepared
  <1>3. /\ num_queued \in 0 .. NumCommandFrames - 1 /\ hostRead \in FrameIndex
        /\ Len(queue) \in Nat /\ frames' = frames /\ total \in Nat /\ remaining \in Nat
    BY <1>0, QueueAssumption DEF IInv, TypeOK, ringVars
  <1>4. /\ num_queued = Len(queue) + 1
        /\ \A f \in FrameIndex :
              /\ Ahead(f) = 0 => frames[f].req = entry
              /\ \A k \in 1 .. Len(queue) : Ahead(f) = k => frames[f].req = queue[k]
    BY <1>0, <1>2, <1>3 DEF IInv, OwnerInv
  <1>5. ASSUME NEW f \in FrameIndex, NEW k \in 1 .. Len(queue)', Ahead(f)' = num_to_discard' + 0 + k - 1
        PROVE  frames'[f].req = queue'[k]
    <2>1. CASE f = hostRead
      <3>1. Ahead(f)' = NumCommandFrames - 1
        BY <2>1, <1>1 DEF Ahead
      <3>2. Ahead(f)' = k - 1 /\ k <= Len(queue) /\ Len(queue) + 1 <= NumCommandFrames - 1
        BY <1>0, <1>3, <1>4, <1>5, QueueAssumption
      <3> QED BY <3>1, <3>2, <1>3, QueueAssumption
    <2>2. CASE f # hostRead
      <3>1. Ahead(f) \in Nat /\ Ahead(f)' = Ahead(f) - 1
        BY <2>2, <1>1, AheadType, QueueAssumption DEF IInv
      <3>2. k \in 1 .. Len(queue) /\ Ahead(f) = k
        BY <3>1, <1>0, <1>3, <1>5
      <3> QED BY <3>2, <1>0, <1>3, <1>4
    <2> QED BY <2>1, <2>2
  <1>6. OwnerInv'
    <2>1. num_queued' = num_to_discard' + Len(queue)' + Held'
      <3>1. /\ num_queued' = num_queued - 1 /\ num_to_discard' = 0 /\ Held' = 0 /\ queue' = queue
            /\ num_queued = Len(queue) + 1 /\ Len(queue) \in Nat
        BY <1>0, <1>1, <1>2, <1>3, <1>4
      <3> QED BY <3>1
    <2>2. remaining' + Len(queue)' + Held' + Prepared' <= total' /\ batch' # 0
      BY <1>0, <1>2, <1>3 DEF IInv, OwnerInv
    <2>3. \A k \in 1 .. Len(queue)' :
             queue'[k] = [batch |-> batch', index |-> total' - remaining' - Prepared' - Len(queue)' + k]
      BY <1>0, <1>2 DEF IInv, OwnerInv
    <2>4. pc' = "iter" /\ Held' = 0
      BY <1>0, <1>2
    <2> QED BY <2>1, <2>2, <2>3, <2>4, <1>5 DEF OwnerInv
  <1>7. IterTypeOK'
    <2>1. IterTypeOK /\ UNCHANGED <<waiting, alive>>
      BY <1>0, TypeParts DEF IInv, Received, clientVars
    <2>2. NoRequest \in Request
      BY QueueAssumption DEF Request, NoRequest
    <2> QED BY <2>1, <2>2, <1>0 DEF IterTypeOK
  <1>8. TypeOK'
    BY <1>1, <1>7 DEF TypeOK, QuietTypeOK, IterTypeOK
  <1>9. RoomInv'
    <2>1. queue' = <<>> => num_queued' = 0
      BY <1>0, <1>1, <1>3, <1>4
    <2>2. num_queued' = 0 => page_frames_allocated' = 0
      <3>1. num_queued' = 0 => LiveLen' = 0
        BY <1>1, <1>2 DEF RingInv, LiveLen
      <3> QED BY Zenon, <3>1, <1>1 DEF PageInv
    <2> QED BY <2>1, <2>2, <1>0, QueueAssumption DEF RoomInv, QueueFull
  <1>10. ResultBelongsToRequest'
    <2>1. frames[hostRead].req = entry
      BY <1>3, <1>4, AheadType DEF IInv
    <2>2. \A p \in PagesOf(hostRead) : pages[p] = [req |-> entry, done |-> frames[hostRead].done]
      BY Zenon, <1>1, <2>1 DEF IInv, MemoryInv
    <2>3. frames[hostRead].done = TRUE
      BY <1>1, <1>3 DEF IInv, TypeOK
    <2>4. PagesOf(hostRead) # {}
      <3>1. frames[hostRead].len >= 1 /\ frames[hostRead].len \in Nat
        BY <1>1, <1>3, BehindType DEF IInv, PageInv
      <3>2. 0 \in 0 .. frames[hostRead].len - 1
        BY <3>1
      <3> QED BY <3>2 DEF PagesOf
    <2>5. {pages[p] : p \in PagesOf(hostRead)} = {[req |-> entry, done |-> TRUE]}
      BY Zenon, <2>2, <2>3, <2>4
    <2> QED BY <2>1, <2>3, <2>5, <1>r DEF ResultBelongsToRequest, GoodResult
  <1>11. NeverOutOfPages' /\ NoneOnlyAtEnd'
    <2>1. result'.kind = "result"
      BY <1>r
    <2> QED BY <2>1, <1>0 DEF NeverOutOfPages, NoneOnlyAtEnd
  <1> QED BY <1>1, <1>6, <1>8, <1>9, <1>10, <1>11 DEF IInv

-----------------------------------------------------------------------------
(* The page ring.                                                          *)

(* Handing out n more pages puts every page n further behind. *)
LEMMA PageAdvance ==
    ASSUME NEW a \in PageIndex, NEW h \in PageIndex, NEW n \in 0 .. NumPageFrames,
           PageDist(a, h) + n < NumPageFrames
    PROVE  (h + n) % NumPageFrames \in PageIndex /\ PageDist(a, (h + n) % NumPageFrames) = PageDist(a, h) + n
  <1>1. (h + n) % NumPageFrames = IF h + n < NumPageFrames THEN h + n ELSE h + n - NumPageFrames
    BY QueueAssumption DEF PageIndex
  <1> QED BY <1>1, QueueAssumption DEF PageDist, PageIndex

(* The i-th page of a command is i pages less far behind than its first. *)
LEMMA PageBehind ==
    ASSUME NEW a \in PageIndex, NEW h \in PageIndex, NEW i \in Nat, i < PageDist(a, h)
    PROVE  (a + i) % NumPageFrames \in PageIndex
           /\ PageDist((a + i) % NumPageFrames, h) = PageDist(a, h) - i
  <1>0. i < NumPageFrames
    BY QueueAssumption DEF PageDist, PageIndex
  <1>1. (a + i) % NumPageFrames = IF a + i < NumPageFrames THEN a + i ELSE a + i - NumPageFrames
    BY <1>0, QueueAssumption DEF PageIndex
  <1> QED BY <1>0, <1>1, QueueAssumption DEF PageDist, PageIndex

(* The pages about to be handed out are almost a full turn behind. *)
LEMMA PageFresh ==
    ASSUME NEW h \in PageIndex, NEW i \in Nat, i < NumPageFrames
    PROVE  /\ (h + i) % NumPageFrames \in PageIndex
           /\ PageDist((h + i) % NumPageFrames, h) = IF i = 0 THEN 0 ELSE NumPageFrames - i
  <1>1. (h + i) % NumPageFrames = IF h + i < NumPageFrames THEN h + i ELSE h + i - NumPageFrames
    BY QueueAssumption DEF PageIndex
  <1> QED BY <1>1, QueueAssumption DEF PageDist, PageIndex

(* Where the pages of a live command are. *)
LEMMA LivePages ==
    ASSUME TypeOK, PageInv, NEW f \in Live, NEW p \in PagesOf(f)
    PROVE  /\ p \in PageIndex
           /\ PageDist(p, next_page_frame) \in Nat
           /\ PageDist(p, next_page_frame) <= Behind(f)
           /\ PageDist(p, next_page_frame) > Behind(f) - frames[f].len
           /\ PageDist(p, next_page_frame) >= 1
  <1>1. f \in FrameIndex
    BY DEF Live
  <1>2. PICK i \in 0 .. frames[f].len - 1 : p = (frames[f].first + i) % NumPageFrames
    BY DEF PagesOf
  <1>3. /\ frames[f].first \in PageIndex /\ next_page_frame \in PageIndex /\ frames[f].len \in Nat
        /\ Behind(f) \in Nat
    BY <1>1, BehindType, QueueAssumption DEF TypeOK
  <1>4. frames[f].len <= Behind(f) /\ Behind(f) = PageDist(frames[f].first, next_page_frame)
    BY DEF PageInv, Behind
  <1>5. i \in Nat /\ i < PageDist(frames[f].first, next_page_frame) /\ i < frames[f].len
    BY <1>2, <1>3, <1>4
  <1>6. p \in PageIndex /\ PageDist(p, next_page_frame) = Behind(f) - i
    BY <1>2, <1>3, <1>4, <1>5, PageBehind
  <1> QED BY <1>3, <1>4, <1>5, <1>6

(* Two live commands share no page. *)
LEMMA LivePagesDisjoint ==
    ASSUME TypeOK, PageInv, NEW f \in Live, NEW g \in Live, f # g
    PROVE  PagesOf(f) \cap PagesOf(g) = {}
  <1> SUFFICES ASSUME NEW p \in PagesOf(f), p \in PagesOf(g) PROVE FALSE
    OBVIOUS
  <1>0. f \in FrameIndex /\ g \in FrameIndex
    BY DEF Live
  <1>1. /\ frames[f].len \in Nat /\ frames[g].len \in Nat /\ Behind(f) \in Nat /\ Behind(g) \in Nat
        /\ Ahead(f) \in Nat /\ Ahead(g) \in Nat /\ Ahead(f) # Ahead(g)
    BY <1>0, BehindType, AheadType, QueueAssumption
  <1>2. /\ PageDist(p, next_page_frame) \in Nat
        /\ PageDist(p, next_page_frame) <= Behind(f) /\ PageDist(p, next_page_frame) > Behind(f) - frames[f].len
        /\ PageDist(p, next_page_frame) <= Behind(g) /\ PageDist(p, next_page_frame) > Behind(g) - frames[g].len
    BY LivePages
  <1>3. CASE Ahead(f) < Ahead(g)
    <2>1. Behind(g) + frames[f].len <= Behind(f)
      BY <1>3 DEF PageInv
    <2> QED BY <1>1, <1>2, <2>1
  <1>4. CASE Ahead(g) < Ahead(f)
    <2>1. Behind(f) + frames[g].len <= Behind(g)
      BY <1>4 DEF PageInv
    <2> QED BY <1>1, <1>2, <2>1
  <1> QED BY <1>1, <1>3, <1>4

-----------------------------------------------------------------------------
(* The client receives, executes and marks a command.                      *)

(* The client takes the oldest unprocessed command: only its own indices move. *)
LEMMA ClientReceiveInv == IInv /\ ClientReceive => IInv'
  <1> SUFFICES ASSUME IInv, ClientReceive PROVE IInv'
    OBVIOUS
  <1>0. /\ clientPc = "poll" /\ clientPc' = "observe" /\ Available(clientRead, clientCached, next)
        /\ clientCached' = Refreshed(clientRead, clientCached, next)
        /\ clientFrame' = clientRead /\ clientRead' = Inc(clientRead)
        /\ UNCHANGED <<next, current, frames, pages, hostRead, hostCached, num_queued,
                       page_frames_allocated, next_page_frame, waiting, num_to_discard,
                       pc, batch, total, remaining, queue, entry, result, alive>>
    BY DEF ClientReceive, ringVars, hostQVars, countVars, iterVars
  <1>1. TypeOK /\ RingInv
    BY DEF IInv
  <1>2. /\ clientRead \in FrameIndex /\ clientCached \in FrameIndex /\ next \in FrameIndex
        /\ hostRead \in FrameIndex /\ current \in FrameIndex /\ hostCached \in FrameIndex
        /\ clientRead = current
        /\ \A f \in FrameIndex : Ahead(f) \in Nat /\ Ahead(f) <= NumCommandFrames - 1
        /\ \A f, g \in FrameIndex : Ahead(f) = Ahead(g) => f = g
    <2>1. clientRead = current
      BY <1>0, <1>1 DEF RingInv
    <2>2. /\ \A f \in FrameIndex : Ahead(f) \in Nat /\ Ahead(f) <= NumCommandFrames - 1
          /\ \A f, g \in FrameIndex : Ahead(f) = Ahead(g) => f = g
      BY <1>1, AheadType, QueueAssumption
    <2> QED BY <2>1, <2>2, <1>1 DEF TypeOK
  <1>3. /\ clientCached' \in FrameIndex /\ Ahead(clientRead) < Dist(hostRead, clientCached')
        /\ Dist(hostRead, clientCached') <= Ahead(next)
    <2>1. CASE clientRead # clientCached
      <3>1. clientCached' = clientCached /\ Dist(hostRead, clientCached') = Ahead(clientCached)
        BY <2>1, <1>0 DEF Refreshed, Ahead
      <3>2. Ahead(clientRead) <= Ahead(clientCached) /\ Ahead(clientRead) # Ahead(clientCached)
            /\ Ahead(clientCached) <= Ahead(next)
        BY <2>1, <1>1, <1>2 DEF RingInv
      <3> QED BY <3>1, <3>2, <1>2
    <2>2. CASE clientRead = clientCached
      <3>1. clientCached' = next /\ Dist(hostRead, clientCached') = Ahead(next) /\ clientRead # next
        BY <2>2, <1>0 DEF Refreshed, Ahead, Available
      <3>2. Ahead(clientRead) <= Ahead(next) /\ Ahead(clientRead) # Ahead(next)
        BY <2>2, <3>1, <1>1, <1>2 DEF RingInv
      <3> QED BY <3>1, <3>2, <1>2
    <2> QED BY <2>1, <2>2
  <1>4. Dist(hostRead, clientRead') = Ahead(clientRead) + 1 /\ clientRead' \in FrameIndex
    <2>1. Ahead(next) <= NumCommandFrames - 1 /\ Ahead(clientRead) \in Nat /\ Ahead(next) \in Nat
      BY <1>2
    <2>2. Dist(hostRead, clientCached') \in Nat
      BY <1>2, <1>3 DEF Ahead
    <2>3. Ahead(clientRead) < NumCommandFrames - 1
      BY <2>1, <2>2, <1>3, QueueAssumption
    <2> QED BY <2>3, <1>0, <1>2, DistIncTarget, IncValue DEF Ahead
  <1>5. /\ Ahead(next)' = Ahead(next) /\ Ahead(current)' = Ahead(current)
        /\ Ahead(hostCached)' = Ahead(hostCached)
        /\ Ahead(clientRead)' = Dist(hostRead, clientRead') /\ Ahead(clientCached)' = Dist(hostRead, clientCached')
        /\ Dist(hostRead, clientCached') \in Nat
    <2>1. Dist(hostRead, clientCached') \in Nat
      BY <1>2, <1>3 DEF Ahead
    <2> QED BY <2>1, <1>0 DEF Ahead, Dist
  <1>6. RingInv'
    <2>1. Ahead(hostCached)' <= Ahead(current)' /\ num_queued' = Ahead(next)'
      BY <1>0, <1>1, <1>5 DEF RingInv
    <2>2. Ahead(current)' <= Ahead(clientRead)' /\ Ahead(clientRead)' <= Ahead(clientCached)'
          /\ Ahead(clientCached)' <= Ahead(next)' /\ Ahead(clientRead)' = Ahead(current)' + 1
      <3>1. Ahead(clientRead) \in Nat /\ Ahead(clientRead) = Ahead(current)
        BY <1>2
      <3> QED BY <3>1, <1>3, <1>4, <1>5
    <2> QED BY <2>1, <2>2, <1>0, <1>1, <1>2 DEF RingInv
  <1>8. DoneInv' /\ PageInv' /\ MemoryInv'
    <2>1. DoneInv'
      BY <1>0 DEF IInv, DoneInv, Ahead, Dist
    <2>2. Prepared' = Prepared
      BY <1>0 DEF Prepared
    <2> QED BY <2>1, <2>2, <1>0, PagesKept DEF IInv
  <1>9. OwnerInv'
    BY <1>0 DEF IInv, OwnerInv, Held, Prepared, Ahead, Dist
  <1>10. TypeOK'
    BY Zenon, <1>0, <1>1, <1>2, <1>3, <1>4 DEF TypeOK
  <1>11. RoomInv' /\ ResultBelongsToRequest' /\ NeverOutOfPages' /\ NoneOnlyAtEnd'
    BY <1>0 DEF IInv, RoomInv, QueueFull, ResultBelongsToRequest, GoodResult, NeverOutOfPages, NoneOnlyAtEnd
  <1> QED BY <1>6, <1>8, <1>9, <1>10, <1>11 DEF IInv

(* The client executes the command: its frame and its pages change, and no *)
(* other live command's.                                                   *)
LEMMA ClientObserveInv == IInv /\ ClientObserve => IInv'
  <1> SUFFICES ASSUME IInv, ClientObserve PROVE IInv'
    OBVIOUS
  <1>0. /\ clientPc = "observe" /\ clientPc' = "mark"
        /\ UNCHANGED <<next, current, hostRead, hostCached, num_queued,
                       page_frames_allocated, next_page_frame, waiting, num_to_discard,
                       pc, batch, total, remaining, queue, entry, result,
                       clientRead, clientCached, clientFrame, alive>>
    BY DEF ClientObserve, hostQVars, countVars, iterVars
  <1>w. /\ frames' = [frames EXCEPT ![clientFrame].done = TRUE]
        /\ pages' = [p \in PageIndex |->
                        IF p \in PagesOf(clientFrame) THEN [pages[p] EXCEPT !.done = TRUE] ELSE pages[p]]
    BY DEF ClientObserve
  <1>1. TypeOK /\ RingInv /\ OwnerInv /\ DoneInv /\ PageInv /\ MemoryInv
    BY DEF IInv
  <1>2. /\ clientFrame = current /\ current \in FrameIndex
        /\ frames \in [FrameIndex -> [req : Request, first : PageIndex, len : 0 .. MaxLen, done : BOOLEAN]]
        /\ pages \in [PageIndex -> [req : Request, done : BOOLEAN]]
    BY <1>0, <1>1 DEF TypeOK, RingInv
  <1>3. \A f \in FrameIndex :
           /\ frames'[f].req = frames[f].req /\ frames'[f].first = frames[f].first
           /\ frames'[f].len = frames[f].len
           /\ f # current => frames'[f] = frames[f]
    BY <1>2, <1>w
  <1>4. frames'[current].done = TRUE
    BY <1>2, <1>w
  <1>5. /\ frames' \in [FrameIndex -> [req : Request, first : PageIndex, len : 0 .. MaxLen, done : BOOLEAN]]
        /\ pages' \in [PageIndex -> [req : Request, done : BOOLEAN]]
    BY Zenon, <1>2, <1>w
  <1>6. current \in Live
    <2>1. Ahead(current) < Ahead(next) /\ Ahead(current) \in Nat /\ Ahead(next) \in Nat
      <3>1. /\ Ahead(current) \in Nat /\ Ahead(clientRead) \in Nat
            /\ Ahead(clientCached) \in Nat /\ Ahead(next) \in Nat
        BY <1>1, AheadType, QueueAssumption DEF TypeOK
      <3> QED BY <3>1, <1>0, <1>1 DEF RingInv
    <2>2. LiveLen >= Ahead(next)
      BY <2>1 DEF LiveLen, Prepared
    <2>3. LiveLen \in Nat
      BY <2>1 DEF LiveLen, Prepared
    <2> QED BY <2>1, <2>2, <2>3, <1>2 DEF Live
  <1>7. Live' = Live /\ LiveLen' = LiveLen /\ (\A f : Ahead(f)' = Ahead(f))
    BY <1>0 DEF Live, LiveLen, Ahead, Dist, Prepared
  <1>8. \A f \in FrameIndex : Behind(f)' = Behind(f) /\ PagesOf(f)' = PagesOf(f)
    BY <1>0, <1>3 DEF Behind, PageDist, PagesOf
  <1>9. \A f \in Live : f \in FrameIndex
    BY DEF Live
  <1>10. RingInv'
    BY <1>0, <1>1 DEF RingInv, Ahead, Dist
  <1>11. DoneInv'
    BY <1>0, <1>1, <1>2, <1>3, <1>4 DEF DoneInv, Ahead, Dist
  <1>12. PageInv'
    <2>1. \A f \in Live : Behind(f)' = Behind(f) /\ frames'[f].len = frames[f].len
      BY <1>3, <1>8, <1>9
    <2>2. page_frames_allocated' = page_frames_allocated
      BY <1>0
    <2> QED BY <2>1, <2>2, <1>1, <1>7 DEF PageInv
  <1>13. MemoryInv'
    <2>1. ASSUME NEW f \in Live, NEW p \in PagesOf(f)
          PROVE  pages'[p] = [req |-> frames'[f].req, done |-> frames'[f].done]
      <3>1. p \in PageIndex
        BY <1>1, LivePages
      <3>2. pages[p] = [req |-> frames[f].req, done |-> frames[f].done]
        BY <1>1 DEF MemoryInv
      <3>3. CASE f = current
        <4>1. pages'[p] = [pages[p] EXCEPT !.done = TRUE]
          BY <3>1, <3>3, <1>2, <1>w
        <4>2. pages'[p] = [req |-> frames[f].req, done |-> TRUE]
          <5>1. pages'[p] \in [req : Request, done : BOOLEAN] /\ pages[p] \in [req : Request, done : BOOLEAN]
            BY <3>1, <1>2, <1>5
          <5>2. pages'[p].done = TRUE /\ pages'[p].req = pages[p].req
            BY <5>1, <4>1
          <5>3. pages'[p] = [req |-> pages'[p].req, done |-> TRUE]
            BY Zenon, <5>1, <5>2
          <5>4. pages[p].req = frames[f].req
            BY <3>2
          <5> QED BY <5>2, <5>3, <5>4, Zenon
        <4>3. frames'[f].req = frames[f].req /\ frames'[f].done = TRUE
          BY <3>3, <1>2, <1>3, <1>4
        <4> QED BY <4>2, <4>3, Zenon
      <3>4. CASE f # current
        <4>1. p \notin PagesOf(current)
          BY <3>4, <1>1, <1>6, LivePagesDisjoint
        <4>2. pages'[p] = pages[p]
          BY <4>1, <3>1, <1>2, <1>w
        <4>3. frames'[f] = frames[f]
          BY <3>4, <1>3, <1>9
        <4> QED BY <4>2, <4>3, <3>2
      <3> QED BY <3>3, <3>4
    <2> QED BY Zenon, <2>1, <1>7, <1>8, <1>9 DEF MemoryInv
  <1>14. OwnerInv'
    <2>1. next \in FrameIndex
      BY <1>1 DEF TypeOK
    <2>2. /\ Held' = Held /\ Prepared' = Prepared
          /\ UNCHANGED <<num_queued, num_to_discard, queue, pc, remaining, total, batch, entry, next>>
      BY <1>0 DEF Held, Prepared
    <2>3. \A f \in FrameIndex : frames'[f].req = frames[f].req /\ Ahead(f)' = Ahead(f)
      BY <1>3, <1>7
    <2>4. pc' = "publish" => frames'[next'].req = [batch |-> batch', index |-> total' - remaining']
      BY <2>1, <2>2, <2>3, <1>1 DEF OwnerInv
    <2>5. \A f \in FrameIndex :
             /\ Held' = 1 /\ Ahead(f)' = num_to_discard' => frames'[f].req = entry'
             /\ \A k \in 1 .. Len(queue') :
                   Ahead(f)' = num_to_discard' + Held' + k - 1 => frames'[f].req = queue'[k]
      BY <2>2, <2>3, <1>1 DEF OwnerInv
    <2> QED BY <2>2, <2>4, <2>5, <1>1 DEF OwnerInv
  <1>15. TypeOK'
    BY Zenon, <1>0, <1>1, <1>5 DEF TypeOK
  <1>16. RoomInv' /\ ResultBelongsToRequest' /\ NeverOutOfPages' /\ NoneOnlyAtEnd'
    BY <1>0 DEF IInv, RoomInv, QueueFull, ResultBelongsToRequest, GoodResult, NeverOutOfPages, NoneOnlyAtEnd
  <1> QED BY <1>10, <1>11, <1>12, <1>13, <1>14, <1>15, <1>16 DEF IInv

(* The client publishes the result: everything before its read index is done. *)
LEMMA ClientMarkInv == IInv /\ ClientMark => IInv'
  <1> SUFFICES ASSUME IInv, ClientMark PROVE IInv'
    OBVIOUS
  <1>0. /\ clientPc = "mark" /\ clientPc' = "poll" /\ current' = clientRead
        /\ UNCHANGED <<next, frames, pages, hostRead, hostCached, num_queued,
                       page_frames_allocated, next_page_frame, waiting, num_to_discard,
                       pc, batch, total, remaining, queue, entry, result,
                       clientRead, clientCached, clientFrame, alive>>
    BY DEF ClientMark, hostQVars, countVars, iterVars
  <1>1. TypeOK /\ RingInv /\ DoneInv
    BY DEF IInv
  <1>2. Prepared' = Prepared
    BY <1>0 DEF Prepared
  <1>3. \A f \in FrameIndex : Ahead(f)' = Ahead(f)
    BY <1>0 DEF Ahead, Dist
  <1>4. /\ Ahead(current)' = Ahead(current) + 1 /\ Ahead(current) \in Nat /\ current \in FrameIndex
        /\ \A f \in FrameIndex : Ahead(f) \in Nat /\ (Ahead(f) = Ahead(current) => f = current)
    <2>1. /\ Ahead(current) \in Nat /\ current \in FrameIndex
          /\ \A f \in FrameIndex : Ahead(f) \in Nat /\ (Ahead(f) = Ahead(current) => f = current)
      BY <1>1, AheadType, QueueAssumption DEF TypeOK
    <2>2. Ahead(current)' = Ahead(clientRead)
      BY <1>0 DEF Ahead, Dist
    <2> QED BY <2>1, <2>2, <1>0, <1>1 DEF RingInv
  <1>5. RingInv'
    <2>1. /\ Ahead(hostCached)' = Ahead(hostCached) /\ Ahead(clientRead)' = Ahead(clientRead)
          /\ Ahead(clientCached)' = Ahead(clientCached) /\ Ahead(next)' = Ahead(next)
          /\ Ahead(current)' = Ahead(clientRead) /\ Ahead(clientRead) \in Nat /\ Ahead(hostCached) \in Nat
      BY <1>0, <1>1, <1>4 DEF Ahead, Dist, TypeOK
    <2> QED BY <2>1, <1>0, <1>1, <1>4 DEF RingInv
  <1>6. DoneInv'
    <2>1. ASSUME NEW f \in FrameIndex, Ahead(f)' < Ahead(current)' PROVE frames[f].done
      <3>1. Ahead(f) < Ahead(current) + 1 /\ Ahead(f) \in Nat
        BY <2>1, <1>3, <1>4
      <3>2. CASE Ahead(f) < Ahead(current)
        BY <3>2, <1>1 DEF DoneInv
      <3>3. CASE Ahead(f) = Ahead(current)
        BY <3>3, <1>0, <1>1, <1>4 DEF DoneInv
      <3> QED BY <3>1, <3>2, <3>3, <1>4
    <2> QED BY <2>1, <1>0 DEF DoneInv
  <1>7. PageInv' /\ MemoryInv'
    BY <1>0, <1>2, PagesKept DEF IInv
  <1>8. OwnerInv'
    BY <1>0 DEF IInv, OwnerInv, Held, Prepared, Ahead, Dist
  <1>9. TypeOK'
    BY <1>0, <1>1 DEF TypeOK
  <1>10. RoomInv' /\ ResultBelongsToRequest' /\ NeverOutOfPages' /\ NoneOnlyAtEnd'
    BY <1>0 DEF IInv, RoomInv, QueueFull, ResultBelongsToRequest, GoodResult, NeverOutOfPages, NoneOnlyAtEnd
  <1> QED BY <1>5, <1>6, <1>7, <1>8, <1>9, <1>10 DEF IInv
=============================================================================
