-------------------------- MODULE VmObserverProofs --------------------------
(***************************************************************************)
(* The inductive invariant of VmObserver, second part: the steps that      *)
(* prepare and publish commands.  Then the theorems about VmObserver, for  *)
(* every queue size, page count and batch, and the refinement of           *)
(* BatchObserver.                                                          *)
(***************************************************************************)
EXTENDS VmObserverRings

-----------------------------------------------------------------------------
(* A command is prepared and published.                                    *)

(* The new command gets the free frame `next` and pages no live command has. *)
LEMMA SetupInv ==
    ASSUME IInv, NEW n \in 1 .. MaxLen, Setup(n)
    PROVE  IInv'
  <1> DEFINE req == [batch |-> batch, index |-> total - remaining + 1]
             new == {(next_page_frame + i) % NumPageFrames : i \in 0 .. n - 1}
  <1>w. /\ frames' = [frames EXCEPT ![next] =
                        [req |-> req, first |-> next_page_frame, len |-> n, done |-> FALSE]]
        /\ pages' = [p \in PageIndex |-> IF p \in new THEN [req |-> req, done |-> FALSE] ELSE pages[p]]
    BY DEF Setup
  <1>0. /\ pc = "fill" /\ ~QueueFull /\ remaining > 0 /\ remaining' = remaining - 1
        /\ next_page_frame' = (next_page_frame + n) % NumPageFrames
        /\ page_frames_allocated' = page_frames_allocated + n
        /\ pc' = IF page_frames_allocated + n >= NumPageFrames THEN "exhausted" ELSE "publish"
        /\ UNCHANGED <<next, current, hostRead, hostCached, num_queued, waiting, num_to_discard,
                       batch, total, queue, entry, result,
                       clientRead, clientCached, clientFrame, clientPc, alive>>
    BY DEF Setup, hostQVars, clientVars
  <1> HIDE DEF req, new
  <1>1. TypeOK /\ RingInv /\ OwnerInv /\ DoneInv /\ PageInv /\ MemoryInv
    BY DEF IInv
  <1>2. /\ next \in FrameIndex /\ current \in FrameIndex /\ next_page_frame \in PageIndex
        /\ page_frames_allocated \in Nat /\ num_queued \in Nat
        /\ remaining \in 0 .. MaxBatch /\ total \in 0 .. MaxBatch /\ batch \in 0 .. MaxBatches
        /\ frames \in [FrameIndex -> [req : Request, first : PageIndex, len : 0 .. MaxLen, done : BOOLEAN]]
        /\ pages \in [PageIndex -> [req : Request, done : BOOLEAN]]
    BY <1>1, QueueAssumption DEF TypeOK
  <1>3. /\ num_queued < NumCommandFrames - 1
        /\ page_frames_allocated + n < NumPageFrames /\ n \in Nat /\ n >= 1
    BY <1>0, <1>2, QueueAssumption DEF QueueFull
  <1>4. pc' = "publish"
    BY <1>0, <1>2, <1>3, QueueAssumption
  <1>5. \A f \in FrameIndex : Ahead(f)' = Ahead(f)
    BY <1>0 DEF Ahead, Dist
  <1>6. Held = 0 /\ Held' = 0 /\ Prepared = 0 /\ Prepared' = 1
    BY <1>0, <1>1, <1>4 DEF OwnerInv, Held, Prepared
  <1>7. LiveLen = Ahead(next) /\ LiveLen' = Ahead(next) + 1 /\ Ahead(next) \in Nat /\ Ahead(next)' = Ahead(next)
    BY <1>0, <1>1, <1>2, <1>5, <1>6, AheadType, QueueAssumption DEF LiveLen
  <1>8. /\ \A f \in Live' : f # next => f \in Live
        /\ \A f \in Live : f # next /\ f \in FrameIndex
        /\ next \in Live'
    <2>1. \A f \in FrameIndex : Ahead(f) \in Nat /\ (Ahead(f) = Ahead(next) => f = next)
      BY <1>1, <1>2, AheadType, QueueAssumption
    <2>2. \A f \in FrameIndex : f \in Live <=> Ahead(f) < Ahead(next)
      BY <1>7 DEF Live
    <2>3. \A f : f \in Live' <=> f \in FrameIndex /\ Ahead(f)' < LiveLen'
      BY DEF Live
    <2>4. \A f \in FrameIndex : f \in Live' <=> Ahead(f) < Ahead(next) + 1
      BY <2>3, <1>5, <1>7
    <2>5. \A f \in Live : f \in FrameIndex /\ f # next
      BY <2>2, <1>7 DEF Live
    <2>6. \A f \in Live' : f \in FrameIndex
      BY <2>3
    <2>7. next \in Live'
      BY <2>4, <1>2, <1>7
    <2>8. ASSUME NEW f \in Live', f # next PROVE f \in Live
      <3>1. f \in FrameIndex /\ Ahead(f) < Ahead(next) + 1
        BY <2>4, <2>6
      <3>2. Ahead(f) \in Nat /\ Ahead(f) # Ahead(next)
        BY <3>1, <2>1, <2>8
      <3> QED BY <3>1, <3>2, <2>2, <1>7
    <2> QED BY <2>5, <2>7, <2>8
  <1>9. /\ \A f \in FrameIndex : f # next => frames'[f] = frames[f]
        /\ frames'[next] = [req |-> req, first |-> next_page_frame, len |-> n, done |-> FALSE]
    BY <1>2, <1>w
  <1>10. req \in Request /\ req.batch = batch /\ req = [batch |-> batch, index |-> total' - remaining']
    <2>1. remaining <= total
      BY <1>1, <1>2, <1>6 DEF OwnerInv, TypeOK
    <2>2. total - remaining + 1 \in 0 .. MaxBatch /\ total - remaining + 1 = total' - remaining'
      BY <2>1, <1>0, <1>2, QueueAssumption
    <2> QED BY <2>2, <1>2 DEF req, Request
  <1>11. RingInv'
    BY <1>0, <1>1, <1>3, <1>4 DEF RingInv, Ahead, Dist
  <1>12. /\ \A f \in FrameIndex : Ahead(f) < Ahead(current) => f # next
         /\ clientPc = "mark" => current # next
    <2>1. /\ Ahead(current) <= Ahead(next)
          /\ clientPc # "poll" => Ahead(current) < Ahead(next)
      <3>1. /\ Ahead(current) \in Nat /\ Ahead(clientRead) \in Nat
            /\ Ahead(clientCached) \in Nat /\ Ahead(next) \in Nat
        BY <1>1, AheadType, QueueAssumption DEF TypeOK
      <3> QED BY <3>1, <1>1 DEF RingInv
    <2> QED BY <2>1, <1>1, <1>2, AheadType, QueueAssumption
  <1>13. DoneInv'
    <2>1. \A f \in FrameIndex : Ahead(f)' < Ahead(current)' => frames'[f].done
      BY <1>0, <1>1, <1>2, <1>5, <1>9, <1>12 DEF DoneInv
    <2>2. clientPc' = "mark" => frames'[current'].done
      BY <1>0, <1>1, <1>2, <1>9, <1>12 DEF DoneInv
    <2> QED BY <2>1, <2>2 DEF DoneInv
  <1>14. next_page_frame' \in PageIndex /\ Behind(next)' = n
    <2>1. PageDist(next_page_frame, next_page_frame) = 0
      BY <1>2, QueueAssumption DEF PageDist, PageIndex
    <2>2. n \in 0 .. NumPageFrames
      BY <1>2, <1>3, QueueAssumption
    <2>3. /\ (next_page_frame + n) % NumPageFrames \in PageIndex
          /\ PageDist(next_page_frame, (next_page_frame + n) % NumPageFrames) = n
      BY <2>1, <2>2, <1>2, <1>3, PageAdvance, QueueAssumption
    <2> QED BY <2>3, <1>0, <1>9 DEF Behind, PageDist
  <1>15. ASSUME NEW f \in Live
         PROVE  /\ Behind(f)' = Behind(f) + n /\ Behind(f) \in Nat /\ Behind(f) <= page_frames_allocated
                /\ frames'[f] = frames[f] /\ frames[f].len \in Nat /\ frames[f].first \in PageIndex
    <2>1. f \in FrameIndex /\ f # next /\ frames'[f] = frames[f]
      BY <1>8, <1>9
    <2>2. /\ Behind(f) \in Nat /\ frames[f].first \in PageIndex /\ frames[f].len \in Nat
          /\ Behind(f) <= page_frames_allocated
      BY <2>1, <1>1, BehindType, QueueAssumption DEF PageInv
    <2>3. PageDist(frames[f].first, next_page_frame) + n < NumPageFrames /\ n \in 0 .. NumPageFrames
      BY <2>2, <1>2, <1>3, QueueAssumption DEF Behind
    <2>4. PageDist(frames[f].first, (next_page_frame + n) % NumPageFrames)
            = PageDist(frames[f].first, next_page_frame) + n
      BY <2>2, <2>3, <1>2, PageAdvance
    <2> QED BY <2>1, <2>2, <2>4, <1>0 DEF Behind, PageDist
  <1>16. PageInv'
    <2>1. ASSUME NEW f \in Live'
          PROVE  /\ frames'[f].len >= 1
                 /\ frames'[f].len <= Behind(f)'
                 /\ Behind(f)' <= page_frames_allocated'
                 /\ Ahead(f)' = 0 => Behind(f)' = page_frames_allocated'
                 /\ Ahead(f)' = LiveLen' - 1 => Behind(f)' = frames'[f].len
      <3>1. CASE f = next
        <4>1. Ahead(next) = 0 => page_frames_allocated = 0
          BY <1>1, <1>7 DEF PageInv
        <4> QED BY <3>1, <4>1, <1>0, <1>2, <1>3, <1>7, <1>9, <1>14
      <3>2. CASE f # next
        <4>1. f \in Live /\ f \in FrameIndex
          BY <3>2, <1>8
        <4>2. Ahead(f)' = Ahead(f) /\ Ahead(f) < Ahead(next) /\ Ahead(f) \in Nat
          BY <4>1, <1>1, <1>5, <1>7, AheadType, QueueAssumption DEF Live
        <4>3. /\ frames[f].len >= 1 /\ frames[f].len <= Behind(f)
              /\ Ahead(f) = 0 => Behind(f) = page_frames_allocated
          BY <4>1, <1>1 DEF PageInv
        <4>4. /\ Behind(f)' = Behind(f) + n /\ Behind(f) \in Nat /\ Behind(f) <= page_frames_allocated
              /\ frames'[f].len = frames[f].len /\ frames[f].len \in Nat
          BY <4>1, <1>15
        <4>5. n \in Nat /\ page_frames_allocated \in Nat /\ page_frames_allocated' = page_frames_allocated + n
          BY <1>0, <1>2, <1>3
        <4>6. Ahead(f)' # LiveLen' - 1
          BY <4>2, <1>7
        <4> QED BY <4>2, <4>3, <4>4, <4>5, <4>6
      <3> QED BY <3>1, <3>2
    <2>2. ASSUME NEW f \in Live', NEW g \in Live'
          PROVE  /\ Ahead(f)' < Ahead(g)' => Behind(g)' + frames'[f].len <= Behind(f)'
                 /\ Ahead(g)' = Ahead(f)' + 1 => Behind(f)' = Behind(g)' + frames'[f].len
      <3>0. /\ f \in FrameIndex /\ g \in FrameIndex /\ Ahead(f)' = Ahead(f) /\ Ahead(g)' = Ahead(g)
            /\ Ahead(f) \in Nat /\ Ahead(g) \in Nat
            /\ Ahead(f) <= Ahead(next) /\ Ahead(g) <= Ahead(next)
        BY <1>1, <1>5, <1>7, AheadType, QueueAssumption DEF Live
      <3>1. CASE f = next
        BY <3>0, <3>1, <1>7
      <3>2. CASE f # next /\ g = next
        <4>1. f \in Live
          BY <3>2, <1>8
        <4>2. /\ frames[f].len <= Behind(f)
              /\ Ahead(f) = LiveLen - 1 => Behind(f) = frames[f].len
          BY <4>1, <1>1 DEF PageInv
        <4>3. frames'[f].len = frames[f].len /\ Behind(f)' = Behind(f) + n /\ Behind(g)' = n
              /\ Behind(f) \in Nat /\ frames[f].len \in Nat
          <5>1. Behind(g)' = n
            BY <3>2, <1>0, <1>14 DEF Behind
          <5> QED BY <5>1, <3>2, <4>1, <1>15
        <4>4. Ahead(g)' = Ahead(f)' + 1 => Ahead(f) = LiveLen - 1
          BY <3>0, <3>2, <1>7
        <4> QED BY <4>2, <4>3, <4>4, <1>3
      <3>3. CASE f # next /\ g # next
        <4>1. f \in Live /\ g \in Live
          BY <3>3, <1>8
        <4>2. /\ Ahead(f) < Ahead(g) => Behind(g) + frames[f].len <= Behind(f)
              /\ Ahead(g) = Ahead(f) + 1 => Behind(f) = Behind(g) + frames[f].len
          BY <4>1, <1>1 DEF PageInv
        <4>3. /\ frames'[f].len = frames[f].len /\ Behind(f)' = Behind(f) + n /\ Behind(g)' = Behind(g) + n
              /\ Behind(f) \in Nat /\ Behind(g) \in Nat /\ frames[f].len \in Nat
          BY <4>1, <1>15
        <4> QED BY <3>0, <4>2, <4>3, <1>3
      <3> QED BY <3>1, <3>2, <3>3
    <2>3. LiveLen' # 0
      BY <1>7
    <2> QED BY <2>1, <2>2, <2>3 DEF PageInv
  <1>17. MemoryInv'
    <2>1. ASSUME NEW p \in PagesOf(next)' PROVE p \in new /\ p \in PageIndex
      <3>1. PICK i \in 0 .. n - 1 : p = (next_page_frame + i) % NumPageFrames
        BY <1>9, <1>0 DEF PagesOf
      <3>2. i \in Nat /\ i < NumPageFrames
        BY <3>1, <1>2, <1>3, QueueAssumption
      <3> QED BY <3>1, <3>2, <1>2, PageFresh DEF new
    <2>2. ASSUME NEW f \in Live, NEW p \in PagesOf(f) PROVE p \notin new /\ p \in PageIndex
      <3>1. /\ p \in PageIndex /\ PageDist(p, next_page_frame) \in Nat
            /\ PageDist(p, next_page_frame) >= 1
            /\ PageDist(p, next_page_frame) <= page_frames_allocated
        BY <1>1, <1>2, <1>15, LivePages
      <3>2. ASSUME NEW i \in 0 .. n - 1, p = (next_page_frame + i) % NumPageFrames PROVE FALSE
        <4>1. i \in Nat /\ i < NumPageFrames /\ i < n
          BY <1>2, <1>3, QueueAssumption
        <4>2. PageDist(p, next_page_frame) = IF i = 0 THEN 0 ELSE NumPageFrames - i
          BY <3>2, <4>1, <1>2, PageFresh
        <4> QED BY <3>1, <4>1, <4>2, <1>2, <1>3, QueueAssumption
      <3> QED BY <3>1, <3>2 DEF new
    <2>3. ASSUME NEW f \in Live', NEW p \in PagesOf(f)'
          PROVE  pages'[p] = [req |-> frames'[f].req, done |-> frames'[f].done]
      <3>1. CASE f = next
        <4>1. p \in PagesOf(next)'
          BY <3>1, <1>0 DEF PagesOf
        <4>2. pages'[p] = [req |-> req, done |-> FALSE]
          BY <4>1, <2>1, <1>w DEF new
        <4>3. frames'[f].req = req /\ frames'[f].done = FALSE
          BY <3>1, <1>9
        <4> QED BY <4>2, <4>3, Zenon
      <3>2. CASE f # next
        <4>1. f \in Live /\ frames'[f] = frames[f]
          BY <3>2, <1>8, <1>15
        <4>2. p \in PagesOf(f)
          BY <4>1 DEF PagesOf
        <4>3. pages'[p] = pages[p]
          BY <4>1, <4>2, <2>2, <1>w
        <4>4. pages[p] = [req |-> frames[f].req, done |-> frames[f].done]
          BY <4>1, <4>2, <1>1 DEF MemoryInv
        <4> QED BY <4>1, <4>3, <4>4
      <3> QED BY <3>1, <3>2
    <2> QED BY Zenon, <2>3 DEF MemoryInv
  <1>18. TypeOK'
    <2>1. frames' \in [FrameIndex -> [req : Request, first : PageIndex, len : 0 .. MaxLen, done : BOOLEAN]]
      BY <1>2, <1>10, <1>w, QueueAssumption
    <2>2. pages' \in [PageIndex -> [req : Request, done : BOOLEAN]]
      BY <1>2, <1>10, <1>w
    <2>3. page_frames_allocated' \in 0 .. NumPageFrames - 1 /\ remaining' \in 0 .. MaxBatch
      BY <1>0, <1>2, <1>3, QueueAssumption
    <2> QED BY Zenon, <2>1, <2>2, <2>3, <1>0, <1>1, <1>4, <1>14 DEF TypeOK
  <1>19. OwnerInv'
    <2>0. /\ num_queued = num_to_discard + Len(queue) /\ remaining + Len(queue) <= total
          /\ Len(queue) \in Nat /\ num_to_discard \in Nat
          /\ \A k \in 1 .. Len(queue) : queue[k] = [batch |-> batch, index |-> total - remaining - Len(queue) + k]
          /\ batch # 0
          /\ \A f \in FrameIndex : \A k \in 1 .. Len(queue) :
                Ahead(f) = num_to_discard + k - 1 => frames[f].req = queue[k]
      <3>1. Len(queue) \in Nat /\ num_to_discard \in Nat
        BY <1>1, QueueAssumption DEF TypeOK
      <3> QED BY <3>1, <1>0, <1>1, <1>2, <1>6, QueueAssumption DEF OwnerInv
    <2>n. /\ remaining + Len(queue) <= total /\ total \in Nat /\ remaining \in Nat /\ Len(queue) \in Nat
          /\ total' = total /\ remaining' = remaining - 1 /\ queue' = queue
      BY <2>0, <1>0, <1>2, QueueAssumption
    <2>1. remaining' + Len(queue)' + Held' + Prepared' <= total'
      BY <2>n, <1>6
    <2>2. \A k \in 1 .. Len(queue)' :
             queue'[k] = [batch |-> batch', index |-> total' - remaining' - Prepared' - Len(queue)' + k]
      <3>1. total' - remaining' - Prepared' - Len(queue) = total - remaining - Len(queue)
        BY <2>n, <1>6
      <3> QED BY <3>1, <2>0, <1>0
    <2>3. ASSUME NEW f \in FrameIndex, NEW k \in 1 .. Len(queue)',
                 Ahead(f)' = num_to_discard' + Held' + k - 1
          PROVE  frames'[f].req = queue'[k]
      <3>1. k \in 1 .. Len(queue) /\ Ahead(f) = num_to_discard + k - 1
        <4>1. queue' = queue /\ num_to_discard' = num_to_discard /\ num_to_discard \in Nat
          BY <2>0, <1>0
        <4>2. Ahead(f) = num_to_discard + 0 + k - 1 /\ k \in 1 .. Len(queue)
          BY <4>1, <2>3, <1>5, <1>6
        <4> QED BY <4>1, <4>2, <2>n
      <3>2. Ahead(f) < Ahead(next)
        BY <3>1, <2>0, <1>0, <1>1, <1>2, <1>7 DEF RingInv
      <3>3. f # next /\ queue' = queue
        BY <3>2, <1>0, <1>7
      <3>4. frames'[f] = frames[f]
        BY <3>3, <1>9
      <3> QED BY <3>1, <3>3, <3>4, <2>0
    <2> QED BY <2>0, <2>1, <2>2, <2>3, <1>0, <1>4, <1>6, <1>9, <1>10 DEF OwnerInv
  <1>20. RoomInv' /\ NeverOutOfPages'
    BY <1>4 DEF RoomInv, NeverOutOfPages
  <1>21. ResultBelongsToRequest' /\ NoneOnlyAtEnd'
    BY <1>0 DEF IInv, ResultBelongsToRequest, NoneOnlyAtEnd, GoodResult
  <1> QED BY <1>11, <1>13, <1>16, <1>17, <1>18, <1>19, <1>20, <1>21 DEF IInv

(* The command becomes visible to the client; the request joins the queue. *)
LEMMA PublishInv == IInv /\ CallInv /\ Publish => IInv'
  <1> SUFFICES ASSUME IInv, CallInv, Publish PROVE IInv'
    OBVIOUS
  <1>0. /\ pc = "publish" /\ pc' = "fill" /\ next' = Inc(next) /\ num_queued' = num_queued + 1
        /\ queue' = Append(queue, frames[next].req)
        /\ UNCHANGED <<current, frames, pages, hostRead, hostCached, page_frames_allocated,
                       next_page_frame, waiting, num_to_discard, batch, total, remaining, entry, result,
                       clientRead, clientCached, clientFrame, clientPc, alive>>
    BY DEF Publish, hostQVars, clientVars
  <1>1. TypeOK /\ RingInv /\ OwnerInv /\ DoneInv /\ PageInv /\ MemoryInv
    BY DEF IInv
  <1>2. /\ next \in FrameIndex /\ hostRead \in FrameIndex /\ queue \in Seq(Request)
        /\ num_queued = Ahead(next) /\ num_queued < NumCommandFrames - 1 /\ num_queued \in Nat
        /\ frames[next].req \in Request
    BY <1>0, <1>1, QueueAssumption DEF TypeOK, RingInv
  <1>3. next' \in FrameIndex /\ Ahead(next)' = Ahead(next) + 1
    <2>1. Dist(hostRead, Inc(next)) = Dist(hostRead, next) + 1 /\ Inc(next) \in FrameIndex
      BY <1>2, DistIncTarget, IncValue DEF Ahead
    <2> QED BY <2>1, <1>0 DEF Ahead, Dist
  <1>4. \A f \in FrameIndex : Ahead(f)' = Ahead(f) /\ Behind(f)' = Behind(f) /\ PagesOf(f)' = PagesOf(f)
    BY <1>0 DEF Ahead, Dist, Behind, PageDist, PagesOf
  <1>5. /\ Prepared = 1 /\ Prepared' = 0 /\ Held = 0 /\ Held' = 0
        /\ LiveLen' = LiveLen /\ LiveLen = num_queued + 1
    BY <1>0, <1>1, <1>2, <1>3 DEF Prepared, Held, LiveLen, OwnerInv
  <1>6. Live' = Live
    BY <1>4, <1>5 DEF Live
  <1>7. /\ Ahead(hostCached)' = Ahead(hostCached) /\ Ahead(current)' = Ahead(current)
        /\ Ahead(clientRead)' = Ahead(clientRead) /\ Ahead(clientCached)' = Ahead(clientCached)
        /\ Ahead(clientCached) \in Nat
    BY <1>0, <1>1, AheadType, QueueAssumption DEF Ahead, Dist, TypeOK
  <1>8. RingInv'
    BY <1>0, <1>1, <1>2, <1>3, <1>7 DEF RingInv
  <1>9. DoneInv'
    BY <1>0, <1>1, <1>4, <1>7 DEF DoneInv
  <1>10. PageInv'
    <2>1. \A f \in Live : f \in FrameIndex
      BY DEF Live
    <2> QED BY <2>1, <1>0, <1>1, <1>4, <1>5, <1>6 DEF PageInv
  <1>11. MemoryInv'
    <2>1. \A f \in Live : f \in FrameIndex
      BY DEF Live
    <2> QED BY <2>1, <1>0, <1>1, <1>4, <1>6 DEF MemoryInv
  <1>12. /\ queue' \in Seq(Request) /\ Len(queue) \in Nat /\ Len(queue') = Len(queue) + 1
         /\ \A k \in 1 .. Len(queue) : queue'[k] = queue[k]
         /\ queue'[Len(queue) + 1] = frames[next].req
    <2>1. queue \in Seq(Request) /\ frames[next].req \in Request /\ queue' = Append(queue, frames[next].req)
      BY <1>0, <1>2
    <2> QED BY <2>1, AppendFacts
  <1>13. TypeOK'
    <2>1. num_queued' \in 0 .. NumCommandFrames - 1
      BY <1>0, <1>2, QueueAssumption
    <2> QED BY <2>1, <1>0, <1>1, <1>3, <1>12 DEF TypeOK
  <1>14. OwnerInv'
    <2>n. /\ num_to_discard \in Nat /\ total \in Nat /\ remaining \in Nat /\ Len(queue) \in Nat
          /\ num_queued = num_to_discard + Len(queue) /\ num_queued' = num_queued + 1
          /\ remaining + Len(queue) + 1 <= total /\ batch # 0
          /\ num_to_discard' = num_to_discard /\ total' = total /\ remaining' = remaining /\ batch' = batch
          /\ Len(queue') = Len(queue) + 1
      <3>1. num_to_discard \in Nat /\ total \in Nat /\ remaining \in Nat
        BY <1>1, QueueAssumption DEF TypeOK
      <3>2. num_queued = num_to_discard + Len(queue) /\ remaining + Len(queue) + 1 <= total /\ batch # 0
        BY <3>1, <1>0, <1>1, <1>5, <1>12 DEF OwnerInv
      <3> QED BY <3>1, <3>2, <1>0, <1>12
    <2>0. /\ \A k \in 1 .. Len(queue) :
                queue[k] = [batch |-> batch, index |-> total - remaining - 1 - Len(queue) + k]
          /\ frames[next].req = [batch |-> batch, index |-> total - remaining]
          /\ \A f \in FrameIndex : \A k \in 1 .. Len(queue) :
                Ahead(f) = num_to_discard + k - 1 => frames[f].req = queue[k]
      <3>1. \A k \in Nat : num_to_discard + 0 + k - 1 = num_to_discard + k - 1
        BY <2>n
      <3>2. \A f \in FrameIndex : \A k \in 1 .. Len(queue) :
                Ahead(f) = num_to_discard + k - 1 => frames[f].req = queue[k]
        BY <3>1, <1>1, <1>5 DEF OwnerInv
      <3>3. \A k \in 1 .. Len(queue) :
                queue[k] = [batch |-> batch, index |-> total - remaining - 1 - Len(queue) + k]
        BY <1>1, <1>5 DEF OwnerInv
      <3>4. frames[next].req = [batch |-> batch, index |-> total - remaining]
        BY <1>0, <1>1 DEF OwnerInv
      <3> QED BY <3>2, <3>3, <3>4
    <2>1. /\ num_queued' = num_to_discard' + Len(queue') + Held'
          /\ remaining' + Len(queue') + Held' + Prepared' <= total'
      BY <2>n, <1>5
    <2>2. ASSUME NEW k \in 1 .. Len(queue')
          PROVE  /\ k \in 1 .. Len(queue) \/ k = Len(queue) + 1
                 /\ queue'[k] = [batch |-> batch', index |-> total' - remaining' - Prepared' - Len(queue') + k]
      <3>1. k \in 1 .. Len(queue) \/ k = Len(queue) + 1
        BY <1>12
      <3>2. total' - remaining' - Prepared' - Len(queue') + k = total - remaining - 1 - Len(queue) + k
        BY <2>n, <1>5
      <3>3. total - remaining - 1 - Len(queue) + (Len(queue) + 1) = total - remaining
        BY <2>n
      <3> QED BY Zenon, <3>1, <3>2, <3>3, <2>0, <2>n, <1>12
    <2>3. ASSUME NEW f \in FrameIndex, NEW k \in 1 .. Len(queue'),
                 Ahead(f)' = num_to_discard' + Held' + k - 1
          PROVE  frames'[f].req = queue'[k]
      <3>1. Ahead(f) = num_to_discard + k - 1 /\ frames'[f] = frames[f]
        <4>1. Ahead(f) = num_to_discard + 0 + k - 1 /\ k \in Nat
          BY <2>3, <2>n, <1>4, <1>5
        <4> QED BY <4>1, <2>n, <1>0
      <3>2. CASE k \in 1 .. Len(queue)
        BY <3>1, <3>2, <2>0, <1>12
      <3>3. CASE k = Len(queue) + 1
        <4>1. Ahead(f) = Ahead(next)
          BY <3>1, <3>3, <2>n, <1>2
        <4>2. f = next
          BY <4>1, <1>1, <1>2, AheadType
        <4> QED BY <4>2, <3>1, <3>3, <1>12
      <3> QED BY Zenon, <3>2, <3>3, <2>2
    <2>4. /\ Held' = 1 => FALSE
          /\ pc' = "fill" /\ batch' # 0
      BY <2>n, <1>0, <1>5
    <2>5. /\ \A k \in 1 .. Len(queue') :
                queue'[k] = [batch |-> batch', index |-> total' - remaining' - Prepared' - Len(queue') + k]
          /\ \A f \in FrameIndex : \A k \in 1 .. Len(queue') :
                Ahead(f)' = num_to_discard' + Held' + k - 1 => frames'[f].req = queue'[k]
      BY <2>2, <2>3
    <2> QED BY <2>1, <2>4, <2>5 DEF OwnerInv
  <1>15. RoomInv'
    <2>1. queue' # <<>>
      BY <1>12
    <2> QED BY <2>1 DEF RoomInv
  <1>16. ResultBelongsToRequest' /\ NeverOutOfPages' /\ NoneOnlyAtEnd'
    <2>1. result.kind # "none"
      BY <1>0 DEF CallInv, NoResult
    <2> QED BY <2>1, <1>0 DEF IInv, ResultBelongsToRequest, NoneOnlyAtEnd, GoodResult, NeverOutOfPages
  <1> QED BY <1>8, <1>9, <1>10, <1>11, <1>13, <1>14, <1>15, <1>16 DEF IInv

-----------------------------------------------------------------------------
(* The theorems.                                                           *)

(* The initial state: empty rings and no iterator. *)
LEMMA InitInv == Init => IInv
  <1> SUFFICES ASSUME Init PROVE IInv
    OBVIOUS
  <1>1. 0 \in FrameIndex /\ 0 \in PageIndex /\ NoRequest \in Request
    BY QueueAssumption DEF FrameIndex, PageIndex, NoRequest, Request
  <1>2. /\ Ahead(next) = 0 /\ Ahead(hostCached) = 0 /\ Ahead(current) = 0
        /\ Ahead(clientRead) = 0 /\ Ahead(clientCached) = 0
    BY QueueAssumption DEF Init, Ahead, Dist
  <1>3. TypeOK
    BY <1>1, QueueAssumption DEF Init, TypeOK
  <1>4. Prepared = 0 /\ Held = 0 /\ LiveLen = 0
    BY <1>2 DEF Init, Prepared, Held, LiveLen
  <1>5. Live = {}
    BY <1>3, <1>4, AheadType, QueueAssumption DEF Live
  <1>6. RingInv
    BY <1>2, QueueAssumption DEF Init, RingInv
  <1>7. OwnerInv
    BY <1>4, QueueAssumption DEF Init, OwnerInv
  <1>8. DoneInv
    <2>1. \A f \in FrameIndex : Ahead(f) \in Nat
      BY <1>3, AheadType, QueueAssumption
    <2> QED BY <2>1, <1>2 DEF Init, DoneInv
  <1>9. PageInv /\ MemoryInv
    BY <1>5 DEF Init, PageInv, MemoryInv
  <1>10. RoomInv /\ ResultBelongsToRequest /\ NeverOutOfPages /\ NoneOnlyAtEnd
    BY DEF Init, RoomInv, ResultBelongsToRequest, NeverOutOfPages, NoneOnlyAtEnd, NoResult
  <1> QED BY <1>3, <1>6, <1>7, <1>8, <1>9, <1>10 DEF IInv

(* A step that changes nothing. *)
LEMMA StutterInv == IInv /\ UNCHANGED vars => IInv'
  <1> SUFFICES ASSUME IInv, UNCHANGED vars PROVE IInv'
    OBVIOUS
  <1>1. UNCHANGED quietVars /\ UNCHANGED <<pc, batch, total, remaining, queue, entry, result, waiting,
                                           num_to_discard, alive>>
    BY DEF vars, quietVars, ringVars, hostQVars, countVars, iterVars, clientVars
  <1>2. RingInv' /\ DoneInv' /\ PageInv' /\ MemoryInv'
    BY <1>1, QuietStep DEF IInv
  <1>7. OwnerInv'
    BY <1>1 DEF IInv, quietVars, OwnerInv, Held, Prepared, Ahead, Dist
  <1>8. TypeOK'
    BY <1>1 DEF IInv, quietVars, TypeOK
  <1>9. RoomInv' /\ ResultBelongsToRequest' /\ NeverOutOfPages' /\ NoneOnlyAtEnd'
    BY <1>1 DEF IInv, quietVars, RoomInv, QueueFull, ResultBelongsToRequest, GoodResult,
                NeverOutOfPages, NoneOnlyAtEnd
  <1> QED BY <1>2, <1>7, <1>8, <1>9 DEF IInv

(* A call in progress has no answer yet: CallInv is inductive by itself. *)
LEMMA CallInvInductive == (Init => CallInv) /\ (CallInv /\ [Next]_vars => CallInv')
  <1>1. Init => CallInv
    BY DEF Init, CallInv
  <1>2. ASSUME CallInv, [Next]_vars PROVE CallInv'
    <2> USE <1>2 DEF CallInv
    <2>1. CASE \E n \in 0 .. MaxBatch : BatchIter(n)
      BY <2>1 DEF BatchIter
    <2>2. CASE CallNext \/ DropIter
      BY <2>2 DEF CallNext, DropIter
    <2>3. CASE DiscardDone \/ DiscardResult \/ DiscardWait
      BY <2>3 DEF DiscardDone, DiscardResult, DiscardWait, NotReceived
    <2>4. CASE \E n \in 1 .. MaxLen : Setup(n)
      BY <2>4 DEF Setup
    <2>5. CASE Publish \/ FillEnd
      BY <2>5 DEF Publish, FillEnd
    <2>6. CASE RecvDiscard \/ RecvResult \/ RecvWait
      BY <2>6 DEF RecvDiscard, RecvResult, RecvWait, NotReceived, iterVars
    <2>7. CASE ClientStep \/ VmDies
      BY <2>7 DEF ClientStep, ClientReceive, ClientObserve, ClientMark, VmDies, iterVars
    <2>8. CASE UNCHANGED vars
      BY <2>8 DEF vars, iterVars
    <2> QED BY <2>1, <2>2, <2>3, <2>4, <2>5, <2>6, <2>7, <2>8 DEF Next, HostStep
  <1> QED BY <1>1, <1>2

(* Every step of the host, of the client and of the machine keeps IInv. *)
LEMMA NextInv == IInv /\ CallInv /\ [Next]_vars => IInv'
  <1> SUFFICES ASSUME IInv, CallInv, [Next]_vars PROVE IInv'
    OBVIOUS
  <1>1. CASE \E n \in 0 .. MaxBatch : BatchIter(n)
    BY <1>1, BatchIterInv
  <1>2. CASE CallNext \/ DropIter \/ VmDies
    BY <1>2, CallNextInv, DropIterInv, VmDiesInv
  <1>3. CASE DiscardDone \/ DiscardResult \/ DiscardWait
    BY <1>3, DiscardDoneInv, DiscardResultInv, DiscardWaitInv
  <1>4. CASE \E n \in 1 .. MaxLen : Setup(n)
    BY <1>4, SetupInv
  <1>5. CASE Publish \/ FillEnd
    BY <1>5, PublishInv, FillEndInv
  <1>6. CASE RecvDiscard \/ RecvResult \/ RecvWait
    BY <1>6, RecvDiscardInv, RecvResultInv, RecvWaitInv
  <1>7. CASE ClientStep
    BY <1>7, ClientReceiveInv, ClientObserveInv, ClientMarkInv DEF ClientStep
  <1>8. CASE UNCHANGED vars
    BY <1>8, StutterInv
  <1> QED BY <1>1, <1>2, <1>3, <1>4, <1>5, <1>6, <1>7, <1>8 DEF Next, HostStep

(* The inductive invariant holds in every reachable state, for every number *)
(* of command frames, page frames and requests: the indices of the two     *)
(* sides stay in order around the ring and the pages of the commands that  *)
(* vm.rs still expects results for are disjoint.                           *)
THEOREM Invariance == Spec => [](IInv /\ CallInv)
  <1>1. Init => IInv /\ CallInv
    BY InitInv, CallInvInductive
  <1>2. IInv /\ CallInv /\ [Next]_vars => (IInv /\ CallInv)'
    BY NextInv, CallInvInductive
  <1> QED BY <1>1, <1>2, PTL DEF Spec

(* Every variable keeps its type; in particular num_queued and             *)
(* page_frames_allocated, unsigned in vm.rs, never underflow.              *)
THEOREM TypeCorrect == Spec => []TypeOK
  <1>1. IInv => TypeOK
    BY DEF IInv
  <1> QED BY <1>1, Invariance, PTL

(* ObserveIter::next pairs every request with its own executed result. *)
THEOREM ResultsCorrect == Spec => []ResultBelongsToRequest
  <1>1. IInv => ResultBelongsToRequest
    BY DEF IInv
  <1> QED BY <1>1, Invariance, PTL

(* PageAllocator never panics under the margin kept by queue_full. *)
THEOREM PagesSuffice == Spec => []NeverOutOfPages
  <1>1. IInv => NeverOutOfPages
    BY DEF IInv
  <1> QED BY <1>1, Invariance, PTL

(* ObserveIter::next returns None only after every result was returned. *)
THEOREM EndsOnlyAtEnd == Spec => []NoneOnlyAtEnd
  <1>1. IInv => NoneOnlyAtEnd
    BY DEF IInv
  <1> QED BY <1>1, Invariance, PTL
(* The frames the host expects results for are live. *)
LEMMA OutstandingLive ==
    ASSUME TypeOK
    PROVE  Outstanding \subseteq Live
  <1>1. \A f \in FrameIndex : Dist(hostRead, f) \in Nat /\ Dist(hostRead, next) \in Nat
    BY AheadType, QueueAssumption DEF TypeOK, Ahead
  <1> QED BY <1>1 DEF Outstanding, Live, LiveLen, Prepared, Ahead

(* The client's frame is never the one the host prepares or reads next, and *)
(* the page frames of two expected commands are disjoint.                  *)
THEOREM FramesNotShared == Spec => []NoSharedFrames
  <1>1. ASSUME IInv PROVE NoSharedFrames
    <2>1. TypeOK /\ RingInv /\ PageInv
      BY <1>1 DEF IInv
    <2>2. ASSUME clientPc # "poll"
          PROVE  /\ clientFrame # next /\ clientFrame \in Outstanding
                 /\ Dist(hostRead, current) <= Dist(hostRead, clientFrame)
      <3>1. /\ Ahead(current) \in Nat /\ Ahead(clientRead) \in Nat
            /\ Ahead(clientCached) \in Nat /\ Ahead(next) \in Nat
            /\ current \in FrameIndex
        BY <2>1, AheadType, QueueAssumption DEF TypeOK
      <3>2. clientFrame = current /\ Ahead(current) < Ahead(next)
        BY <3>1, <2>1, <2>2 DEF RingInv
      <3> QED BY <3>1, <3>2 DEF Outstanding, Ahead
    <2>3. \A f, g \in Outstanding : f # g => PagesOf(f) \cap PagesOf(g) = {}
      BY <2>1, OutstandingLive, LivePagesDisjoint
    <2> QED BY <2>2, <2>3 DEF NoSharedFrames
  <1> QED BY <1>1, Invariance, PTL

(* Writing a command leaves the live frames and their pages alone. *)
LEMMA SetupKeepsLive ==
    ASSUME TypeOK, RingInv, OwnerInv, PageInv, NEW n \in 1 .. MaxLen, Setup(n), NEW f \in Live
    PROVE  /\ frames'[f] = frames[f]
           /\ \A p \in PagesOf(f) : pages'[p] = pages[p]
  <1>1. /\ page_frames_allocated \in Nat /\ n \in Nat /\ n >= 1
        /\ page_frames_allocated + n < NumPageFrames /\ next_page_frame \in PageIndex
        /\ f \in FrameIndex /\ next \in FrameIndex
    BY QueueAssumption DEF Setup, QueueFull, TypeOK, Live
  <1>2. f # next
    <2>1. LiveLen = Ahead(next) /\ Ahead(next) \in Nat
      BY AheadType, <1>1, QueueAssumption DEF LiveLen, Prepared, Setup
    <2> QED BY <2>1, QueueAssumption DEF Live
  <1>3. frames'[f] = frames[f]
    BY <1>1, <1>2 DEF Setup, TypeOK
  <1>4. ASSUME NEW p \in PagesOf(f) PROVE pages'[p] = pages[p]
    <2>1. /\ p \in PageIndex /\ PageDist(p, next_page_frame) \in Nat
          /\ PageDist(p, next_page_frame) >= 1 /\ PageDist(p, next_page_frame) <= Behind(f)
      BY LivePages
    <2>2. Behind(f) <= page_frames_allocated /\ Behind(f) \in Nat
      BY <1>1, BehindType, QueueAssumption DEF PageInv
    <2>3. ASSUME NEW i \in 0 .. n - 1, p = (next_page_frame + i) % NumPageFrames PROVE FALSE
      <3>1. i \in Nat /\ i < NumPageFrames /\ i < n
        BY <1>1, QueueAssumption
      <3>2. PageDist(p, next_page_frame) = IF i = 0 THEN 0 ELSE NumPageFrames - i
        BY <2>3, <3>1, <1>1, PageFresh
      <3> QED BY <2>1, <2>2, <3>1, <3>2, <1>1, QueueAssumption
    <2> QED BY <2>1, <2>3 DEF Setup
  <1> QED BY <1>3, <1>4

(* Only Setup goes from filling to publishing. *)
LEMMA OnlySetupPrepares ==
    ASSUME Next, pc = "fill", pc' = "publish"
    PROVE  \E n \in 1 .. MaxLen : Setup(n)
  <1>1. CASE \E n \in 0 .. MaxBatch : BatchIter(n)
    BY <1>1 DEF BatchIter
  <1>2. CASE CallNext \/ DropIter \/ VmDies
    BY <1>2 DEF CallNext, DropIter, VmDies, iterVars
  <1>3. CASE DiscardDone \/ DiscardResult \/ DiscardWait
    BY <1>3 DEF DiscardDone, DiscardResult, DiscardWait
  <1>4. CASE Publish \/ FillEnd \/ RecvDiscard \/ RecvResult \/ RecvWait
    BY <1>4 DEF Publish, FillEnd, RecvDiscard, RecvResult, RecvWait
  <1>5. CASE ClientStep
    BY <1>5 DEF ClientStep, ClientReceive, ClientObserve, ClientMark, iterVars
  <1> QED BY <1>1, <1>2, <1>3, <1>4, <1>5 DEF Next, HostStep

(* enqueue_command_unchecked never writes a frame or a page of a command   *)
(* whose result has not been received.                                     *)
THEOREM SetupIsolated == Spec => SetupKeepsLiveCommands
  <1> DEFINE Keeps == pc = "fill" /\ pc' = "publish" =>
                        \A f \in Outstanding : /\ frames'[f] = frames[f]
                                               /\ \A p \in PagesOf(f) : pages'[p] = pages[p]
  <1>1. ASSUME IInv, [Next]_vars PROVE [Keeps]_vars
    <2> SUFFICES ASSUME Next, pc = "fill", pc' = "publish", NEW f \in Outstanding
                 PROVE  /\ frames'[f] = frames[f]
                        /\ \A p \in PagesOf(f) : pages'[p] = pages[p]
      BY <1>1
    <2>1. PICK n \in 1 .. MaxLen : Setup(n)
      BY OnlySetupPrepares
    <2>2. TypeOK /\ RingInv /\ OwnerInv /\ PageInv
      BY <1>1 DEF IInv
    <2> QED BY <2>1, <2>2, OutstandingLive, SetupKeepsLive
  <1> QED BY <1>1, Invariance, PTL DEF Spec, SetupKeepsLiveCommands
-----------------------------------------------------------------------------
(* VmObserver implements BatchObserver.                                    *)

(* The variables that the refinement mapping looks at. *)
seenVars == <<pc, batch, total, remaining, queue, entry, result, alive>>

(* Steps that change none of them are abstract stuttering steps. *)
LEMMA SeenStutter ==
    ASSUME UNCHANGED seenVars
    PROVE  UNCHANGED <<AbstractPhase, batch, total, returned, AbstractOut, alive>>
  BY DEF seenVars, AbstractPhase, returned, AbstractOut, GoodResult

(* Every step of the detailed specification is an abstract step or none. *)
LEMMA StepSimulation ==
    ASSUME IInv, CallInv, IInv', [Next]_vars
    PROVE  [Abstract!ANext]_(Abstract!avars)
  <1>0. /\ total \in Nat /\ remaining \in Nat /\ Len(queue) \in Nat /\ queue \in Seq(Request)
        /\ total \in 0 .. MaxBatch /\ MaxBatch \in Nat
    BY QueueAssumption DEF IInv, TypeOK
  <1>1. CASE \E n \in 0 .. MaxBatch : BatchIter(n)
    <2>1. PICK n \in 0 .. MaxBatch : BatchIter(n)
      BY <1>1
    <2>2. AbstractPhase = "idle" /\ AbstractPhase' = "opening"
      BY <2>1 DEF BatchIter, AbstractPhase
    <2>3. returned' = 0
      <3>1. total' = n /\ remaining' = n /\ queue' = <<>> /\ pc' = "discard" /\ entry' = NoRequest /\ n \in Nat
        BY <2>1, <1>0 DEF BatchIter
      <3>2. returned' = total' - remaining' - Len(queue')
        BY <3>1 DEF returned
      <3>3. Len(queue') = 0
        BY <3>1
      <3>4. total' = n /\ remaining' = n /\ n \in Nat
        BY <3>1
      <3> QED BY <3>2, <3>3, <3>4
    <2>4. AbstractOut' = Abstract!Nothing
      BY <2>1 DEF BatchIter, AbstractOut, NoResult, Abstract!Nothing
    <2> QED BY <2>1, <2>2, <2>3, <2>4 DEF BatchIter, clientVars, Abstract!ANext, Abstract!AOpen
  <1>2. CASE CallNext
    <2>1. AbstractPhase = "open" /\ AbstractPhase' = "calling"
      BY <1>2 DEF CallNext, AbstractPhase
    <2>2. returned' = returned
      BY <1>2 DEF CallNext, returned
    <2>3. AbstractOut' = Abstract!Nothing
      BY <1>2 DEF CallNext, AbstractOut, NoResult, Abstract!Nothing
    <2> QED BY <1>2, <2>1, <2>2, <2>3 DEF CallNext, clientVars, Abstract!ANext, Abstract!ACall
  <1>3. CASE DropIter
    <2>1. AbstractPhase = "open" /\ AbstractPhase' = "idle"
      BY <1>3 DEF DropIter, AbstractPhase
    <2>2. entry = NoRequest /\ Len(queue') = 0
      BY <1>3 DEF DropIter, IInv, OwnerInv, Held
    <2>3. returned' = 0
      <3>1. total' = 0 /\ remaining' = 0 /\ pc' = "idle" /\ entry' = NoRequest
        BY <1>3, <2>2 DEF DropIter
      <3>2. returned' = total' - remaining' - Len(queue')
        BY <3>1, <2>2 DEF returned
      <3> QED BY <3>1, <3>2, <2>2
    <2>4. AbstractOut' = Abstract!Nothing
      BY <1>3 DEF DropIter, AbstractOut, NoResult, Abstract!Nothing
    <2> QED BY <1>3, <2>1, <2>3, <2>4 DEF DropIter, clientVars, Abstract!ANext, Abstract!ADrop
  <1>4. CASE VmDies
    <2>1. UNCHANGED <<AbstractPhase, batch, total, returned, AbstractOut>>
      BY <1>4 DEF VmDies, iterVars, AbstractPhase, returned, AbstractOut, GoodResult
    <2> QED BY <1>4, <2>1 DEF VmDies, Abstract!ANext, Abstract!AVmDies
  <1>5. CASE DiscardDone \/ DiscardResult \/ DiscardWait
    <2>1. pc = "discard" /\ pc' \in {"discard", "iter", "crashed"} /\ (pc' = "crashed" => ~alive)
          /\ UNCHANGED <<batch, total, remaining, queue, entry, result, alive>>
      BY <1>5 DEF DiscardDone, DiscardResult, DiscardWait, NotReceived, clientVars
    <2>2. UNCHANGED <<returned, AbstractOut>>
      BY <2>1 DEF returned, AbstractOut, GoodResult
    <2>3. AbstractPhase = "opening" /\ AbstractPhase' \in {"opening", "open", "failed"}
          /\ (AbstractPhase' = "failed" => ~alive)
      BY <2>1 DEF AbstractPhase
    <2> QED BY <2>1, <2>2, <2>3 DEF Abstract!ANext, Abstract!AOpened, Abstract!AFail, Abstract!avars
  <1>6. CASE \E n \in 1 .. MaxLen : Setup(n)
    <2>1. /\ pc = "fill" /\ pc' = "publish" /\ remaining' = remaining - 1 /\ entry = NoRequest
          /\ UNCHANGED <<batch, total, queue, entry, result, alive>>
      BY <1>6 DEF Setup, clientVars, IInv, NeverOutOfPages, OwnerInv, Held
    <2>2. UNCHANGED <<AbstractPhase, AbstractOut, returned>>
      <3>1. returned' = returned
        BY <2>1, <1>0 DEF returned
      <3> QED BY <2>1, <3>1 DEF AbstractPhase, AbstractOut, GoodResult
    <2> QED BY <2>1, <2>2 DEF Abstract!avars
  <1>7. CASE Publish
    <2>1. /\ pc = "publish" /\ pc' = "fill" /\ entry = NoRequest /\ queue' = Append(queue, frames[next].req)
          /\ UNCHANGED <<batch, total, remaining, entry, result, alive>>
      BY <1>7 DEF Publish, clientVars, IInv, OwnerInv, Held
    <2>2. Len(queue') = Len(queue) + 1
      <3>1. frames[next].req \in Request
        BY Zenon DEF IInv, TypeOK
      <3> QED BY <2>1, <3>1, <1>0, AppendFacts
    <2>3. returned' = returned
      BY <2>1, <2>2, <1>0 DEF returned
    <2>4. UNCHANGED <<AbstractPhase, AbstractOut>>
      BY <2>1 DEF AbstractPhase, AbstractOut, GoodResult
    <2> QED BY <2>1, <2>3, <2>4 DEF Abstract!avars
  <1>8. CASE FillEnd /\ queue = <<>>
    <2>1. /\ pc = "fill" /\ pc' = "iter" /\ result' = NoneResult /\ entry = NoRequest /\ remaining = 0
          /\ UNCHANGED <<batch, total, remaining, queue, entry, alive>>
      BY <1>8 DEF FillEnd, clientVars, IInv, RoomInv, OwnerInv, Held
    <2>2. Len(queue) = 0
      BY <1>8
    <2>3. returned = total /\ returned' = total
      BY <2>1, <2>2, <1>0 DEF returned
    <2>4. AbstractPhase = "calling" /\ AbstractPhase' = "open"
      BY <2>1 DEF AbstractPhase
    <2>5. AbstractOut' = Abstract!None
      BY <2>1 DEF AbstractOut, NoneResult, Abstract!None
    <2> QED BY <2>1, <2>3, <2>4, <2>5 DEF Abstract!ANext, Abstract!AReturnNone
  <1>9. CASE FillEnd /\ queue # <<>>
    <2>1. /\ pc = "fill" /\ pc' = "recv" /\ entry = NoRequest /\ queue' = Tail(queue)
          /\ UNCHANGED <<batch, total, remaining, result, alive>>
      BY <1>9 DEF FillEnd, clientVars, IInv, OwnerInv, Held
    <2>2. Len(queue') = Len(queue) - 1
      BY <2>1, <1>0, <1>9, HeadTailFacts
    <2>3. entry' # NoRequest
      BY <2>1 DEF IInv, OwnerInv, Held
    <2>4. returned' = returned
      <3>1. returned' = total' - remaining' - Len(queue') - 1
        BY <2>3 DEF returned
      <3>2. returned = total - remaining - Len(queue)
        BY <2>1, <1>0 DEF returned
      <3>3. total' = total /\ remaining' = remaining
        BY <2>1
      <3>4. total \in Nat /\ remaining \in Nat /\ Len(queue) \in Nat
        BY <1>0
      <3> QED BY <3>1, <3>2, <3>3, <3>4, <2>2
    <2>5. UNCHANGED <<AbstractPhase, AbstractOut>>
      BY <2>1 DEF AbstractPhase, AbstractOut, GoodResult
    <2> QED BY <2>1, <2>4, <2>5 DEF Abstract!avars
  <1>10. CASE RecvDiscard \/ RecvWait
    <2>1. pc = "recv" /\ pc' \in {"recv", "crashed"} /\ (pc' = "crashed" => ~alive)
          /\ UNCHANGED <<batch, total, remaining, queue, entry, result, alive>>
      BY <1>10 DEF RecvDiscard, RecvWait, NotReceived, clientVars, iterVars
    <2>2. UNCHANGED <<returned, AbstractOut>>
      BY <2>1 DEF returned, AbstractOut, GoodResult
    <2>3. AbstractPhase = "calling" /\ AbstractPhase' \in {"calling", "failed"}
          /\ (AbstractPhase' = "failed" => ~alive)
      BY <2>1 DEF AbstractPhase
    <2> QED BY <2>1, <2>2, <2>3 DEF Abstract!ANext, Abstract!AFail, Abstract!avars
  <1>11. CASE RecvResult
    <2>1. /\ pc = "recv" /\ pc' = "iter" /\ entry # NoRequest /\ entry' = NoRequest
          /\ result'.kind = "result" /\ result'.entry = entry
          /\ UNCHANGED <<batch, total, remaining, queue, alive>>
      BY <1>11 DEF RecvResult, clientVars, IInv, OwnerInv, Held
    <2>2. /\ entry = [batch |-> batch, index |-> total - remaining - Len(queue)]
          /\ remaining + Len(queue) + 1 <= total
      <3>1. OwnerInv /\ Held = 1 /\ Prepared = 0
        BY <2>1 DEF IInv, Held, Prepared
      <3> QED BY <3>1, <1>0 DEF OwnerInv
    <2>3. /\ returned = total - remaining - Len(queue) - 1
          /\ returned' = total - remaining - Len(queue)
      BY <2>1, <1>0 DEF returned
    <2>4. returned' = returned + 1 /\ returned < total /\ entry = [batch |-> batch, index |-> returned + 1]
      BY <2>2, <2>3, <1>0
    <2>5. AbstractOut' = [kind |-> "result", batch |-> entry.batch, index |-> entry.index]
      <3>1. GoodResult(result)'
        BY <2>1 DEF IInv, ResultBelongsToRequest
      <3> QED BY <2>1, <3>1 DEF AbstractOut
    <2>6. AbstractOut' = Abstract!Result(batch, returned + 1)
      BY <2>4, <2>5 DEF Abstract!Result
    <2>7. AbstractPhase = "calling" /\ AbstractPhase' = "open"
      BY <2>1 DEF AbstractPhase
    <2> QED BY <2>1, <2>4, <2>6, <2>7 DEF Abstract!ANext, Abstract!AReturn
  <1>12. CASE ClientStep \/ UNCHANGED vars
    <2>1. UNCHANGED seenVars
      BY <1>12 DEF ClientStep, ClientReceive, ClientObserve, ClientMark, vars, iterVars, clientVars, seenVars
    <2> QED BY <2>1, SeenStutter DEF Abstract!avars
  <1> QED BY <1>1, <1>2, <1>3, <1>4, <1>5, <1>6, <1>7, <1>8, <1>9, <1>10, <1>11, <1>12 DEF Next, HostStep

(* To its caller, batch_iter behaves as BatchObserver promises: call k      *)
(* returns the result of request k, None comes only at the end, and a call *)
(* fails only when the virtual machine is dead.                            *)
THEOREM Refinement == Spec => ImplementsBatchObserver
  <1>1. ASSUME Init PROVE Abstract!AInit
    <2>1. AbstractPhase = "idle" /\ AbstractOut = [kind |-> "nothing"]
      BY <1>1 DEF Init, AbstractPhase, AbstractOut, NoResult
    <2>2. returned = 0
      <3>1. total = 0 /\ remaining = 0 /\ queue = <<>> /\ pc = "idle" /\ entry = NoRequest
        BY <1>1 DEF Init
      <3>2. returned = total - remaining - Len(queue)
        BY <3>1 DEF returned
      <3>3. Len(queue) = 0
        BY <3>1
      <3>4. total = 0 /\ remaining = 0
        BY <3>1
      <3> QED BY <3>2, <3>3, <3>4
    <2> QED BY <1>1, <2>1, <2>2 DEF Init, Abstract!AInit, Abstract!Nothing
  <1>2. IInv /\ CallInv /\ (IInv /\ CallInv)' /\ [Next]_vars => [Abstract!ANext]_(Abstract!avars)
    BY StepSimulation
  <1> QED BY <1>1, <1>2, Invariance, PTL DEF Spec, ImplementsBatchObserver, Abstract!ASpec
=============================================================================
