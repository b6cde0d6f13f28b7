----------------------------- MODULE VmObserver -----------------------------
(***************************************************************************)
(* One observer of the x64 virtual machine: the host side                  *)
(* (liblisa-x64-observer/src/vm.rs), the shared-memory command queue       *)
(* (liblisa-x64-observer-shmqueue) and the loop of the client inside the   *)
(* virtual machine (vmimage-x86-64) that serves this queue.                *)
(*                                                                         *)
(* The queue is a ring of command frames.  The host owns `next`, the       *)
(* client owns `current`; each side has a private read index and a cached  *)
(* copy of the other side's index.  Memory pages for the mappings of a     *)
(* request come from a second ring, the page frames.  Iterators that are   *)
(* dropped early leave their commands in the queue; `num_to_discard`       *)
(* counts the results that must be thrown away.                            *)
(*                                                                         *)
(* A request is its batch number and its index in the batch; register and  *)
(* memory contents are abstracted to which request wrote them last and     *)
(* whether the client has executed it.                                     *)
(***************************************************************************)
EXTENDS Naturals, Sequences

CONSTANTS NumCommandFrames, \* command frames of the queue
          NumPageFrames,    \* page frames of the queue
          MaxLen,           \* MemoryMappings::MAX_LEN
          WaitLimit,        \* empty polls before the process is checked (10_000_000)
          MaxBatches,       \* bound: batches opened in a behaviour
          MaxBatch          \* bound: requests in a batch

ASSUME QueueAssumption ==
    /\ NumCommandFrames \in Nat /\ NumCommandFrames >= 2
    /\ NumPageFrames \in Nat /\ MaxLen \in Nat /\ MaxLen >= 1
    /\ NumPageFrames > MaxLen
    /\ WaitLimit \in Nat /\ WaitLimit >= 2
    /\ MaxBatches \in Nat /\ MaxBatch \in Nat

VARIABLES
    \* shared memory
    next, current, frames, pages,
    \* host: Queue<Host>
    hostRead, hostCached,
    \* host: VmObserver
    num_queued, page_frames_allocated, next_page_frame, waiting, num_to_discard,
    \* host: the caller and its ObserveIter
    pc, batch, total, remaining, queue, entry, result,
    \* client: Queue<Client>, the frame it works on, and its main loop
    clientRead, clientCached, clientFrame, clientPc, alive

ringVars   == <<next, current, frames, pages>>
hostQVars  == <<hostRead, hostCached>>
countVars  == <<num_queued, page_frames_allocated, next_page_frame, waiting, num_to_discard>>
iterVars   == <<pc, batch, total, remaining, queue, entry, result>>
clientVars == <<clientRead, clientCached, clientFrame, clientPc, alive>>
vars == <<ringVars, hostQVars, countVars, iterVars, clientVars>>

FrameIndex == 0 .. NumCommandFrames - 1
PageIndex  == 0 .. NumPageFrames - 1
Request    == [batch : 0 .. MaxBatches, index : 0 .. MaxBatch]
NoRequest  == [batch |-> 0, index |-> 0]

NoResult   == [kind |-> "nothing"]
NoneResult == [kind |-> "none"]

-----------------------------------------------------------------------------
(* The ring.                                                               *)

(* One step around the ring of command frames. *)
Inc(i) == (i + 1) % NumCommandFrames

(* Queue::request_available, given the owner's read index, its cached copy *)
(* of the other side's position and that position itself.                  *)
Available(read, cached, pos) == read # cached \/ read # pos

(* The cached position after request_available has run. *)
Refreshed(read, cached, pos) == IF read # cached THEN cached ELSE pos

(* The page frames mapped by the command in frame f. *)
PagesOf(f) == {(frames[f].first + i) % NumPageFrames : i \in 0 .. frames[f].len - 1}

-----------------------------------------------------------------------------
(* The host.                                                               *)

(* Fault: the page margin is one short. *)
QueueFullMarginShort == \/ num_queued >= NumCommandFrames - 1
                        \/ page_frames_allocated > NumPageFrames - MaxLen

(* VmObserver::queue_full; max_len is NumCommandFrames - 1. *)
QueueFull == \/ num_queued >= NumCommandFrames - 1
             \/ page_frames_allocated >= NumPageFrames - MaxLen

(* receive_result_unchecked when a result is there: the result is in frame *)
(* hostRead and its pages are given back.                                  *)
Received == /\ Available(hostRead, hostCached, current)
            /\ hostCached' = Refreshed(hostRead, hostCached, current)
            /\ hostRead' = Inc(hostRead)
            /\ page_frames_allocated' = page_frames_allocated - frames[hostRead].len
            /\ num_queued' = num_queued - 1
            /\ UNCHANGED <<next_page_frame, waiting>>

(* Faults: the panic does not depend on the process having exited; the     *)
(* process is never looked at.                                             *)
NotReceivedImpatient(to) == /\ ~Available(hostRead, hostCached, current)
                            /\ hostCached' = Refreshed(hostRead, hostCached, current)
                            /\ waiting' = (waiting + 1) % WaitLimit
                            /\ pc' = IF waiting + 1 >= WaitLimit THEN "crashed" ELSE to
                            /\ UNCHANGED <<hostRead, num_queued, page_frames_allocated,
                                           next_page_frame, num_to_discard>>
NotReceivedTrusting(to) == /\ ~Available(hostRead, hostCached, current)
                           /\ hostCached' = Refreshed(hostRead, hostCached, current)
                           /\ waiting' = (waiting + 1) % WaitLimit
                           /\ pc' = to
                           /\ UNCHANGED <<hostRead, num_queued, page_frames_allocated,
                                          next_page_frame, num_to_discard>>

(* receive_result_unchecked when there is none: every WaitLimit-th time the *)
(* host looks whether the virtual machine still runs and panics if not;    *)
(* otherwise the caller continues at `to`.                                 *)
NotReceived(to) == /\ ~Available(hostRead, hostCached, current)
                   /\ hostCached' = Refreshed(hostRead, hostCached, current)
                   /\ waiting' = (waiting + 1) % WaitLimit
                   /\ pc' = IF waiting + 1 >= WaitLimit /\ ~alive THEN "crashed" ELSE to
                   /\ UNCHANGED <<hostRead, num_queued, page_frames_allocated,
                                  next_page_frame, num_to_discard>>

(* VmObserver::batch_iter is called with an iterator over n requests. *)
BatchIter(n) == /\ pc = "idle"
                /\ batch < MaxBatches
                /\ pc' = "discard"
                /\ batch' = batch + 1
                /\ total' = n
                /\ remaining' = n
                /\ queue' = <<>>
                /\ entry' = NoRequest
                /\ result' = NoResult
                /\ UNCHANGED <<ringVars, hostQVars, countVars, clientVars>>

(* The loop of batch_iter that makes place for a new observation: nothing  *)
(* is left to discard, or a result to discard arrived, or none did.        *)
DiscardDone == /\ pc = "discard"
               /\ num_to_discard = 0
               /\ pc' = "iter"
               /\ UNCHANGED <<ringVars, hostQVars, countVars, batch, total, remaining,
                              queue, entry, result, clientVars>>

DiscardResult == /\ pc = "discard"
                 /\ num_to_discard > 0
                 /\ Received
                 /\ num_to_discard' = num_to_discard - 1
                 /\ pc' = IF num_to_discard = 1 THEN "iter" ELSE "discard"
                 /\ UNCHANGED <<ringVars, batch, total, remaining, queue, entry, result, clientVars>>

DiscardWait == /\ pc = "discard"
               /\ num_to_discard > 0
               /\ NotReceived(IF QueueFull THEN "discard" ELSE "iter")
               /\ UNCHANGED <<ringVars, batch, total, remaining, queue, entry, result, clientVars>>

(* ObserveIter::next is called. *)
CallNext == /\ pc = "iter"
            /\ pc' = "fill"
            /\ result' = NoResult
            /\ UNCHANGED <<ringVars, hostQVars, countVars, batch, total, remaining,
                           queue, entry, clientVars>>

(* Fault: the last page of a request is handed out again. *)
SetupReusesPage(n) ==
    LET req == [batch |-> batch, index |-> total - remaining + 1]
    IN  /\ pc = "fill"
        /\ ~QueueFull
        /\ remaining > 0
        /\ remaining' = remaining - 1
        /\ frames' = [frames EXCEPT ![next] =
                        [req |-> req, first |-> next_page_frame, len |-> n, done |-> FALSE]]
        /\ pages' = [p \in PageIndex |->
                        IF p \in {(next_page_frame + i) % NumPageFrames : i \in 0 .. n - 1}
                        THEN [req |-> req, done |-> FALSE] ELSE pages[p]]
        /\ next_page_frame' = (next_page_frame + n - 1) % NumPageFrames
        /\ page_frames_allocated' = page_frames_allocated + n
        /\ pc' = IF page_frames_allocated + n >= NumPageFrames THEN "exhausted" ELSE "publish"
        /\ UNCHANGED <<next, current, hostQVars, num_queued, waiting, num_to_discard,
                       batch, total, queue, entry, result, clientVars>>

(* enqueue_command_unchecked up to update_next: the request is written to  *)
(* frame `next` (the host's next_command_frame is its own copy of `next`)  *)
(* and n pages are taken from the page ring.  The allocator panics when    *)
(* all pages are in use.                                                   *)
Setup(n) ==
    LET req == [batch |-> batch, index |-> total - remaining + 1]
    IN  /\ pc = "fill"
        /\ ~QueueFull
        /\ remaining > 0
        /\ remaining' = remaining - 1
        /\ frames' = [frames EXCEPT ![next] =
                        [req |-> req, first |-> next_page_frame, len |-> n, done |-> FALSE]]
        /\ pages' = [p \in PageIndex |->
                        IF p \in {(next_page_frame + i) % NumPageFrames : i \in 0 .. n - 1}
                        THEN [req |-> req, done |-> FALSE] ELSE pages[p]]
        /\ next_page_frame' = (next_page_frame + n) % NumPageFrames
        /\ page_frames_allocated' = page_frames_allocated + n
        /\ pc' = IF page_frames_allocated + n >= NumPageFrames THEN "exhausted" ELSE "publish"
        /\ UNCHANGED <<next, current, hostQVars, num_queued, waiting, num_to_discard,
                       batch, total, queue, entry, result, clientVars>>

(* update_next and the bookkeeping after it; the iterator keeps the request. *)
Publish == /\ pc = "publish"
           /\ next' = Inc(next)
           /\ num_queued' = num_queued + 1
           /\ queue' = Append(queue, frames[next].req)
           /\ pc' = "fill"
           /\ UNCHANGED <<current, frames, pages, hostQVars, page_frames_allocated,
                          next_page_frame, waiting, num_to_discard, batch, total, remaining,
                          entry, result, clientVars>>

(* The fill loop ends; the oldest of the iterator's own requests is awaited, *)
(* or None is returned when it has none.                                   *)
FillEnd == /\ pc = "fill"
           /\ QueueFull \/ remaining = 0
           /\ \/ /\ queue = <<>>
                 /\ pc' = "iter"
                 /\ result' = NoneResult
                 /\ UNCHANGED <<queue, entry>>
              \/ /\ queue # <<>>
                 /\ pc' = "recv"
                 /\ entry' = Head(queue)
                 /\ queue' = Tail(queue)
                 /\ UNCHANGED result
           /\ UNCHANGED <<ringVars, hostQVars, countVars, batch, total, remaining, clientVars>>

(* The receive loop of next: a result of a dropped iterator is thrown away, *)
(* the iterator's own result is returned, or there is none yet.            *)
RecvDiscard == /\ pc = "recv"
               /\ num_to_discard > 0
               /\ Received
               /\ num_to_discard' = num_to_discard - 1
               /\ UNCHANGED <<ringVars, iterVars, clientVars>>

RecvResult == /\ pc = "recv"
              /\ num_to_discard = 0
              /\ Received
              /\ pc' = "iter"
              /\ result' = [kind |-> "result", entry |-> entry, of |-> frames[hostRead].req,
                            done |-> frames[hostRead].done,
                            memory |-> {pages[p] : p \in PagesOf(hostRead)}]
              /\ entry' = NoRequest
              /\ UNCHANGED <<ringVars, num_to_discard, batch, total, remaining, queue, clientVars>>

RecvWait == /\ pc = "recv"
            /\ NotReceived("recv")
            /\ UNCHANGED <<ringVars, batch, total, remaining, queue, entry, result, clientVars>>

(* Fault: only the iterator's own requests are counted. *)
DropIterForgetful == /\ pc = "iter"
                     /\ pc' = "idle"
                     /\ num_to_discard' = Len(queue)
                     /\ queue' = <<>>
                     /\ total' = 0 /\ remaining' = 0
                     /\ result' = NoResult
                     /\ UNCHANGED <<ringVars, hostQVars, num_queued, page_frames_allocated,
                                    next_page_frame, waiting, batch, entry, clientVars>>

(* The iterator is dropped: discard_pending. *)
DropIter == /\ pc = "iter"
            /\ pc' = "idle"
            /\ num_to_discard' = num_queued
            /\ queue' = <<>>
            /\ total' = 0 /\ remaining' = 0
            /\ result' = NoResult
            /\ UNCHANGED <<ringVars, hostQVars, num_queued, page_frames_allocated, next_page_frame,
                           waiting, batch, entry, clientVars>>

-----------------------------------------------------------------------------
(* The client.                                                             *)

(* Incoming::receive_request finds a command in this queue. *)
ClientReceive == /\ alive
                 /\ clientPc = "poll"
                 /\ Available(clientRead, clientCached, next)
                 /\ clientCached' = Refreshed(clientRead, clientCached, next)
                 /\ clientFrame' = clientRead
                 /\ clientRead' = Inc(clientRead)
                 /\ clientPc' = "observe"
                 /\ UNCHANGED <<ringVars, hostQVars, countVars, iterVars, alive>>

(* Observer::observe executes the command and writes its outcome to the    *)
(* command frame and to the mapped pages.                                  *)
ClientObserve == /\ alive
                 /\ clientPc = "observe"
                 /\ frames' = [frames EXCEPT ![clientFrame].done = TRUE]
                 /\ pages' = [p \in PageIndex |->
                                IF p \in PagesOf(clientFrame) THEN [pages[p] EXCEPT !.done = TRUE]
                                ELSE pages[p]]
                 /\ clientPc' = "mark"
                 /\ UNCHANGED <<next, current, hostQVars, countVars, iterVars,
                                clientRead, clientCached, clientFrame, alive>>

(* Incoming::mark_processed. *)
ClientMark == /\ alive
              /\ clientPc = "mark"
              /\ current' = clientRead
              /\ clientPc' = "poll"
              /\ UNCHANGED <<next, frames, pages, hostQVars, countVars, iterVars,
                             clientRead, clientCached, clientFrame, alive>>

(* The virtual machine dies: it panics, or QEMU exits or is killed. *)
VmDies == /\ alive
          /\ alive' = FALSE
          /\ UNCHANGED <<ringVars, hostQVars, countVars, iterVars,
                         clientRead, clientCached, clientFrame, clientPc>>

-----------------------------------------------------------------------------
Init == /\ next = 0 /\ current = 0
        /\ frames = [f \in FrameIndex |-> [req |-> NoRequest, first |-> 0, len |-> 0, done |-> FALSE]]
        /\ pages = [p \in PageIndex |-> [req |-> NoRequest, done |-> FALSE]]
        /\ hostRead = 0 /\ hostCached = 0
        /\ num_queued = 0 /\ page_frames_allocated = 0 /\ next_page_frame = 0
        /\ waiting = 0 /\ num_to_discard = 0
        /\ pc = "idle" /\ batch = 0 /\ total = 0 /\ remaining = 0
        /\ queue = <<>> /\ entry = NoRequest /\ result = NoResult
        /\ clientRead = 0 /\ clientCached = 0 /\ clientFrame = 0
        /\ clientPc = "poll" /\ alive = TRUE

HostStep == \/ DiscardDone \/ DiscardResult \/ DiscardWait
            \/ \E n \in 1 .. MaxLen : Setup(n)
            \/ Publish \/ FillEnd \/ RecvDiscard \/ RecvResult \/ RecvWait

ClientStep == ClientReceive \/ ClientObserve \/ ClientMark

Next == \/ \E n \in 0 .. MaxBatch : BatchIter(n)
        \/ CallNext \/ DropIter
        \/ HostStep \/ ClientStep \/ VmDies

(* The host thread runs the code it has entered, and the client loop polls; *)
(* whether the caller ever calls again is up to the caller.                *)
Fairness == WF_vars(HostStep) /\ WF_vars(ClientStep)

Spec == Init /\ [][Next]_vars
FairSpec == Spec /\ Fairness

-----------------------------------------------------------------------------
(* Properties.                                                             *)

(* Number of steps from frame a to frame b around the ring. *)
Dist(a, b) == IF b >= a THEN b - a ELSE b - a + NumCommandFrames

(* The frames whose commands the host still expects a result for. *)
Outstanding == {f \in FrameIndex : Dist(hostRead, f) < Dist(hostRead, next)}

TypeOK ==
    /\ next \in FrameIndex /\ current \in FrameIndex
    /\ frames \in [FrameIndex -> [req : Request, first : PageIndex, len : 0 .. MaxLen, done : BOOLEAN]]
    /\ pages \in [PageIndex -> [req : Request, done : BOOLEAN]]
    /\ hostRead \in FrameIndex /\ hostCached \in FrameIndex
    /\ num_queued \in 0 .. NumCommandFrames - 1
    /\ page_frames_allocated \in 0 .. NumPageFrames - 1
    /\ next_page_frame \in PageIndex
    /\ waiting \in 0 .. WaitLimit - 1
    /\ num_to_discard \in 0 .. NumCommandFrames - 1
    /\ pc \in {"idle", "discard", "iter", "fill", "publish", "recv", "crashed", "exhausted"}
    /\ batch \in 0 .. MaxBatches /\ total \in 0 .. MaxBatch /\ remaining \in 0 .. MaxBatch
    /\ queue \in Seq(Request) /\ entry \in Request
    /\ clientRead \in FrameIndex /\ clientCached \in FrameIndex /\ clientFrame \in FrameIndex
    /\ clientPc \in {"poll", "observe", "mark"} /\ alive \in BOOLEAN

(* A result handed to the caller is the outcome of the request it was asked *)
(* for: the frame belongs to that request, the client has executed it, and *)
(* every page shown with it holds that request's memory after execution.   *)
GoodResult(r) == /\ r.of = r.entry
                 /\ r.done
                 /\ r.memory = {[req |-> r.entry, done |-> TRUE]}

ResultBelongsToRequest == result.kind = "result" => GoodResult(result)

(* The allocator's panic "Ran out of page frames!" is never reached: the   *)
(* margin of MAX_LEN pages kept by queue_full is enough for any request.   *)
NeverOutOfPages == pc # "exhausted"

(* While the client works on a frame, the host neither prepares a command  *)
(* in it nor reads a result from it; and page frames of commands that are  *)
(* still expected are never shared between two of them.                    *)
NoSharedFrames ==
    /\ clientPc # "poll" => /\ clientFrame # next
                            /\ clientFrame \in Outstanding
                            /\ Dist(hostRead, current) <= Dist(hostRead, clientFrame)
    /\ \A f, g \in Outstanding : f # g => PagesOf(f) \cap PagesOf(g) = {}

(* When `next` returns None, every request of the batch has had its result *)
(* returned: a full queue never makes an iterator end early.               *)
NoneOnlyAtEnd == result.kind = "none" => remaining = 0 /\ queue = <<>>

(* Setting up a command writes no frame and no page of a command whose     *)
(* result has not been received yet.                                       *)
SetupKeepsLiveCommands ==
    [][pc = "fill" /\ pc' = "publish" =>
          \A f \in Outstanding : /\ frames'[f] = frames[f]
                                 /\ \A p \in PagesOf(f) : pages'[p] = pages[p]]_vars

(* A host call that waits (batch_iter making room, or next) ends: with a   *)
(* result, or with the panic that reports a dead virtual machine.          *)
CallsReturn == /\ (pc = "discard") ~> (pc # "discard")
               /\ (pc \in {"fill", "publish", "recv"}) ~> (pc \in {"iter", "crashed"})

(* VmObserver implements the promise of BatchObserver. *)
returned == total - remaining - Len(queue)
                  - (IF pc = "publish" \/ entry # NoRequest THEN 1 ELSE 0)

AbstractPhase == CASE pc = "idle"    -> "idle"
                   [] pc = "discard" -> "opening"
                   [] pc = "iter"    -> "open"
                   [] pc \in {"fill", "publish", "recv"} -> "calling"
                   [] pc \in {"crashed", "exhausted"}    -> "failed"

AbstractOut == IF result.kind # "result" THEN result
               ELSE IF GoodResult(result)
                    THEN [kind |-> "result", batch |-> result.entry.batch, index |-> result.entry.index]
                    ELSE [kind |-> "garbled"]

Abstract == INSTANCE BatchObserver WITH
                phase <- AbstractPhase, returned <- returned, out <- AbstractOut, vmAlive <- alive

ImplementsBatchObserver == Abstract!ASpec

-----------------------------------------------------------------------------
(* The inductive invariant behind these properties.                        *)

(* Position of a frame after the oldest command; page frames handed out    *)
(* since the first page of a frame's command was.                          *)
Ahead(f)  == Dist(hostRead, f)
PageDist(a, b) == IF b >= a THEN b - a ELSE b - a + NumPageFrames
Behind(f) == PageDist(frames[f].first, next_page_frame)

(* A command that is written but not published; a request that next awaits. *)
Prepared == IF pc = "publish" THEN 1 ELSE 0
Held     == IF entry # NoRequest THEN 1 ELSE 0
LiveLen  == Ahead(next) + Prepared
Live     == {f \in FrameIndex : Ahead(f) < LiveLen}

(* Around the ring, starting at the host's read index, come the position   *)
(* the host knows of, the client's `current`, its read index, the position *)
(* the client knows of and the host's `next`.                              *)
RingInv ==
    /\ Ahead(hostCached) <= Ahead(current)
    /\ Ahead(current) <= Ahead(clientRead)
    /\ Ahead(clientRead) <= Ahead(clientCached)
    /\ Ahead(clientCached) <= Ahead(next)
    /\ num_queued = Ahead(next)
    /\ clientPc = "poll" => clientRead = current
    /\ clientPc # "poll" => clientFrame = current /\ Ahead(clientRead) = Ahead(current) + 1
    /\ pc = "publish" => num_queued < NumCommandFrames - 1

(* What is queued is what must be discarded, followed by the requests of   *)
(* the open iterator, oldest first.                                        *)
OwnerInv ==
    /\ num_queued = num_to_discard + Len(queue) + Held
    /\ Held = 1 => pc \in {"recv", "crashed"}
    /\ pc = "recv" => Held = 1
    /\ pc \in {"idle", "discard"} => queue = <<>>
    /\ remaining + Len(queue) + Held + Prepared <= total
    /\ batch = 0 => pc = "idle"
    /\ Held = 1 => entry = [batch |-> batch, index |-> total - remaining - Len(queue)]
    /\ \A k \in 1 .. Len(queue) :
          queue[k] = [batch |-> batch, index |-> total - remaining - Prepared - Len(queue) + k]
    /\ pc = "publish" => frames[next].req = [batch |-> batch, index |-> total - remaining]
    /\ \A f \in FrameIndex :
          /\ Held = 1 /\ Ahead(f) = num_to_discard => frames[f].req = entry
          /\ \A k \in 1 .. Len(queue) :
                Ahead(f) = num_to_discard + Held + k - 1 => frames[f].req = queue[k]

DoneInv ==
    /\ \A f \in FrameIndex : Ahead(f) < Ahead(current) => frames[f].done
    /\ clientPc = "mark" => frames[current].done

(* The live commands hold consecutive stretches of the page ring, which    *)
(* together are the allocated pages.                                       *)
PageInv ==
    /\ \A f \in Live : /\ frames[f].len >= 1
                       /\ frames[f].len <= Behind(f)
                       /\ Behind(f) <= page_frames_allocated
                       /\ Ahead(f) = 0 => Behind(f) = page_frames_allocated
                       /\ Ahead(f) = LiveLen - 1 => Behind(f) = frames[f].len
    /\ \A f, g \in Live :
          /\ Ahead(f) < Ahead(g) => Behind(g) + frames[f].len <= Behind(f)
          /\ Ahead(g) = Ahead(f) + 1 => Behind(f) = Behind(g) + frames[f].len
    /\ LiveLen = 0 => page_frames_allocated = 0

MemoryInv == \A f \in Live : \A p \in PagesOf(f) :
                pages[p] = [req |-> frames[f].req, done |-> frames[f].done]

(* An iterator that has nothing queued is never stopped by a full queue. *)
RoomInv == pc \in {"iter", "fill"} /\ queue = <<>> => ~QueueFull

(* A call in progress has not produced its answer yet. *)
CallInv == pc \in {"fill", "publish", "recv"} => result = NoResult

IInv == /\ TypeOK /\ RingInv /\ OwnerInv /\ DoneInv /\ PageInv /\ MemoryInv /\ RoomInv
        /\ ResultBelongsToRequest /\ NeverOutOfPages /\ NoneOnlyAtEnd
=============================================================================
