----------------------------- MODULE CurlThread -----------------------------
(***************************************************************************)
(* lsf::asio::CurlThread: HTTP requests performed by a pool of threads.    *)
(* The event loop adds requests, and at each tick wakes a worker and takes *)
(* what is finished, whose callbacks it runs; callbacks add requests too.  *)
(*                                                                         *)
(* A worker holds the input mutex from its wake-up to its next wait, while *)
(* it performs the request too.  The loop's looks at the two lists before  *)
(* it locks them are unsynchronized: they may fall anywhere in a worker's  *)
(* step.                                                                   *)
(***************************************************************************)
EXTENDS Naturals, Sequences, SequencesExt

CONSTANTS
    Request,      \* CURL handles
    Worker,       \* the threads
    NoRequest,
    MaxAdds,      \* bound: calls of AddCurl
    ReaddsOwn     \* a callback may add the handle it was called for again

ASSUME CurlAssumption == NoRequest \notin Request

VARIABLES
    funcMap,     \* _func_map: handles whose callback is to be run
    input,       \* _input_list
    output,      \* _output_list
    worker,      \* where each thread is in ProcessWorker, and its request
    loop,        \* where the event loop is
    finished,    \* "list" of ProcessOnTick: what is left of it
    adds,        \* history: the calls of AddCurl
    calls        \* history: the callbacks

curlVars == <<funcMap, input, output, worker, loop, finished, adds, calls>>

-----------------------------------------------------------------------------
(* The mutexes and the condition variable.                                 *)

At(w, places) == worker[w].at \in places

\* mutant: a worker lets go of the list while it performs a request
InputFreeInPerform == \A w \in Worker : ~At(w, {"finished", "pushing"})

\* nobody holds _input_mtx
InputFree == \A w \in Worker : ~At(w, {"performing", "finished", "pushing"})

\* nobody holds _output_mtx
OutputFree == \A w \in Worker : ~At(w, {"pushing"})

Goes(w, place) == worker' = [worker EXCEPT ![w].at = place]

-----------------------------------------------------------------------------
(* ProcessWorker.                                                          *)

\* takes the mutex and waits, which releases it
Start(w) ==
    /\ At(w, {"start"}) /\ InputFree
    /\ Goes(w, "waiting")
    /\ UNCHANGED <<funcMap, input, output, loop, finished, adds, calls>>

\* a wait may also end by itself
SpuriousWakeup(w) ==
    /\ At(w, {"waiting"})
    /\ Goes(w, "woken")
    /\ UNCHANGED <<funcMap, input, output, loop, finished, adds, calls>>

\* has the mutex again: gets a request, or waits on
GetInput(w) ==
    /\ At(w, {"woken"}) /\ InputFree
    /\ IF input = <<>>
       THEN Goes(w, "waiting") /\ UNCHANGED input
       ELSE /\ worker' = [worker EXCEPT ![w] = [at |-> "performing", request |-> Head(input)]]
            /\ input' = Tail(input)
    /\ UNCHANGED <<funcMap, output, loop, finished, adds, calls>>

Perform(w) ==
    /\ At(w, {"performing"})
    /\ Goes(w, "finished")
    /\ UNCHANGED <<funcMap, input, output, loop, finished, adds, calls>>

LockOutput(w) ==
    /\ At(w, {"finished"}) /\ OutputFree
    /\ Goes(w, "pushing")
    /\ UNCHANGED <<funcMap, input, output, loop, finished, adds, calls>>

\* mutant: pushes what it has moved away
PushOutputMoved(w) ==
    /\ At(w, {"pushing"})
    /\ worker' = [worker EXCEPT ![w] = [at |-> "waiting", request |-> NoRequest]]
    /\ output' = Append(output, worker'[w].request)
    /\ UNCHANGED <<funcMap, input, loop, finished, adds, calls>>

\* then waits again
PushOutput(w) ==
    /\ At(w, {"pushing"})
    /\ output' = Append(output, worker[w].request)
    /\ worker' = [worker EXCEPT ![w] = [at |-> "waiting", request |-> NoRequest]]
    /\ UNCHANGED <<funcMap, input, loop, finished, adds, calls>>

-----------------------------------------------------------------------------
(* The event loop.                                                         *)

\* mutant: the callback is registered only for the first use of a handle
AddCurlOnce(r) ==
    /\ loop \in {"idle", "callback"}
    /\ Len(adds) < MaxAdds
    /\ r \in funcMap => ReaddsOwn /\ loop = "callback" /\ r = Head(finished)
    /\ InputFree
    /\ funcMap' = IF r \in ToSet(adds) THEN funcMap ELSE funcMap \cup {r}
    /\ input' = Append(input, r)
    /\ adds' = Append(adds, r)
    /\ UNCHANGED <<output, worker, loop, finished, calls>>

\* AddCurl, from the loop or from a callback: blocks it while a worker has the
\* mutex.  A handle is not added while it is in use.
AddCurl(r) ==
    /\ loop \in {"idle", "callback"}
    /\ Len(adds) < MaxAdds
    /\ r \in funcMap => ReaddsOwn /\ loop = "callback" /\ r = Head(finished)
    /\ InputFree
    /\ funcMap' = funcMap \cup {r}
    /\ input' = Append(input, r)
    /\ adds' = Append(adds, r)
    /\ UNCHANGED <<output, worker, loop, finished, calls>>

\* mutant: notifies only for the first of the waiting requests
CheckInputFirst ==
    /\ loop = "idle"
    /\ IF Len(input) # 1 \/ \A w \in Worker : ~At(w, {"waiting"})
       THEN (input # <<>> => InputFree) /\ UNCHANGED worker
       ELSE InputFree /\ \E w \in Worker : At(w, {"waiting"}) /\ Goes(w, "woken")
    /\ loop' = "output"
    /\ UNCHANGED <<funcMap, input, output, finished, adds, calls>>

\* ProcessOnTick, first half: notify_one reaches a waiting worker if there is one
CheckInput ==
    /\ loop = "idle"
    /\ IF input = <<>> \/ \A w \in Worker : ~At(w, {"waiting"})
       THEN (input # <<>> => InputFree) /\ UNCHANGED worker
       ELSE InputFree /\ \E w \in Worker : At(w, {"waiting"}) /\ Goes(w, "woken")
    /\ loop' = "output"
    /\ UNCHANGED <<funcMap, input, output, finished, adds, calls>>

\* second half: gives up if the list is locked
CheckOutput ==
    /\ loop = "output"
    /\ IF output = <<>> \/ ~OutputFree
       THEN loop' = "idle" /\ UNCHANGED <<output, finished>>
       ELSE loop' = "list" /\ finished' = output /\ output' = <<>>
    /\ UNCHANGED <<funcMap, input, worker, adds, calls>>

\* the callback of the next finished request, if it still has one
Callback ==
    /\ loop = "list" /\ finished # <<>>
    /\ IF Head(finished) \in funcMap
       THEN loop' = "callback" /\ calls' = Append(calls, Head(finished)) /\ UNCHANGED finished
       ELSE finished' = Tail(finished) /\ UNCHANGED <<loop, calls>>
    /\ UNCHANGED <<funcMap, input, output, worker, adds>>

CallbackReturns ==
    /\ loop = "callback"
    /\ funcMap' = funcMap \ {Head(finished)}
    /\ finished' = Tail(finished)
    /\ loop' = "list"
    /\ UNCHANGED <<input, output, worker, adds, calls>>

EndTick ==
    /\ loop = "list" /\ finished = <<>>
    /\ loop' = "idle"
    /\ UNCHANGED <<funcMap, input, output, worker, finished, adds, calls>>

-----------------------------------------------------------------------------
CurlInit ==
    /\ funcMap = {}
    /\ input = <<>> /\ output = <<>> /\ finished = <<>>
    /\ worker = [w \in Worker |-> [at |-> "start", request |-> NoRequest]]
    /\ loop = "idle"
    /\ adds = <<>> /\ calls = <<>>

ProcessWorker(w) ==
    Start(w) \/ GetInput(w) \/ Perform(w) \/ LockOutput(w) \/ PushOutput(w)

ProcessOnTick == CheckInput \/ CheckOutput \/ Callback \/ CallbackReturns \/ EndTick

CurlNext ==
    \/ \E w \in Worker : ProcessWorker(w) \/ SpuriousWakeup(w)
    \/ ProcessOnTick
    \/ \E r \in Request : AddCurl(r)

\* Run calls the tick function in every round; threads run, and every request
\* ends, by its timeout at the latest.
CurlFairness == WF_curlVars(ProcessOnTick) /\ \A w \in Worker : WF_curlVars(ProcessWorker(w))

CurlSpec == CurlInit /\ [][CurlNext]_curlVars /\ CurlFairness

-----------------------------------------------------------------------------
(* Properties.                                                             *)

Place == {"start", "waiting", "woken", "performing", "finished", "pushing"}

CurlTypeOK ==
    /\ funcMap \subseteq Request
    /\ {input, output, finished} \subseteq Seq(Request)
    /\ worker \in [Worker -> [at : Place, request : Request \cup {NoRequest}]]
    /\ loop \in {"idle", "output", "list", "callback"}
    /\ {adds, calls} \subseteq Seq(Request)

\* A callback is registered exactly for the requests on their way from AddCurl
\* to the end of their callback, over the lists and the workers' hands.
RegisteredAreUnderway ==
    funcMap = ToSet(input) \cup ToSet(output) \cup ToSet(finished)
              \cup {worker[w].request : w \in {v \in Worker : worker[v].request # NoRequest}}

\* Callbacks run once for each call of AddCurl and in the order of the calls,
\* whatever worker performs which request.
CallbacksInOrder == IsPrefix(calls, adds)

\* Every request that is added gets its callback, though a notification reaches
\* no thread when none waits yet.
EveryCallback == []<>(calls = adds)
=============================================================================
