------------------------------ MODULE NetProofs ------------------------------
(***************************************************************************)
(* Theorems about the communication below the services besides those of    *)
(* the event loop: the threads that perform HTTP requests, the links of    *)
(* servers and proxies, the config center, and, of MCNet, all four.        *)
(***************************************************************************)
EXTENDS MCNet, EventLoopProofs

-----------------------------------------------------------------------------
(***************************************************************************)
(* Every callback runs once and in order, for any number of threads and    *)
(* requests, provided no callback adds its own handle again.               *)
(*                                                                         *)
(* The requests under way form one queue, Pipe: through the lists and the  *)
(* hand of the one worker that has a request, which keeps the input mutex  *)
(* and so the order.  Requests enter it in AddCurl and leave it when their *)
(* callback returns; every other step moves one along and leaves Pipe as   *)
(* it is.                                                                  *)
(***************************************************************************)

BusyPlace == {"performing", "finished", "pushing"}

IsBusy(k) == k.at \in BusyPlace

HandOf(wk) == IF \E w \in Worker : IsBusy(wk[w])
              THEN <<wk[CHOOSE w \in Worker : IsBusy(wk[w])].request>>
              ELSE <<>>

PipeOf(fin, out, wk, inp) == fin \o (out \o (HandOf(wk) \o inp))

Pipe == PipeOf(finished, output, worker, input)

\* a worker has a request exactly while it has the mutex, and one has it
HandsOK(wk) ==
    /\ wk \in [Worker -> [at : Place, request : Request \cup {NoRequest}]]
    /\ \A w \in Worker : IF IsBusy(wk[w]) THEN wk[w].request \in Request
                         ELSE wk[w].request = NoRequest
    /\ \A v, w \in Worker : IsBusy(wk[v]) /\ IsBusy(wk[w]) => v = w

\* the loop has a list only while it works on it
LoopInv ==
    /\ loop \in {"idle", "output"} => finished = <<>>
    /\ loop = "callback" => finished # <<>>

Distinct(s) == \A i, j \in 1..Len(s) : s[i] = s[j] => i = j

\* the requests still to be called back, after those that have been
ToCall == IF loop = "callback" THEN Tail(Pipe) ELSE Pipe

PipeInv ==
    /\ Distinct(Pipe)
    /\ funcMap = ToSet(Pipe)
    /\ adds = calls \o ToCall

CurlInv == CurlTypeOK /\ HandsOK(worker) /\ LoopInv /\ PipeInv

-----------------------------------------------------------------------------
(* Sequences.                                                              *)

LEMMA RangeOfConcat ==
    \A s, t \in Seq(Request) : ToSet(s \o t) = ToSet(s) \cup ToSet(t)
<1> SUFFICES ASSUME NEW s \in Seq(Request), NEW t \in Seq(Request)
             PROVE  ToSet(s \o t) = ToSet(s) \cup ToSet(t)
  OBVIOUS
<1>1. \A u \in Seq(Request) : ToSet(u) = Range(u)
  BY DEF ToSet, Range
<1>2. s \o t \in Seq(Request)
  BY ConcatProperties
<1>3. Range(s \o t) = Range(s) \cup Range(t)
  BY RangeConcatenation
<1> QED BY <1>1, <1>2, <1>3

LEMMA TailOfConcat ==
    ASSUME NEW S, NEW s \in Seq(S), NEW t \in Seq(S), s # <<>>
    PROVE  /\ s \o t # <<>> /\ Head(s \o t) = Head(s) /\ Tail(s \o t) = Tail(s) \o t
<1> DEFINE a == Tail(s \o t)
           b == Tail(s) \o t
<1>0. Len(s) \in Nat /\ Len(s) # 0 /\ Len(t) \in Nat
  BY LenProperties, EmptySeq
<1>1. s \o t \in Seq(S) /\ Len(s \o t) = Len(s) + Len(t) /\ s \o t # <<>>
  BY <1>0, ConcatProperties, EmptySeq
<1>2. Tail(s) \in Seq(S) /\ Len(Tail(s)) = Len(s) - 1
  BY HeadTailProperties
<1>3. Head(s \o t) = Head(s)
  BY <1>0, <1>1, ConcatProperties
<1>4. a \in Seq(S) /\ b \in Seq(S) /\ Len(a) = Len(s) + Len(t) - 1 /\ Len(b) = Len(a)
  BY <1>0, <1>1, <1>2, ConcatProperties, HeadTailProperties
<1>5. ASSUME NEW i \in 1..Len(a) PROVE a[i] = b[i]
  <2>1. a[i] = (s \o t)[i + 1]
    BY <1>1, HeadTailProperties
  <2>2. (s \o t)[i + 1] = IF i + 1 <= Len(s) THEN s[i + 1] ELSE t[i + 1 - Len(s)]
    BY <1>0, <1>4, ConcatProperties
  <2>3. b[i] = IF i <= Len(s) - 1 THEN Tail(s)[i] ELSE t[i - (Len(s) - 1)]
    BY <1>0, <1>2, <1>4, ConcatProperties
  <2>4. i <= Len(s) - 1 => Tail(s)[i] = s[i + 1]
    BY <1>0, <1>2, HeadTailProperties
  <2> QED BY <1>0, <1>4, <2>1, <2>2, <2>3, <2>4
<1>6. a = b
  BY <1>4, <1>5, SeqEqual
<1> QED BY <1>1, <1>3, <1>6

\* the head of a sequence may be moved to the end of the one before it
LEMMA MoveHead ==
    ASSUME NEW S, NEW s \in Seq(S), NEW t \in Seq(S), t # <<>>
    PROVE  Append(s, Head(t)) \o Tail(t) = s \o t
<1>1. Head(t) \in S /\ Tail(t) \in Seq(S)
  BY HeadTailProperties
<1>2. Append(s, Head(t)) = s \o <<Head(t)>>
  BY <1>1, AppendIsConcat
<1>3. <<Head(t)>> \in Seq(S)
  BY <1>1
<1>4. <<Head(t)>> \o Tail(t) = t
  <2> DEFINE u == <<Head(t)>> \o Tail(t)
  <2>1. Len(t) \in Nat /\ Len(t) # 0 /\ Len(Tail(t)) = Len(t) - 1
    BY HeadTailProperties, LenProperties, EmptySeq
  <2>2. u \in Seq(S) /\ Len(u) = Len(t)
    BY <1>1, <1>3, <2>1, ConcatProperties
  <2>3. ASSUME NEW i \in 1..Len(u) PROVE u[i] = t[i]
    <3>1. u[i] = IF i <= 1 THEN <<Head(t)>>[i] ELSE Tail(t)[i - 1]
      BY <1>1, <1>3, <2>1, <2>2, ConcatProperties
    <3>2. i > 1 => Tail(t)[i - 1] = t[i]
      BY <2>1, <2>2, HeadTailProperties
    <3> QED BY <2>1, <2>2, <3>1, <3>2
  <2> QED BY <2>2, <2>3, SeqEqual
<1> QED BY <1>1, <1>2, <1>3, <1>4, ConcatAssociative

LEMMA AppendToConcat ==
    \A s, t \in Seq(Request), e \in Request : Append(s \o t, e) = s \o Append(t, e)
<1> SUFFICES ASSUME NEW s \in Seq(Request), NEW t \in Seq(Request), NEW e \in Request
             PROVE  Append(s \o t, e) = s \o Append(t, e)
  OBVIOUS
<1>1. s \o t \in Seq(Request) /\ <<e>> \in Seq(Request)
  BY ConcatProperties
<1>2. Append(s \o t, e) = (s \o t) \o <<e>> /\ Append(t, e) = t \o <<e>>
  BY <1>1, AppendIsConcat
<1> QED BY <1>1, <1>2, ConcatAssociative

LEMMA DistinctAppend ==
    ASSUME NEW S, NEW s \in Seq(S), NEW e \in S, Distinct(s), e \notin ToSet(s)
    PROVE  Distinct(Append(s, e)) /\ ToSet(Append(s, e)) = ToSet(s) \cup {e}
<1>1. Len(s) \in Nat /\ DOMAIN s = 1..Len(s)
  BY LenProperties
<1>2. /\ Append(s, e) \in Seq(S) /\ Len(Append(s, e)) = Len(s) + 1
      /\ \A i \in 1..Len(s) : Append(s, e)[i] = s[i]
      /\ Append(s, e)[Len(s) + 1] = e
  BY AppendProperties
<1>3. DOMAIN Append(s, e) = 1..(Len(s) + 1)
  BY <1>2, LenProperties
<1>4. \A i \in 1..Len(s) : s[i] # e
  BY <1>1 DEF ToSet
<1>5. Distinct(Append(s, e))
  BY <1>1, <1>2, <1>4 DEF Distinct
<1>6. ToSet(Append(s, e)) = ToSet(s) \cup {e}
  BY <1>1, <1>2, <1>3 DEF ToSet
<1> QED BY <1>5, <1>6

LEMMA DistinctTail ==
    ASSUME NEW S, NEW s \in Seq(S), s # <<>>, Distinct(s)
    PROVE  Distinct(Tail(s)) /\ ToSet(Tail(s)) = ToSet(s) \ {Head(s)}
<1>1. Len(s) \in Nat /\ Len(s) # 0 /\ DOMAIN s = 1..Len(s)
  BY LenProperties, EmptySeq
<1>2. /\ Tail(s) \in Seq(S) /\ Len(Tail(s)) = Len(s) - 1
      /\ \A i \in 1..(Len(s) - 1) : Tail(s)[i] = s[i + 1]
  BY HeadTailProperties
<1>3. DOMAIN Tail(s) = 1..(Len(s) - 1)
  BY <1>2, LenProperties
<1>4. Head(s) = s[1]
  BY <1>1
<1>5. Distinct(Tail(s))
  BY <1>1, <1>2 DEF Distinct
<1>6. ToSet(Tail(s)) \subseteq ToSet(s) \ {Head(s)}
  BY <1>1, <1>2, <1>3, <1>4 DEF ToSet, Distinct
<1>7. ASSUME NEW i \in 1..Len(s), s[i] # Head(s) PROVE s[i] \in ToSet(Tail(s))
  <2>1. i - 1 \in 1..(Len(s) - 1) /\ Tail(s)[i - 1] = s[i]
    BY <1>1, <1>2, <1>4, <1>7
  <2> QED BY <1>3, <2>1 DEF ToSet
<1> QED BY <1>1, <1>5, <1>6, <1>7 DEF ToSet

-----------------------------------------------------------------------------
(* Hand and Pipe.                                                          *)

LEMMA HandIs ==
    ASSUME NEW wk, HandsOK(wk)
    PROVE  /\ \A w \in Worker : IsBusy(wk[w]) => HandOf(wk) = <<wk[w].request>>
           /\ (\A w \in Worker : ~IsBusy(wk[w])) => HandOf(wk) = <<>>
           /\ HandOf(wk) \in Seq(Request)
<1>1. ASSUME NEW w \in Worker, IsBusy(wk[w]) PROVE HandOf(wk) = <<wk[w].request>>
  <2>1. (CHOOSE v \in Worker : IsBusy(wk[v])) = w
    BY <1>1 DEF HandsOK
  <2> QED BY <1>1, <2>1 DEF HandOf
<1>2. (\A w \in Worker : ~IsBusy(wk[w])) => HandOf(wk) = <<>>
  BY DEF HandOf
<1>3. HandOf(wk) \in Seq(Request)
  <2>1. CASE \E w \in Worker : IsBusy(wk[w])
    <3>1. PICK w \in Worker : IsBusy(wk[w])
      BY <2>1
    <3>2. wk[w].request \in Request
      BY <3>1 DEF HandsOK
    <3>3. <<wk[w].request>> \in Seq(Request)
      BY <3>2
    <3> QED BY <1>1, <3>1, <3>3
  <2>2. CASE \A w \in Worker : ~IsBusy(wk[w])
    BY <1>2, <2>2, EmptySeq
  <2> QED BY <2>1, <2>2
<1> QED BY <1>1, <1>2, <1>3

\* a worker that stays busy, or idle, changes nothing
LEMMA HandStays ==
    ASSUME NEW wk, HandsOK(wk), NEW w \in Worker, NEW place \in Place,
           IsBusy(wk[w]) <=> place \in BusyPlace
    PROVE  /\ HandsOK([wk EXCEPT ![w].at = place])
           /\ HandOf([wk EXCEPT ![w].at = place]) = HandOf(wk)
<1> DEFINE next == [wk EXCEPT ![w].at = place]
<1>1. \A v \in Worker : next[v].request = wk[v].request /\ (IsBusy(next[v]) <=> IsBusy(wk[v]))
  BY DEF HandsOK, IsBusy, BusyPlace
<1>2. HandsOK(next)
  BY <1>1 DEF HandsOK
<1> HIDE DEF next
<1>3. HandOf(next) = HandOf(wk)
  <2>1. CASE \E v \in Worker : IsBusy(wk[v])
    <3>1. PICK v \in Worker : IsBusy(wk[v])
      BY <2>1
    <3>2. HandOf(wk) = <<wk[v].request>> /\ HandOf(next) = <<next[v].request>>
      BY <1>1, <1>2, <3>1, HandIs
    <3> QED BY <1>1, <3>2
  <2>2. CASE \A v \in Worker : ~IsBusy(wk[v])
    BY <1>1, <1>2, <2>2, HandIs
  <2> QED BY <2>1, <2>2
<1> QED BY <1>2, <1>3 DEF next

\* the four parts of Pipe are sequences of requests, and so is the whole
LEMMA PipeType ==
    ASSUME NEW fin \in Seq(Request), NEW out \in Seq(Request), NEW inp \in Seq(Request),
           NEW wk, HandsOK(wk)
    PROVE  /\ HandOf(wk) \in Seq(Request)
           /\ HandOf(wk) \o inp \in Seq(Request)
           /\ out \o (HandOf(wk) \o inp) \in Seq(Request)
           /\ PipeOf(fin, out, wk, inp) \in Seq(Request)
<1>1. HandOf(wk) \in Seq(Request)
  BY HandIs
<1>2. HandOf(wk) \o inp \in Seq(Request)
  BY <1>1, ConcatProperties
<1>3. out \o (HandOf(wk) \o inp) \in Seq(Request)
  BY <1>2, ConcatProperties
<1> QED BY <1>1, <1>2, <1>3, ConcatProperties DEF PipeOf

\* while the loop has a list, its head is the head of Pipe
LEMMA PipeHead ==
    ASSUME NEW fin \in Seq(Request), NEW out \in Seq(Request), NEW inp \in Seq(Request),
           NEW wk, HandsOK(wk), fin # <<>>
    PROVE  LET pipe == PipeOf(fin, out, wk, inp)
           IN  /\ pipe # <<>> /\ Head(pipe) = Head(fin)
               /\ Tail(pipe) = PipeOf(Tail(fin), out, wk, inp)
BY PipeType, TailOfConcat DEF PipeOf

LEMMA Initially == CurlInit => CurlInv
<1> SUFFICES ASSUME CurlInit PROVE CurlInv
  OBVIOUS
<1>1. CurlTypeOK
  BY DEF CurlInit, CurlTypeOK, Place
<1>2. HandsOK(worker) /\ \A w \in Worker : ~IsBusy(worker[w])
  BY DEF CurlInit, HandsOK, IsBusy, BusyPlace, Place
<1>3. LoopInv
  BY DEF CurlInit, LoopInv
<1>4. Pipe = <<>>
  <2>1. HandOf(worker) = <<>>
    BY <1>2, HandIs
  <2>2. <<>> \in Seq(Request)
    BY EmptySeq
  <2> QED BY <2>1, <2>2, ConcatEmptySeq DEF Pipe, PipeOf, CurlInit
<1>5. PipeInv
  <2>1. Distinct(Pipe) /\ ToSet(Pipe) = {}
    BY <1>4 DEF Distinct, ToSet
  <2>2. ToCall = <<>>
    BY <1>4 DEF ToCall, CurlInit
  <2>3. adds = calls \o ToCall
    BY <2>2, ConcatEmptySeq, EmptySeq DEF CurlInit
  <2> QED BY <2>1, <2>3 DEF PipeInv, CurlInit
<1> QED BY <1>1, <1>2, <1>3, <1>5 DEF CurlInv

-----------------------------------------------------------------------------
(* Steps.                                                                  *)

\* a step that moves requests within Pipe
LEMMA MovesWithin ==
    ASSUME CurlInv, Pipe' = Pipe, UNCHANGED <<funcMap, adds, calls>>,
           loop' = "callback" <=> loop = "callback"
    PROVE  PipeInv'
<1>1. ToCall' = ToCall
  BY DEF ToCall
<1> QED BY <1>1 DEF CurlInv, PipeInv

\* a step of a worker that neither takes nor gives a request, the loop's beside
LEMMA WorkerOnly ==
    ASSUME CurlInv, NEW w \in Worker, NEW place \in Place,
           IsBusy(worker[w]) <=> place \in BusyPlace,
           worker' = [worker EXCEPT ![w].at = place],
           UNCHANGED <<funcMap, input, output, finished, adds, calls>>,
           loop' = loop \/ (loop = "idle" /\ loop' = "output")
    PROVE  CurlInv'
<1>1. HandsOK(worker)
  BY DEF CurlInv
<1>2. HandsOK(worker') /\ HandOf(worker') = HandOf(worker)
  BY <1>1, HandStays
<1>3. CurlTypeOK'
  BY <1>2 DEF CurlInv, CurlTypeOK, HandsOK
<1>4. Pipe' = Pipe
  BY <1>2 DEF Pipe, PipeOf
<1>5. loop' = "callback" <=> loop = "callback"
  OBVIOUS
<1>6. PipeInv'
  BY <1>4, <1>5, MovesWithin
<1>7. LoopInv'
  BY DEF CurlInv, LoopInv
<1> QED BY <1>2, <1>3, <1>6, <1>7 DEF CurlInv

LEMMA StartStep == ASSUME CurlInv, NEW w \in Worker, Start(w) PROVE CurlInv'
<1>1. "waiting" \in Place /\ (IsBusy(worker[w]) <=> "waiting" \in BusyPlace)
  BY DEF Start, At, IsBusy, BusyPlace, Place
<1>2. /\ worker' = [worker EXCEPT ![w].at = "waiting"]
      /\ UNCHANGED <<funcMap, input, output, loop, finished, adds, calls>>
  BY DEF Start, Goes
<1> QED BY <1>1, <1>2, WorkerOnly

LEMMA WakeupStep == ASSUME CurlInv, NEW w \in Worker, SpuriousWakeup(w) PROVE CurlInv'
<1>1. "woken" \in Place /\ (IsBusy(worker[w]) <=> "woken" \in BusyPlace)
  BY DEF SpuriousWakeup, At, IsBusy, BusyPlace, Place
<1>2. /\ worker' = [worker EXCEPT ![w].at = "woken"]
      /\ UNCHANGED <<funcMap, input, output, loop, finished, adds, calls>>
  BY DEF SpuriousWakeup, Goes
<1> QED BY <1>1, <1>2, WorkerOnly

LEMMA PerformStep == ASSUME CurlInv, NEW w \in Worker, Perform(w) PROVE CurlInv'
<1>1. "finished" \in Place /\ (IsBusy(worker[w]) <=> "finished" \in BusyPlace)
  BY DEF Perform, At, IsBusy, BusyPlace, Place
<1>2. /\ worker' = [worker EXCEPT ![w].at = "finished"]
      /\ UNCHANGED <<funcMap, input, output, loop, finished, adds, calls>>
  BY DEF Perform, Goes
<1> QED BY <1>1, <1>2, WorkerOnly

LEMMA LockOutputStep == ASSUME CurlInv, NEW w \in Worker, LockOutput(w) PROVE CurlInv'
<1>1. "pushing" \in Place /\ (IsBusy(worker[w]) <=> "pushing" \in BusyPlace)
  BY DEF LockOutput, At, IsBusy, BusyPlace, Place
<1>2. /\ worker' = [worker EXCEPT ![w].at = "pushing"]
      /\ UNCHANGED <<funcMap, input, output, loop, finished, adds, calls>>
  BY DEF LockOutput, Goes
<1> QED BY <1>1, <1>2, WorkerOnly

\* from the list into the free hand
LEMMA GetInputStep == ASSUME CurlInv, NEW w \in Worker, GetInput(w) PROVE CurlInv'
<1>1. CASE input = <<>>
  <2>1. "waiting" \in Place /\ (IsBusy(worker[w]) <=> "waiting" \in BusyPlace)
    BY DEF GetInput, At, IsBusy, BusyPlace, Place
  <2>2. /\ worker' = [worker EXCEPT ![w].at = "waiting"]
        /\ UNCHANGED <<funcMap, input, output, loop, finished, adds, calls>>
    BY <1>1 DEF GetInput, Goes
  <2> QED BY <2>1, <2>2, WorkerOnly
<1>2. CASE input # <<>>
  <2>1. /\ worker' = [worker EXCEPT ![w] = [at |-> "performing", request |-> Head(input)]]
        /\ input' = Tail(input)
        /\ UNCHANGED <<funcMap, output, loop, finished, adds, calls>>
    BY <1>2 DEF GetInput
  <2>2. \A v \in Worker : ~IsBusy(worker[v])
    BY DEF GetInput, InputFree, At, IsBusy, BusyPlace
  <2>3. HandsOK(worker) /\ input \in Seq(Request)
    BY DEF CurlInv, CurlTypeOK
  <2>4. Head(input) \in Request /\ Tail(input) \in Seq(Request)
    BY <1>2, <2>3, HeadTailProperties
  <2>5. \A v \in Worker : IsBusy(worker'[v]) <=> v = w
    BY <2>1, <2>2, <2>3 DEF HandsOK, IsBusy, BusyPlace
  <2>6. HandsOK(worker')
    BY <2>1, <2>3, <2>4, <2>5 DEF HandsOK, Place
  <2>7. HandOf(worker) = <<>> /\ HandOf(worker') = <<Head(input)>>
    <3>1. worker'[w].request = Head(input)
      BY <2>1, <2>3 DEF HandsOK
    <3> QED BY <2>2, <2>3, <2>5, <2>6, <3>1, HandIs
  <2>8. HandOf(worker') \o input' = HandOf(worker) \o input
    <3>1. <<>> \in Seq(Request) /\ Append(<<>>, Head(input)) = <<Head(input)>>
      BY <2>4, EmptySeq
    <3> QED BY <1>2, <2>1, <2>3, <2>7, <3>1, MoveHead
  <2>9. Pipe' = Pipe
    BY <2>1, <2>8 DEF Pipe, PipeOf
  <2>10. CurlTypeOK'
    BY <2>1, <2>4, <2>6 DEF CurlInv, CurlTypeOK, HandsOK
  <2>11. PipeInv'
    BY <2>1, <2>9, MovesWithin
  <2> QED BY <2>1, <2>6, <2>10, <2>11 DEF CurlInv, LoopInv
<1> QED BY <1>1, <1>2

\* from the hand to the end of the results
LEMMA PushOutputStep == ASSUME CurlInv, NEW w \in Worker, PushOutput(w) PROVE CurlInv'
<1> DEFINE r == worker[w].request
<1>1. /\ output' = Append(output, r)
      /\ worker' = [worker EXCEPT ![w] = [at |-> "waiting", request |-> NoRequest]]
      /\ UNCHANGED <<funcMap, input, loop, finished, adds, calls>>
  BY DEF PushOutput
<1>2. HandsOK(worker) /\ input \in Seq(Request) /\ output \in Seq(Request)
  BY DEF CurlInv, CurlTypeOK
<1>3. IsBusy(worker[w]) /\ r \in Request
  BY <1>2 DEF PushOutput, At, IsBusy, BusyPlace, HandsOK
<1>4. \A v \in Worker : ~IsBusy(worker'[v])
  BY <1>1, <1>2, <1>3 DEF HandsOK, IsBusy, BusyPlace
<1>5. HandsOK(worker')
  BY <1>1, <1>2, <1>4 DEF HandsOK, Place
<1>6. HandOf(worker) = <<r>> /\ HandOf(worker') = <<>>
  BY <1>2, <1>3, <1>4, <1>5, HandIs
<1>7. output' \o (HandOf(worker') \o input') = output \o (HandOf(worker) \o input)
  <2>1. <<r>> \in Seq(Request)
    BY <1>3
  <2>2. output' = output \o <<r>>
    BY <1>1, <1>2, <1>3, AppendIsConcat
  <2>3. HandOf(worker') \o input' = input
    BY <1>1, <1>2, <1>6, ConcatEmptySeq
  <2>4. (output \o <<r>>) \o input = output \o (<<r>> \o input)
    BY <1>2, <2>1, ConcatAssociative
  <2> QED BY <1>6, <2>2, <2>3, <2>4
<1>8. Pipe' = Pipe
  BY <1>1, <1>7 DEF Pipe, PipeOf
<1>9. output' \in Seq(Request)
  BY <1>1, <1>2, <1>3, AppendProperties
<1>10. CurlTypeOK'
  BY <1>1, <1>5, <1>9 DEF CurlInv, CurlTypeOK, HandsOK
<1>11. PipeInv'
  BY <1>1, <1>8, MovesWithin
<1> QED BY <1>1, <1>5, <1>10, <1>11 DEF CurlInv, LoopInv

\* onto the end of Pipe
LEMMA AddCurlStep ==
    ASSUME CurlInv, ~ReaddsOwn, NEW r \in Request, AddCurl(r)
    PROVE  CurlInv'
<1>1. /\ input' = Append(input, r) /\ funcMap' = funcMap \cup {r} /\ adds' = Append(adds, r)
      /\ UNCHANGED <<output, worker, loop, finished, calls>>
  BY DEF AddCurl
<1>2. r \notin funcMap
  BY DEF AddCurl
<1>3. /\ HandsOK(worker) /\ input \in Seq(Request) /\ output \in Seq(Request)
      /\ finished \in Seq(Request) /\ calls \in Seq(Request) /\ adds \in Seq(Request)
  BY DEF CurlInv, CurlTypeOK
<1>4. /\ HandOf(worker) \in Seq(Request) /\ HandOf(worker) \o input \in Seq(Request)
      /\ output \o (HandOf(worker) \o input) \in Seq(Request)
      /\ Pipe \in Seq(Request)
  BY <1>3, PipeType DEF Pipe
<1>5. Pipe' = Append(Pipe, r)
  <2> DEFINE held == HandOf(worker) \o input
             later == output \o held
  <2> held \in Seq(Request) /\ later \in Seq(Request)
    BY <1>4
  <2>1. Append(held, r) = HandOf(worker) \o Append(input, r)
    BY <1>3, <1>4, AppendToConcat, ZenonT(30)
  <2> HIDE DEF held
  <2>2. Append(later, r) = output \o Append(held, r)
    BY <1>3, AppendToConcat
  <2> HIDE DEF later
  <2>3. Append(finished \o later, r) = finished \o Append(later, r)
    BY <1>3, AppendToConcat
  <2> USE DEF held, later
  <2>4. Pipe = finished \o later /\ Pipe' = finished \o (output \o (HandOf(worker) \o Append(input, r)))
    BY <1>1 DEF Pipe, PipeOf
  <2> QED BY <2>1, <2>2, <2>3, <2>4
<1>6. ToCall \in Seq(Request) /\ ToCall' = Append(ToCall, r)
  <2>1. CASE loop = "callback"
    <3>1. Pipe # <<>>
      BY <1>3, <2>1, PipeHead DEF CurlInv, LoopInv, Pipe
    <3>2. Tail(Append(Pipe, r)) = Append(Tail(Pipe), r) /\ Tail(Pipe) \in Seq(Request)
      BY <1>4, <3>1, HeadTailAppend, HeadTailProperties
    <3> QED BY <1>1, <1>5, <2>1, <3>2 DEF ToCall
  <2>2. CASE loop # "callback"
    BY <1>1, <1>4, <1>5, <2>2 DEF ToCall
  <2> QED BY <2>1, <2>2
<1>7. adds' = calls' \o ToCall'
  <2>1. Append(calls \o ToCall, r) = calls \o Append(ToCall, r)
    BY <1>3, <1>6, AppendToConcat
  <2>2. adds = calls \o ToCall
    BY DEF CurlInv, PipeInv
  <2> QED BY <1>1, <1>6, <2>1, <2>2
<1>8. Distinct(Pipe') /\ funcMap' = ToSet(Pipe')
  BY <1>1, <1>2, <1>4, <1>5, DistinctAppend DEF CurlInv, PipeInv
<1>9. input' \in Seq(Request) /\ adds' \in Seq(Request)
  BY <1>1, <1>3, AppendProperties
<1>10. CurlTypeOK'
  BY <1>1, <1>9 DEF CurlInv, CurlTypeOK
<1> QED BY <1>1, <1>7, <1>8, <1>10 DEF CurlInv, LoopInv, PipeInv

LEMMA CheckInputStep == ASSUME CurlInv, CheckInput PROVE CurlInv'
<1>1. /\ loop = "idle" /\ loop' = "output"
      /\ UNCHANGED <<funcMap, input, output, finished, adds, calls>>
  BY DEF CheckInput
<1>2. CASE UNCHANGED worker
  <2>1. Pipe' = Pipe
    BY <1>1, <1>2 DEF Pipe, PipeOf
  <2>2. PipeInv'
    BY <1>1, <2>1, MovesWithin
  <2> QED BY <1>1, <1>2, <2>2 DEF CurlInv, CurlTypeOK, LoopInv
<1>3. CASE \E w \in Worker : At(w, {"waiting"}) /\ Goes(w, "woken")
  <2>1. PICK w \in Worker : At(w, {"waiting"}) /\ Goes(w, "woken")
    BY <1>3
  <2>2. "woken" \in Place /\ (IsBusy(worker[w]) <=> "woken" \in BusyPlace)
    BY <2>1 DEF At, IsBusy, BusyPlace, Place
  <2>3. worker' = [worker EXCEPT ![w].at = "woken"]
    BY <2>1 DEF Goes
  <2> QED BY <1>1, <2>2, <2>3, WorkerOnly
<1> QED BY <1>2, <1>3 DEF CheckInput

\* the results become the loop's list
LEMMA CheckOutputStep == ASSUME CurlInv, CheckOutput PROVE CurlInv'
<1>1. loop = "output" /\ UNCHANGED <<funcMap, input, worker, adds, calls>>
  BY DEF CheckOutput
<1>2. /\ HandsOK(worker) /\ input \in Seq(Request) /\ output \in Seq(Request)
      /\ finished = <<>>
  BY <1>1 DEF CurlInv, CurlTypeOK, LoopInv
<1>3. CASE loop' = "idle" /\ UNCHANGED <<output, finished>>
  <2>1. Pipe' = Pipe
    BY <1>1, <1>3 DEF Pipe, PipeOf
  <2>2. PipeInv'
    BY <1>1, <1>3, <2>1, MovesWithin
  <2> QED BY <1>1, <1>3, <2>2 DEF CurlInv, CurlTypeOK, LoopInv
<1>4. CASE loop' = "list" /\ finished' = output /\ output' = <<>>
  <2>1. Pipe' = Pipe
    <3> DEFINE rest == HandOf(worker) \o input
    <3>1. rest \in Seq(Request) /\ output \o rest \in Seq(Request)
      BY <1>2, PipeType, EmptySeq
    <3>2. <<>> \o rest = rest /\ <<>> \o (output \o rest) = output \o rest
      BY <3>1, ConcatEmptySeq
    <3>3. Pipe' = output \o (<<>> \o rest)
      BY <1>1, <1>4 DEF Pipe, PipeOf
    <3>4. Pipe = <<>> \o (output \o rest)
      BY <1>2 DEF Pipe, PipeOf
    <3> QED BY <3>2, <3>3, <3>4
  <2>2. PipeInv'
    BY <1>1, <1>4, <2>1, MovesWithin
  <2>3. <<>> \in Seq(Request)
    BY EmptySeq
  <2> QED BY <1>1, <1>2, <1>4, <2>2, <2>3 DEF CurlInv, CurlTypeOK, LoopInv
<1> QED BY <1>3, <1>4 DEF CheckOutput

\* a callback is always there
LEMMA CallbackStep == ASSUME CurlInv, Callback PROVE CurlInv'
<1>1. /\ loop = "list" /\ finished # <<>>
      /\ UNCHANGED <<funcMap, input, output, worker, adds>>
  BY DEF Callback
<1>2. /\ HandsOK(worker) /\ input \in Seq(Request) /\ output \in Seq(Request)
      /\ finished \in Seq(Request) /\ calls \in Seq(Request)
  BY DEF CurlInv, CurlTypeOK
<1>3. Pipe # <<>> /\ Head(Pipe) = Head(finished) /\ Pipe \in Seq(Request)
  <2>1. Pipe \in Seq(Request)
    BY <1>2, PipeType DEF Pipe
  <2>2. Pipe # <<>> /\ Head(Pipe) = Head(finished)
    BY <1>1, <1>2, PipeHead, SMTT(30) DEF Pipe
  <2> QED BY <2>1, <2>2
<1>4. Head(finished) \in funcMap /\ Head(finished) \in Request
  <2>1. Head(Pipe) = Pipe[1] /\ 1 \in DOMAIN Pipe
    BY <1>3, LenProperties, EmptySeq
  <2>2. Head(Pipe) \in ToSet(Pipe)
    BY <2>1 DEF ToSet
  <2> QED BY <1>1, <1>2, <1>3, <2>2, HeadTailProperties DEF CurlInv, PipeInv
<1>5. loop' = "callback" /\ calls' = Append(calls, Head(finished)) /\ UNCHANGED finished
  BY <1>4 DEF Callback
<1>6. Pipe' = Pipe
  BY <1>1, <1>5 DEF Pipe, PipeOf
<1>7. calls' \o ToCall' = calls \o ToCall
  <2>1. ToCall = Pipe /\ ToCall' = Tail(Pipe)
    BY <1>1, <1>5, <1>6 DEF ToCall
  <2> QED BY <1>2, <1>3, <1>5, <2>1, MoveHead
<1>8. PipeInv'
  BY <1>1, <1>6, <1>7 DEF CurlInv, PipeInv
<1>9. calls' \in Seq(Request)
  BY <1>2, <1>4, <1>5, AppendProperties
<1> QED BY <1>1, <1>5, <1>8, <1>9 DEF CurlInv, CurlTypeOK, LoopInv

\* out of Pipe
LEMMA CallbackReturnsStep == ASSUME CurlInv, CallbackReturns PROVE CurlInv'
<1>1. /\ loop = "callback" /\ loop' = "list"
      /\ funcMap' = funcMap \ {Head(finished)} /\ finished' = Tail(finished)
      /\ UNCHANGED <<input, output, worker, adds, calls>>
  BY DEF CallbackReturns
<1>2. /\ HandsOK(worker) /\ input \in Seq(Request) /\ output \in Seq(Request)
      /\ finished \in Seq(Request) /\ finished # <<>>
  BY <1>1 DEF CurlInv, CurlTypeOK, LoopInv
<1>3. /\ Pipe \in Seq(Request) /\ Pipe # <<>> /\ Head(Pipe) = Head(finished)
      /\ Tail(Pipe) = PipeOf(Tail(finished), output, worker, input)
  BY <1>2, PipeHead, PipeType DEF Pipe
<1>4. Pipe' = Tail(Pipe)
  BY <1>1, <1>3 DEF Pipe, PipeOf
<1>5. ToCall' = ToCall
  BY <1>1, <1>4 DEF ToCall
<1>6. Distinct(Pipe') /\ funcMap' = ToSet(Pipe')
  BY <1>1, <1>3, <1>4, DistinctTail DEF CurlInv, PipeInv
<1>7. PipeInv'
  BY <1>1, <1>5, <1>6 DEF CurlInv, PipeInv
<1>8. finished' \in Seq(Request)
  BY <1>1, <1>2, HeadTailProperties
<1> QED BY <1>1, <1>7, <1>8 DEF CurlInv, CurlTypeOK, LoopInv

LEMMA EndTickStep == ASSUME CurlInv, EndTick PROVE CurlInv'
<1>1. Pipe' = Pipe
  BY DEF EndTick, Pipe, PipeOf
<1>2. PipeInv'
  BY <1>1, MovesWithin DEF EndTick
<1> QED BY <1>2 DEF EndTick, CurlInv, CurlTypeOK, LoopInv

LEMMA CurlStutters == ASSUME CurlInv, UNCHANGED curlVars PROVE CurlInv'
<1>1. Pipe' = Pipe
  BY DEF curlVars, Pipe, PipeOf
<1>2. PipeInv'
  BY <1>1, MovesWithin DEF curlVars
<1> QED BY <1>2 DEF curlVars, CurlInv, CurlTypeOK, LoopInv

LEMMA CurlInductive == ASSUME ~ReaddsOwn, CurlInv, [CurlNext]_curlVars PROVE CurlInv'
<1>1. CASE \E w \in Worker : ProcessWorker(w) \/ SpuriousWakeup(w)
  BY <1>1, StartStep, GetInputStep, PerformStep, LockOutputStep, PushOutputStep, WakeupStep
  DEF ProcessWorker
<1>2. CASE ProcessOnTick
  BY <1>2, CheckInputStep, CheckOutputStep, CallbackStep, CallbackReturnsStep, EndTickStep
  DEF ProcessOnTick
<1>3. CASE \E r \in Request : AddCurl(r)
  BY <1>3, AddCurlStep
<1>4. CASE UNCHANGED curlVars
  BY <1>4, CurlStutters
<1> QED BY <1>1, <1>2, <1>3, <1>4 DEF CurlNext

-----------------------------------------------------------------------------
(* Theorems.                                                               *)

THEOREM CurlInvariant == ASSUME ~ReaddsOwn PROVE CurlSpec => []CurlInv
BY Initially, CurlInductive, PTL DEF CurlSpec

\* The lists, the workers' hands and the callback map stay within their types.
THEOREM CurlTypes == ASSUME ~ReaddsOwn PROVE CurlSpec => []CurlTypeOK
<1>1. CurlInv => CurlTypeOK
  BY DEF CurlInv
<1> QED BY <1>1, CurlInvariant, PTL

\* A callback is registered exactly for the requests under way in ProcessWorker
\* and ProcessOnTick, for any number of threads.
THEOREM Registered == ASSUME ~ReaddsOwn PROVE CurlSpec => []RegisteredAreUnderway
<1>1. ASSUME CurlInv PROVE RegisteredAreUnderway
  <2> DEFINE Held == {worker[w].request : w \in {v \in Worker : worker[v].request # NoRequest}}
  <2>1. /\ HandsOK(worker) /\ input \in Seq(Request) /\ output \in Seq(Request)
        /\ finished \in Seq(Request)
    BY <1>1 DEF CurlInv, CurlTypeOK
  <2>2. /\ HandOf(worker) \in Seq(Request) /\ HandOf(worker) \o input \in Seq(Request)
        /\ output \o (HandOf(worker) \o input) \in Seq(Request)
    BY <2>1, PipeType
  <2>3. ToSet(Pipe) = ToSet(finished) \cup (ToSet(output) \cup (ToSet(HandOf(worker)) \cup ToSet(input)))
    <3> DEFINE held == HandOf(worker) \o input
    <3>1. ToSet(held) = ToSet(HandOf(worker)) \cup ToSet(input)
      BY <2>1, <2>2, RangeOfConcat
    <3> held \in Seq(Request) /\ output \o held \in Seq(Request)
      BY <2>2
    <3> HIDE DEF held
    <3>2. ToSet(output \o held) = ToSet(output) \cup ToSet(held)
      BY <2>1, <2>2, RangeOfConcat
    <3>3. ToSet(finished \o (output \o held)) = ToSet(finished) \cup ToSet(output \o held)
      BY <2>1, <2>2, RangeOfConcat
    <3> USE DEF held
    <3>4. Pipe = finished \o (output \o held)
      BY DEF Pipe, PipeOf
    <3> QED BY <3>1, <3>2, <3>3, <3>4
  <2>4. ToSet(HandOf(worker)) = Held
    <3>1. \A w \in Worker : worker[w].request # NoRequest <=> IsBusy(worker[w])
      BY <2>1, CurlAssumption DEF HandsOK
    <3>2. CASE \E w \in Worker : IsBusy(worker[w])
      <4>1. PICK w \in Worker : IsBusy(worker[w])
        BY <3>2
      <4>2. HandOf(worker) = <<worker[w].request>>
        BY <2>1, <4>1, HandIs
      <4>3. \A v \in Worker : IsBusy(worker[v]) => v = w
        BY <2>1, <4>1 DEF HandsOK
      <4>4. ToSet(HandOf(worker)) = {worker[w].request}
        BY <4>2 DEF ToSet
      <4> QED BY <3>1, <4>1, <4>3, <4>4
    <3>3. CASE \A w \in Worker : ~IsBusy(worker[w])
      <4>1. ToSet(HandOf(worker)) = {}
        BY <2>1, <3>3, HandIs DEF ToSet
      <4> QED BY <3>1, <3>3, <4>1
    <3> QED BY <3>2, <3>3
  <2>5. funcMap = ToSet(Pipe)
    BY <1>1 DEF CurlInv, PipeInv
  <2> QED BY <2>3, <2>4, <2>5 DEF RegisteredAreUnderway
<1> QED BY <1>1, CurlInvariant, PTL

\* Callbacks run once for each AddCurl and in the order of the calls.
THEOREM InOrder == ASSUME ~ReaddsOwn PROVE CurlSpec => []CallbacksInOrder
<1>1. ASSUME CurlInv PROVE CallbacksInOrder
  <2>1. /\ HandsOK(worker) /\ input \in Seq(Request) /\ output \in Seq(Request)
        /\ finished \in Seq(Request) /\ calls \in Seq(Request) /\ adds = calls \o ToCall
    BY <1>1 DEF CurlInv, CurlTypeOK, PipeInv
  <2>2. ToCall \in Seq(Request)
    <3>1. Pipe \in Seq(Request)
      BY <2>1, PipeType DEF Pipe
    <3>2. loop = "callback" => Pipe # <<>>
      BY <1>1, <2>1, PipeHead DEF CurlInv, LoopInv, Pipe
    <3> QED BY <3>1, <3>2, HeadTailProperties DEF ToCall
  <2>3. /\ Len(calls) \in Nat /\ Len(ToCall) \in Nat /\ adds \in Seq(Request)
        /\ Len(adds) = Len(calls) + Len(ToCall)
    BY <2>1, <2>2, LenProperties, ConcatProperties
  <2>4. SubSeq(adds, 1, Len(calls)) = SubSeq(calls, 1, Len(calls))
    <3>1. CASE Len(calls) = 0
      BY <3>1, SubSeqEmpty
    <3>2. CASE Len(calls) # 0
      BY <2>1, <2>2, <2>3, <3>2, SubSeqOfConcat1
    <3> QED BY <3>1, <3>2
  <2> QED BY <2>3, <2>4 DEF CallbacksInOrder, IsPrefix
<1> QED BY <1>1, CurlInvariant, PTL

-----------------------------------------------------------------------------
(***************************************************************************)
(* No message comes twice, for any number of servers, proxies, links,      *)
(* messages and faults.                                                    *)
(*                                                                         *)
(* A message is on the way to a proxy once, and then nowhere else; a copy  *)
(* of it is on the way to a server once, and then that server has not got  *)
(* it; and unless it is a broadcast there are copies for one server only.  *)
(* OnTheWay says so of what the links carry.  Faults and closed sockets    *)
(* only take from the links, so a step is a loss, a new message, a read,   *)
(* or a transfer by a proxy.                                               *)
(***************************************************************************)

\* what the constants must be
SizesOK == Servers \in Nat /\ Proxies \in Nat /\ Links \in Nat /\ MaxMessages \in Nat

LinkFields == {"near", "far", "cut", "registered", "up", "down"}

LinkOK(r) ==
    /\ DOMAIN r = LinkFields
    /\ r.near \in {"connecting", "open", "shut"}
    /\ r.far \in {"none", "open", "shut"}
    /\ r.far = "none" => ~r.registered
    /\ r.up \in Seq(Message \cup {Register}) /\ r.down \in Seq(Message)

LinksOK == DOMAIN link = Link /\ \A k \in Link : LinkOK(link[k])

Sent == {"id", "broadcast", "random", "except"}

MessagesOK ==
    /\ DOMAIN message = Message
    /\ \A m \in Message :
           /\ DOMAIN message[m] = {"kind", "dst", "got"}
           /\ message[m].kind \in Sent \cup {"none"}
           /\ message[m].got \in [Server -> Nat]

SocksOK ==
    /\ DOMAIN sock = ProxyId
    /\ \A p \in ProxyId : DOMAIN sock[p] = Server

\* v is in the sequence, or in it once
In(v, s) == \E i \in 1..Len(s) : s[i] = v
Once(s) == \A i, j \in 1..Len(s) : s[i] = s[j] /\ s[i] # Register => i = j

\* what server s has of message m: it got it, or it will
Has(m, s) ==
    \/ message[m].got[s] > 0
    \/ \E k \in Link : k[1] = s /\ In(m, link[k].down)

Carried(m) ==
    /\ \A k, l \in Link : In(m, link[k].up) /\ In(m, link[l].up) => k = l
    /\ \A k \in Link, s \in Server : In(m, link[k].up) => ~Has(m, s)
    /\ \A k, l \in Link : In(m, link[k].down) /\ In(m, link[l].down) /\ k[1] = l[1] => k = l
    /\ \A k \in Link : In(m, link[k].down) => message[m].got[k[1]] = 0
    /\ \A s \in Server : message[m].got[s] <= 1

Addressed(m) ==
    /\ message[m].kind = "none" => /\ \A k \in Link : ~In(m, link[k].up)
                                   /\ \A s \in Server : ~Has(m, s)
    /\ message[m].kind = "id" => \A s \in Server : Has(m, s) => s = message[m].dst
    /\ message[m].kind # "broadcast" => \A s, t \in Server : Has(m, s) /\ Has(m, t) => s = t

OnTheWay ==
    /\ \A k \in Link : Once(link[k].up) /\ Once(link[k].down)
    /\ \A m \in Message : Carried(m) /\ Addressed(m)

\* RegisteredIsCurrent, by link
Current ==
    \A k \in Link : link[k].registered /\ link[k].far = "open" => sock[k[2]][k[1]] = k[3]

LinkInv == LinksOK /\ MessagesOK /\ SocksOK /\ OnTheWay /\ Current

-----------------------------------------------------------------------------
(* Sequences.                                                              *)

LEMMA InAppend ==
    ASSUME NEW S, NEW s \in Seq(S), NEW e \in S
    PROVE  /\ \A v : In(v, Append(s, e)) <=> In(v, s) \/ v = e
           /\ Once(s) /\ (~In(e, s) \/ e = Register) => Once(Append(s, e))
<1>1. Len(s) \in Nat
  BY LenProperties
<1>2. /\ Append(s, e) \in Seq(S) /\ Len(Append(s, e)) = Len(s) + 1
      /\ \A i \in 1..Len(s) : Append(s, e)[i] = s[i]
      /\ Append(s, e)[Len(s) + 1] = e
  BY AppendProperties
<1> DEFINE a == Append(s, e)
<1>3. \A i \in 1..Len(a) : i \in 1..Len(s) \/ i = Len(s) + 1
  BY <1>1, <1>2
<1>4. \A i \in 1..Len(s) : i \in 1..Len(a)
  BY <1>1, <1>2
<1>5. Len(s) + 1 \in 1..Len(a)
  BY <1>1, <1>2
<1> HIDE DEF a
<1>6. \A v : In(v, a) <=> In(v, s) \/ v = e
  BY <1>2, <1>3, <1>4, <1>5 DEF In, a
<1>7. Once(s) /\ (~In(e, s) \/ e = Register) => Once(a)
  BY <1>2, <1>3, <1>4, <1>5 DEF In, Once, a
<1> QED BY <1>6, <1>7 DEF a

LEMMA InTail ==
    ASSUME NEW S, NEW s \in Seq(S), s # <<>>
    PROVE  /\ In(Head(s), s)
           /\ \A v : In(v, Tail(s)) => In(v, s)
           /\ Once(s) => Once(Tail(s))
           /\ Once(s) /\ Head(s) # Register => ~In(Head(s), Tail(s))
<1>1. Len(s) \in Nat /\ Len(s) # 0
  BY LenProperties, EmptySeq
<1>2. /\ Tail(s) \in Seq(S) /\ Len(Tail(s)) = Len(s) - 1
      /\ \A i \in 1..Len(Tail(s)) : Tail(s)[i] = s[i + 1]
  BY HeadTailProperties
<1>3. Head(s) = s[1] /\ 1 \in 1..Len(s)
  BY <1>1
<1>4. \A i \in 1..Len(Tail(s)) : i + 1 \in 1..Len(s) /\ i + 1 # 1
  BY <1>1, <1>2
<1>5. \A i, j \in 1..Len(Tail(s)) : i + 1 = j + 1 => i = j
  BY <1>1, <1>2
<1> DEFINE t == Tail(s)
           h == Head(s)
<1> HIDE DEF t, h
<1>6. In(h, s)
  BY <1>3 DEF In, h
<1>7. \A v : In(v, t) => In(v, s)
  BY <1>2, <1>4 DEF In, t
<1>8. Once(s) => Once(t)
  BY <1>2, <1>4, <1>5 DEF Once, t
<1>9. Once(s) /\ h # Register => ~In(h, t)
  BY <1>2, <1>3, <1>4 DEF Once, In, t, h
<1> QED BY <1>6, <1>7, <1>8, <1>9 DEF t, h

LEMMA NothingIn == Once(<<>>) /\ \A v : ~In(v, <<>>)
BY DEF Once, In

-----------------------------------------------------------------------------
(* What a step does to a link: it keeps no more messages, and no other     *)
(* registration.                                                           *)

Fewer(new, old) ==
    /\ LinkOK(new)
    /\ \A m \in Message : In(m, new.up) => In(m, old.up)
    /\ \A m \in Message : In(m, new.down) => In(m, old.down)
    /\ (Once(old.up) => Once(new.up)) /\ (Once(old.down) => Once(new.down))

Keeps(new, old) ==
    /\ Fewer(new, old)
    /\ new.registered /\ new.far = "open" => old.registered /\ old.far = "open"

LEMMA RegisterIsNone == ASSUME SizesOK PROVE Register \notin Message
BY DEF SizesOK, Register, Message

LEMMA NewKeeps ==
    \A q : Keeps(NewLink, q) /\ Keeps(NoneLink, q)
<1>1. /\ NewLink.up = <<>> /\ NewLink.down = <<>> /\ ~NewLink.registered /\ LinkOK(NewLink)
  BY DEF NewLink, LinkOK, LinkFields
<1>2. /\ NoneLink.up = <<>> /\ NoneLink.down = <<>> /\ ~NoneLink.registered /\ LinkOK(NoneLink)
  BY DEF NoneLink, NewLink, LinkOK, LinkFields
<1> QED BY <1>1, <1>2, NothingIn DEF Keeps, Fewer

LEMMA SelfKeeps == \A q : LinkOK(q) => Keeps(q, q)
BY DEF Keeps, Fewer

LEMMA ShutKeeps ==
    ASSUME NEW q, LinkOK(q)
    PROVE  /\ Keeps(ShutNear(q), q) /\ Keeps(ShutFar(q), q) /\ Keeps(LoseFar(q), q)
           /\ ShutFar(q).far # "open" /\ LoseFar(q).far # "open"
<1>1. NoneLink.far = "shut"
  BY DEF NoneLink, NewLink
<1>2. Keeps(ShutNear(q), q)
  <2> DEFINE r == [q EXCEPT !.near = "shut", !.down = <<>>]
  <2>1. /\ LinkOK(r) /\ r.up = q.up /\ r.down = <<>> /\ r.far = q.far
        /\ r.registered = q.registered
    BY DEF LinkOK, LinkFields
  <2> HIDE DEF r
  <2>2. Keeps(r, q)
    BY <2>1, NothingIn DEF Keeps, Fewer
  <2> QED BY <2>2, NewKeeps DEF ShutNear, r
<1>3. Keeps(ShutFar(q), q) /\ ShutFar(q).far # "open"
  <2> DEFINE r == [q EXCEPT !.far = "shut", !.registered = FALSE, !.up = <<>>]
  <2>1. LinkOK(r) /\ r.up = <<>> /\ r.down = q.down /\ ~r.registered /\ r.far = "shut"
    BY DEF LinkOK, LinkFields
  <2> HIDE DEF r
  <2>2. Keeps(r, q)
    BY <2>1, NothingIn DEF Keeps, Fewer
  <2> QED BY <1>1, <2>1, <2>2, NewKeeps DEF ShutFar, r
<1>4. Keeps(LoseFar(q), q) /\ LoseFar(q).far # "open"
  <2> DEFINE r == [ShutFar(q) EXCEPT !.cut = TRUE, !.down = <<>>]
             t == ShutFar(q)
  <2>1. LinkOK(t)
    BY <1>3 DEF Keeps, Fewer
  <2> HIDE DEF t
  <2>2. LinkOK([t EXCEPT !.cut = TRUE, !.down = <<>>])
        /\ [t EXCEPT !.cut = TRUE, !.down = <<>>].up = t.up
        /\ [t EXCEPT !.cut = TRUE, !.down = <<>>].down = <<>>
        /\ [t EXCEPT !.cut = TRUE, !.down = <<>>].registered = t.registered
        /\ [t EXCEPT !.cut = TRUE, !.down = <<>>].far = t.far
    BY <2>1 DEF LinkOK, LinkFields
  <2>3. LinkOK(r) /\ r.up = t.up /\ r.down = <<>> /\ r.registered = t.registered /\ r.far = t.far
    BY <2>2 DEF t
  <2> HIDE DEF r
  <2>4. Keeps(t, q) /\ t.far # "open"
    BY <1>3 DEF t
  <2>5. Keeps(r, q) /\ r.far # "open"
    BY <2>3, <2>4, NothingIn DEF Keeps, Fewer
  <2> QED BY <1>1, <2>5, NewKeeps DEF LoseFar, r
<1> QED BY <1>2, <1>3, <1>4

\* the next message leaves the link
LEMMA ReadKeeps ==
    ASSUME NEW q, LinkOK(q)
    PROVE  /\ q.up # <<>> => LET r == [q EXCEPT !.up = Tail(@)]
                             IN  /\ Keeps(r, q) /\ r.up = Tail(q.up) /\ r.down = q.down
                                 /\ r.far = q.far
           /\ q.down # <<>> => LET r == [q EXCEPT !.down = Tail(@)]
                               IN  Keeps(r, q) /\ r.down = Tail(q.down) /\ r.up = q.up
<1>1. ASSUME q.up # <<>>
      PROVE  LET r == [q EXCEPT !.up = Tail(@)]
             IN  Keeps(r, q) /\ r.up = Tail(q.up) /\ r.down = q.down /\ r.far = q.far
  <2> DEFINE r == [q EXCEPT !.up = Tail(@)]
  <2>1. q.up \in Seq(Message \cup {Register}) /\ Tail(q.up) \in Seq(Message \cup {Register})
    BY <1>1, HeadTailProperties DEF LinkOK
  <2>2. /\ LinkOK(r) /\ r.up = Tail(q.up) /\ r.down = q.down /\ r.far = q.far
        /\ r.registered = q.registered
    BY <2>1 DEF LinkOK, LinkFields
  <2> HIDE DEF r
  <2>3. Keeps(r, q)
    BY <1>1, <2>1, <2>2, InTail DEF Keeps, Fewer
  <2> QED BY <2>2, <2>3 DEF r
<1>2. ASSUME q.down # <<>>
      PROVE  LET r == [q EXCEPT !.down = Tail(@)]
             IN  Keeps(r, q) /\ r.down = Tail(q.down) /\ r.up = q.up
  <2> DEFINE r == [q EXCEPT !.down = Tail(@)]
  <2>1. q.down \in Seq(Message) /\ Tail(q.down) \in Seq(Message)
    BY <1>2, HeadTailProperties DEF LinkOK
  <2>2. /\ LinkOK(r) /\ r.down = Tail(q.down) /\ r.up = q.up /\ r.far = q.far
        /\ r.registered = q.registered
    BY <2>1 DEF LinkOK, LinkFields
  <2> HIDE DEF r
  <2>3. Keeps(r, q)
    BY <1>2, <2>1, <2>2, InTail DEF Keeps, Fewer
  <2> QED BY <2>2, <2>3 DEF r
<1> QED BY <1>1, <1>2

\* the server's socket is connected, and registers
LEMMA ConnectKeeps ==
    ASSUME SizesOK, NEW q, LinkOK(q)
    PROVE  Keeps(SendUp([q EXCEPT !.near = "open"], Register), q)
<1> DEFINE t == [q EXCEPT !.near = "open"]
           r == SendUp(t, Register)
<1>1. LinkOK(t) /\ t.up = q.up /\ t.down = q.down /\ t.far = q.far /\ t.registered = q.registered
  BY DEF LinkOK, LinkFields
<1> HIDE DEF t
<1>2. t.up \in Seq(Message \cup {Register}) /\ Register \in Message \cup {Register}
  BY <1>1 DEF LinkOK
<1>3. Append(t.up, Register) \in Seq(Message \cup {Register})
  BY <1>2, AppendProperties
<1>4. ASSUME t.cut \/ t.far = "shut" PROVE Keeps(r, q)
  BY <1>1, <1>4 DEF SendUp, Keeps, Fewer
<1>5. ASSUME ~(t.cut \/ t.far = "shut") PROVE Keeps(r, q)
  <2> DEFINE u == [t EXCEPT !.up = Append(@, Register)]
  <2>1. /\ LinkOK(u) /\ u.up = Append(t.up, Register) /\ u.down = t.down /\ u.far = t.far
        /\ u.registered = t.registered
    BY <1>1, <1>3 DEF LinkOK, LinkFields
  <2>2. r = u
    BY <1>5 DEF SendUp
  <2> HIDE DEF u, r
  <2>3. \A v : In(v, Append(t.up, Register)) <=> In(v, t.up) \/ v = Register
    BY <1>2, InAppend
  <2>4. Once(t.up) => Once(Append(t.up, Register))
    BY <1>2, InAppend
  <2>5. \A m \in Message : In(m, u.up) => In(m, q.up)
    <3> SUFFICES ASSUME NEW m \in Message, In(m, u.up) PROVE In(m, q.up)
      OBVIOUS
    <3> QED BY <1>1, <2>1, <2>3, RegisterIsNone
  <2> QED BY <1>1, <2>1, <2>2, <2>4, <2>5 DEF Keeps, Fewer, r
<1> QED BY <1>4, <1>5 DEF t

\* a message comes to the end of a link
LEMMA SendAdds ==
    ASSUME SizesOK, NEW q, LinkOK(q), NEW m \in Message
    PROVE  /\ ~In(m, q.up) =>
                  LET r == SendUp(q, m)
                  IN  /\ LinkOK(r) /\ r.down = q.down
                      /\ r.registered = q.registered /\ r.far = q.far
                      /\ Once(q.up) => Once(r.up)
                      /\ \A v : In(v, r.up) => In(v, q.up) \/ v = m
           /\ ~In(m, q.down) =>
                  LET r == SendDown(q, m)
                  IN  /\ LinkOK(r) /\ r.up = q.up
                      /\ r.registered = q.registered /\ r.far = q.far
                      /\ Once(q.down) => Once(r.down)
                      /\ \A v : In(v, r.down) => In(v, q.down) \/ v = m
<1>1. ASSUME ~In(m, q.up)
      PROVE  LET r == SendUp(q, m)
             IN  /\ LinkOK(r) /\ r.down = q.down /\ r.registered = q.registered /\ r.far = q.far
                 /\ Once(q.up) => Once(r.up)
                 /\ \A v : In(v, r.up) => In(v, q.up) \/ v = m
  <2> DEFINE u == [q EXCEPT !.up = Append(@, m)]
  <2>1. q.up \in Seq(Message \cup {Register}) /\ m \in Message \cup {Register}
    BY DEF LinkOK
  <2>2. Append(q.up, m) \in Seq(Message \cup {Register})
    BY <2>1, AppendProperties
  <2>3. /\ LinkOK(u) /\ u.up = Append(q.up, m) /\ u.down = q.down /\ u.far = q.far
        /\ u.registered = q.registered
    BY <2>2 DEF LinkOK, LinkFields
  <2>4. SendUp(q, m) = q \/ SendUp(q, m) = u
    BY DEF SendUp
  <2> HIDE DEF u
  <2>5. /\ \A v : In(v, Append(q.up, m)) <=> In(v, q.up) \/ v = m
        /\ Once(q.up) => Once(Append(q.up, m))
    BY <1>1, <2>1, InAppend
  <2> QED BY <2>3, <2>4, <2>5
<1>2. ASSUME ~In(m, q.down)
      PROVE  LET r == SendDown(q, m)
             IN  /\ LinkOK(r) /\ r.up = q.up /\ r.registered = q.registered /\ r.far = q.far
                 /\ Once(q.down) => Once(r.down)
                 /\ \A v : In(v, r.down) => In(v, q.down) \/ v = m
  <2> DEFINE u == [q EXCEPT !.down = Append(@, m)]
  <2>1. q.down \in Seq(Message)
    BY DEF LinkOK
  <2>2. Append(q.down, m) \in Seq(Message)
    BY <2>1, AppendProperties
  <2>3. /\ LinkOK(u) /\ u.down = Append(q.down, m) /\ u.up = q.up /\ u.far = q.far
        /\ u.registered = q.registered
    BY <2>2 DEF LinkOK, LinkFields
  <2>4. SendDown(q, m) = q \/ SendDown(q, m) = u
    BY DEF SendDown
  <2> HIDE DEF u
  <2>5. /\ \A v : In(v, Append(q.down, m)) <=> In(v, q.down) \/ v = m
        /\ Once(q.down) => Once(Append(q.down, m))
    BY <1>2, <2>1, InAppend
  <2> QED BY <2>3, <2>4, <2>5
<1> QED BY <1>1, <1>2

-----------------------------------------------------------------------------
(* The steps.                                                              *)

\* no message is sent or got
LEMMA WayKept ==
    ASSUME LinkInv, DOMAIN link' = Link, \A k \in Link : Fewer(link'[k], link[k]),
           message' = message
    PROVE  LinksOK' /\ MessagesOK' /\ OnTheWay'
<1>1. LinksOK'
  BY DEF LinksOK, Fewer, LinkOK, Link, Message, Register, Server, ProxyId
<1>2. MessagesOK'
  BY DEF LinkInv, MessagesOK, Message, Server
<1>3. \A k \in Link : Once(link'[k].up) /\ Once(link'[k].down)
  BY DEF LinkInv, OnTheWay, Fewer
<1>4. \A m \in Message, k \in Link : /\ In(m, link'[k].up) => In(m, link[k].up)
                                     /\ In(m, link'[k].down) => In(m, link[k].down)
  BY DEF Fewer
<1>5. \A m \in Message, s \in Server : Has(m, s)' => Has(m, s)
  BY <1>4 DEF Has, Link, Server, ProxyId
<1>6. ASSUME NEW m \in Message PROVE Carried(m)'
  <2>1. Carried(m)
    BY DEF LinkInv, OnTheWay
  <2> QED BY <1>4, <1>5, <2>1 DEF Carried, Link, Server, ProxyId
<1>7. ASSUME NEW m \in Message PROVE Addressed(m)'
  <2>1. Addressed(m)
    BY DEF LinkInv, OnTheWay
  <2> QED BY <1>4, <1>5, <2>1 DEF Addressed, Link, Server, ProxyId
<1>8. OnTheWay'
  BY <1>3, <1>6, <1>7 DEF OnTheWay, Link, Server, ProxyId, Message
<1> QED BY <1>1, <1>2, <1>8

\* nor is a socket registered
LEMMA Loss ==
    ASSUME LinkInv, DOMAIN link' = Link, \A k \in Link : Keeps(link'[k], link[k]),
           message' = message, sock' = sock
    PROVE  LinkInv'
<1>1. \A k \in Link : Fewer(link'[k], link[k])
  BY DEF Keeps
<1>2. LinksOK' /\ MessagesOK' /\ OnTheWay'
  BY <1>1, WayKept
<1>3. SocksOK'
  BY DEF LinkInv, SocksOK
<1>4. Current'
  BY DEF LinkInv, Current, Keeps
<1> QED BY <1>2, <1>3, <1>4 DEF LinkInv

LEMMA LinkLoss ==
    ASSUME LinkInv, NEW k \in Link, NEW r, Keeps(r, link[k]),
           link' = [link EXCEPT ![k] = r], message' = message, sock' = sock
    PROVE  LinkInv'
<1>1. DOMAIN link = Link /\ \A l \in Link : LinkOK(link[l])
  BY DEF LinkInv, LinksOK
<1>2. DOMAIN link' = Link
  BY <1>1
<1>3. \A l \in Link : Keeps(link'[l], link[l])
  BY <1>1, SelfKeeps
<1> QED BY <1>2, <1>3, Loss

LEMMA CheckStep ==
    ASSUME LinkInv, NEW s \in Server, OnConnectionCheck(s)
    PROVE  LinkInv'
<1>1. /\ link' = [k \in Link |-> IF k[1] = s /\ k[2] \in ToConnect(s) /\ k[3] = conn'[s][k[2]]
                                 THEN NewLink ELSE link[k]]
      /\ message' = message /\ sock' = sock
  BY DEF OnConnectionCheck
<1>2. \A k \in Link : Keeps(link'[k], link[k])
  BY <1>1, NewKeeps, SelfKeeps DEF LinkInv, LinksOK
<1> QED BY <1>1, <1>2, Loss

LEMMA EndSteps ==
    ASSUME SizesOK, LinkInv, NEW k \in Link,
           \/ OnSocketConnect(k) \/ ServerSeesEnd(k) \/ ProxyAccepts(k) \/ ProxySeesEnd(k)
           \/ OnSocketConnectFail(k) \/ Cut(k)
    PROVE  LinkInv'
<1> DEFINE q == link[k]
<1>0. LinkOK(q)
  BY DEF LinkInv, LinksOK
<1>1. CASE OnSocketConnect(k)
  <2>1. /\ link' = [link EXCEPT ![k] = SendUp([q EXCEPT !.near = "open"], Register)]
        /\ message' = message /\ sock' = sock
    BY <1>1 DEF OnSocketConnect
  <2>2. Keeps(SendUp([q EXCEPT !.near = "open"], Register), q)
    BY <1>0, ConnectKeeps
  <2> QED BY <2>1, <2>2, LinkLoss
<1>2. CASE ServerSeesEnd(k)
  <2>1. link' = [link EXCEPT ![k] = ShutNear(q)] /\ message' = message /\ sock' = sock
    BY <1>2 DEF ServerSeesEnd
  <2> QED BY <1>0, <2>1, ShutKeeps, LinkLoss
<1>3. CASE ProxySeesEnd(k)
  <2>1. link' = [link EXCEPT ![k] = ShutFar(q)] /\ message' = message /\ sock' = sock
    BY <1>3 DEF ProxySeesEnd
  <2> QED BY <1>0, <2>1, ShutKeeps, LinkLoss
<1>4. CASE OnSocketConnectFail(k)
  <2>1. link' = [link EXCEPT ![k] = NoneLink] /\ message' = message /\ sock' = sock
    BY <1>4 DEF OnSocketConnectFail, Fault
  <2> QED BY <2>1, NewKeeps, LinkLoss
<1>5. CASE Cut(k)
  <2> DEFINE r == [q EXCEPT !.cut = TRUE, !.up = <<>>, !.down = <<>>]
  <2>1. link' = [link EXCEPT ![k] = r] /\ message' = message /\ sock' = sock
    <3>1. link' = [link EXCEPT ![k].cut = TRUE, ![k].up = <<>>, ![k].down = <<>>]
      BY <1>5 DEF Cut
    <3>2. message' = message /\ sock' = sock
      BY <1>5 DEF Cut, Fault
    <3>3. DOMAIN link = Link
      BY DEF LinkInv, LinksOK
    <3> QED BY <3>1, <3>2, <3>3
  <2>2. /\ LinkOK(r) /\ r.up = <<>> /\ r.down = <<>> /\ r.registered = q.registered
        /\ r.far = q.far
    BY <1>0 DEF LinkOK, LinkFields
  <2> HIDE DEF r
  <2>3. Keeps(r, q)
    BY <2>2, NothingIn DEF Keeps, Fewer
  <2> QED BY <2>1, <2>3, LinkLoss
<1>6. CASE ProxyAccepts(k)
  <2>1. /\ link' = [link EXCEPT ![k].far = "open"] /\ message' = message /\ sock' = sock
        /\ q.far = "none"
    BY <1>6 DEF ProxyAccepts
  <2> DEFINE r == [q EXCEPT !.far = "open"]
  <2>2. link' = [link EXCEPT ![k] = r]
    BY <2>1 DEF LinkInv, LinksOK
  <2>3. LinkOK(r) /\ ~r.registered /\ r.up = q.up /\ r.down = q.down
    BY <1>0, <2>1 DEF LinkOK, LinkFields
  <2> HIDE DEF r
  <2>4. Keeps(r, q)
    BY <2>3 DEF Keeps, Fewer
  <2> QED BY <2>1, <2>2, <2>4, LinkLoss
<1> QED BY <1>1, <1>2, <1>3, <1>4, <1>5, <1>6

LEMMA RestartStep ==
    ASSUME LinkInv, NEW p \in ProxyId, RestartProxy(p)
    PROVE  LinkInv'
<1>1. /\ link' = [k \in Link |-> IF k[2] = p THEN LoseFar(link[k]) ELSE link[k]]
      /\ sock' = [sock EXCEPT ![p] = [s \in Server |-> NoLink]]
      /\ message' = message
  BY DEF RestartProxy, Fault
<1>2. \A k \in Link : LinkOK(link[k])
  BY DEF LinkInv, LinksOK
<1>3. \A k \in Link : Keeps(link'[k], link[k])
  BY <1>1, <1>2, ShutKeeps, SelfKeeps
<1>4. LinksOK' /\ MessagesOK' /\ OnTheWay'
  BY <1>1, <1>3, WayKept DEF Keeps
<1>5. SocksOK'
  BY <1>1 DEF LinkInv, SocksOK
<1>6. Current'
  <2> SUFFICES ASSUME NEW k \in Link, link'[k].registered, link'[k].far = "open"
               PROVE  sock'[k[2]][k[1]] = k[3]
    BY DEF Current, Link, Server, ProxyId
  <2>1. k[2] # p
    BY <1>1, <1>2, ShutKeeps
  <2>2. link[k].registered /\ link[k].far = "open" /\ k[2] \in ProxyId
    BY <1>3 DEF Keeps, Link
  <2> QED BY <1>1, <2>1, <2>2 DEF LinkInv, Current, SocksOK
<1> QED BY <1>4, <1>5, <1>6 DEF LinkInv

LEMMA ServerReadStep ==
    ASSUME SizesOK, LinkInv, NEW k \in Link, ServerReads(k)
    PROVE  LinkInv'
<1> DEFINE q == link[k]
           m == Head(q.down)
           r == [q EXCEPT !.down = Tail(@)]
<1>1. /\ q.down # <<>> /\ sock' = sock
      /\ message' = [message EXCEPT ![m].got[k[1]] = @ + 1]
      /\ link' = [link EXCEPT ![k].down = Tail(@)]
  BY DEF ServerReads
<1>2. DOMAIN link = Link /\ \A l \in Link : LinkOK(link[l])
  BY DEF LinkInv, LinksOK
<1>3. link' = [link EXCEPT ![k] = r]
  BY <1>1, <1>2
<1>4. q.down \in Seq(Message) /\ m \in Message /\ k[1] \in Server
  BY <1>1, <1>2, HeadTailProperties DEF LinkOK, Link
<1>5. Keeps(r, q) /\ r.down = Tail(q.down) /\ r.up = q.up
  BY <1>1, <1>2, ReadKeeps
<1>6. Once(q.down) /\ m # Register
  BY <1>4, RegisterIsNone DEF LinkInv, OnTheWay
<1>7. In(m, q.down) /\ ~In(m, r.down)
  BY <1>1, <1>4, <1>5, <1>6, InTail
<1> HIDE DEF r, m
<1>8. DOMAIN link' = Link /\ \A l \in Link : link'[l] = IF l = k THEN r ELSE link[l]
  BY <1>2, <1>3
<1>9. \A l \in Link : Keeps(link'[l], link[l])
  BY <1>2, <1>5, <1>8, SelfKeeps
<1>10. \A v \in Message, l \in Link : /\ In(v, link'[l].up) => In(v, link[l].up)
                                      /\ In(v, link'[l].down) => In(v, link[l].down)
  BY <1>9 DEF Keeps, Fewer
<1>11. /\ message[m].got[k[1]] = 0
       /\ \A l \in Link : l[1] = k[1] => ~In(m, link'[l].down)
  BY <1>4, <1>7, <1>8 DEF LinkInv, OnTheWay, Carried
<1>12. /\ DOMAIN message' = Message
       /\ \A v \in Message : message'[v].kind = message[v].kind /\ message'[v].dst = message[v].dst
       /\ \A v \in Message : DOMAIN message'[v] = DOMAIN message[v]
       /\ \A v \in Message, s \in Server :
              message'[v].got[s] = IF v = m /\ s = k[1] THEN 1 ELSE message[v].got[s]
       /\ \A v \in Message : message'[v].got \in [Server -> Nat]
  <2>1. message' = [message EXCEPT ![m] = [message[m] EXCEPT !.got = [message[m].got EXCEPT ![k[1]] = @ + 1]]]
    BY <1>1
  <2> DEFINE x == [message[m] EXCEPT !.got = [message[m].got EXCEPT ![k[1]] = @ + 1]]
  <2>2. MessagesOK
    BY DEF LinkInv
  <2>3. /\ DOMAIN x = DOMAIN message[m] /\ x.kind = message[m].kind /\ x.dst = message[m].dst
        /\ x.got = [message[m].got EXCEPT ![k[1]] = @ + 1]
    BY <1>4, <2>2 DEF MessagesOK
  <2> HIDE DEF x
  <2>4. x.got = [message[m].got EXCEPT ![k[1]] = 1]
    BY <1>11, <2>3
  <2>5. x.got \in [Server -> Nat]
    BY <1>4, <2>2, <2>4 DEF MessagesOK
  <2>6. \A v \in Message : message'[v] = IF v = m THEN x ELSE message[v]
    BY <2>1, <2>2 DEF MessagesOK, x
  <2>7. DOMAIN message' = Message
    BY <2>1, <2>2 DEF MessagesOK
  <2>8. \A s \in Server : x.got[s] = IF s = k[1] THEN 1 ELSE message[m].got[s]
    BY <1>4, <2>2, <2>4 DEF MessagesOK
  <2> QED BY <2>2, <2>3, <2>5, <2>6, <2>7, <2>8 DEF MessagesOK
<1>13. \A v \in Message, s \in Server : Has(v, s)' => Has(v, s)
  <2> SUFFICES ASSUME NEW v \in Message, NEW s \in Server, Has(v, s)' PROVE Has(v, s)
    OBVIOUS
  <2>1. CASE \E l \in Link : l[1] = s /\ In(v, link'[l].down)
    BY <1>10, <2>1 DEF Has
  <2>2. CASE message'[v].got[s] > 0
    BY <1>7, <1>12, <2>2 DEF Has
  <2> QED BY <2>1, <2>2 DEF Has, Link, Server, ProxyId
<1>14. ASSUME NEW v \in Message PROVE Carried(v)'
  <2>1. Carried(v)
    BY DEF LinkInv, OnTheWay
  <2>2. \A l \in Link : In(v, link'[l].down) => message'[v].got[l[1]] = 0
    <3> SUFFICES ASSUME NEW l \in Link, In(v, link'[l].down) PROVE message'[v].got[l[1]] = 0
      OBVIOUS
    <3>1. l[1] \in Server /\ ~(v = m /\ l[1] = k[1])
      BY <1>11 DEF Link
    <3> QED BY <1>10, <1>12, <2>1, <3>1 DEF Carried
  <2>3. \A s \in Server : message'[v].got[s] <= 1
    BY <1>12, <2>1 DEF Carried
  <2> QED BY <1>10, <1>13, <2>1, <2>2, <2>3 DEF Carried, Link, Server, ProxyId
<1>15. ASSUME NEW v \in Message PROVE Addressed(v)'
  <2>1. Addressed(v)
    BY DEF LinkInv, OnTheWay
  <2> QED BY <1>10, <1>12, <1>13, <2>1 DEF Addressed, Link, Server, ProxyId
<1>16. \A l \in Link : Once(link'[l].up) /\ Once(link'[l].down)
  BY <1>9 DEF LinkInv, OnTheWay, Keeps, Fewer
<1>17. OnTheWay'
  BY <1>14, <1>15, <1>16 DEF OnTheWay, Link, Server, ProxyId, Message
<1>18. LinksOK'
  BY <1>8, <1>9 DEF LinksOK, Keeps, Fewer, LinkOK, Link, Message, Register, Server, ProxyId
<1>19. MessagesOK'
  BY <1>12 DEF LinkInv, MessagesOK, Message, Server
<1>20. SocksOK' /\ Current'
  BY <1>1, <1>9 DEF LinkInv, SocksOK, Current, Keeps, Link, Server, ProxyId
<1> QED BY <1>17, <1>18, <1>19, <1>20 DEF LinkInv

LEMMA SendStep ==
    ASSUME SizesOK, LinkInv, NEW s \in Server, NEW m \in Message, NEW pause, NEW sending \in Sent,
           NEW dst, ConnectionSendBySequence(s, m, pause, sending, dst)
    PROVE  LinkInv'
<1>1. /\ message[m].kind = "none" /\ sock' = sock
      /\ message' = [message EXCEPT ![m].kind = sending, ![m].dst = dst]
      /\ \E k : link' = [link EXCEPT ![k] = SendUp(@, m)]
  BY DEF ConnectionSendBySequence
<1>2. PICK k : link' = [link EXCEPT ![k] = SendUp(link[k], m)]
  BY <1>1
<1>3. DOMAIN link = Link /\ \A l \in Link : LinkOK(link[l])
  BY DEF LinkInv, LinksOK
<1>4. /\ \A l \in Link : ~In(m, link[l].up) /\ ~In(m, link[l].down)
      /\ \A t \in Server : ~Has(m, t) /\ message[m].got[t] = 0
  <2>1. \A t \in Server : ~Has(m, t)
    BY <1>1 DEF LinkInv, OnTheWay, Addressed
  <2>2. \A l \in Link : ~In(m, link[l].up) /\ ~In(m, link[l].down)
    BY <1>1, <2>1 DEF LinkInv, OnTheWay, Addressed, Has, Link
  <2>3. \A t \in Server : message[m].got[t] \in Nat
    BY DEF LinkInv, MessagesOK
  <2> QED BY <2>1, <2>2, <2>3 DEF Has
<1>5. DOMAIN link' = Link /\ \A l \in Link : link'[l] = IF l = k THEN SendUp(link[l], m) ELSE link[l]
  BY <1>2, <1>3
<1>6. \A l \in Link :
          /\ LinkOK(link'[l]) /\ link'[l].down = link[l].down
          /\ link'[l].registered = link[l].registered /\ link'[l].far = link[l].far
          /\ Once(link[l].up) => Once(link'[l].up)
          /\ \A v : In(v, link'[l].up) => In(v, link[l].up) \/ (v = m /\ l = k)
  BY <1>3, <1>4, <1>5, SendAdds, SMTT(30)
<1>7. /\ DOMAIN message' = Message
      /\ \A v \in Message : v # m => message'[v] = message[v]
      /\ message'[m].kind = sending /\ message'[m].got = message[m].got
      /\ DOMAIN message'[m] = DOMAIN message[m]
  <2> DEFINE x == [message[m] EXCEPT !.kind = sending, !.dst = dst]
  <2>1. MessagesOK
    BY DEF LinkInv
  <2>2. message' = [message EXCEPT ![m] = x]
    BY <1>1, <2>1 DEF MessagesOK
  <2>3. x.kind = sending /\ x.got = message[m].got /\ DOMAIN x = DOMAIN message[m]
    BY <2>1 DEF MessagesOK
  <2> HIDE DEF x
  <2> QED BY <2>1, <2>2, <2>3 DEF MessagesOK
<1>8. /\ \A v \in Message, t \in Server : Has(v, t)' => Has(v, t)
      /\ \A v \in Message : message'[v].got = message[v].got
  BY <1>6, <1>7 DEF Has, Link, Server, ProxyId
<1>9. ASSUME NEW v \in Message PROVE Carried(v)' /\ Addressed(v)'
  <2>1. Carried(v) /\ Addressed(v)
    BY DEF LinkInv, OnTheWay
  <2>2. CASE v # m
    <3>1. \A l \in Link : In(v, link'[l].up) => In(v, link[l].up)
      BY <1>6, <2>2
    <3>2. message'[v] = message[v]
      BY <1>7, <2>2
    <3>3. Carried(v)'
      BY <1>6, <1>8, <2>1, <3>1, <3>2 DEF Carried, Link, Server, ProxyId
    <3>4. Addressed(v)'
      BY <1>6, <1>8, <2>1, <3>1, <3>2 DEF Addressed, Link, Server, ProxyId
    <3> QED BY <3>3, <3>4
  <2>3. CASE v = m
    <3>1. \A l \in Link : /\ In(m, link'[l].up) => l = k
                          /\ ~In(m, link'[l].down)
      BY <1>4, <1>6
    <3>2. \A t \in Server : ~Has(m, t)' /\ message'[m].got[t] = 0
      BY <1>4, <1>8
    <3>3. Carried(m)'
      BY <3>1, <3>2 DEF Carried, Link, Server, ProxyId
    <3>4. Addressed(m)'
      BY <1>7, <3>2 DEF Addressed, Sent, Link, Server, ProxyId
    <3> QED BY <2>3, <3>3, <3>4
  <2> QED BY <2>2, <2>3
<1>10. OnTheWay'
  BY <1>6, <1>9 DEF LinkInv, OnTheWay, Link, Server, ProxyId, Message
<1>11. LinksOK'
  BY <1>5, <1>6 DEF LinksOK, LinkOK, Link, Message, Register, Server, ProxyId
<1>12. MessagesOK'
  <2>1. MessagesOK
    BY DEF LinkInv
  <2>2. \A v \in Message : /\ DOMAIN message'[v] = {"kind", "dst", "got"}
                           /\ message'[v].kind \in Sent \cup {"none"}
                           /\ message'[v].got \in [Server -> Nat]
    BY <1>7, <2>1 DEF MessagesOK
  <2> QED BY <1>7, <2>2 DEF MessagesOK, Message, Server
<1>13. SocksOK' /\ Current'
  BY <1>1, <1>6 DEF LinkInv, SocksOK, Current, Link, Server, ProxyId
<1> QED BY <1>10, <1>11, <1>12, <1>13 DEF LinkInv

LEMMA RegisterStep ==
    ASSUME LinkInv, NEW k \in Link, link[k].far = "open", link[k].up # <<>>,
           HandleRegisterRequest(k)
    PROVE  LinkInv'
<1> DEFINE q == link[k]
           old == <<k[1], k[2], sock[k[2]][k[1]]>>
           r == [q EXCEPT !.up = Tail(@), !.registered = TRUE]
           read == [q EXCEPT !.up = Tail(@)]
<1>1. /\ link' = [l \in Link |-> IF l = k THEN r
                                 ELSE IF l = old /\ link[l].far = "open" THEN ShutFar(link[l])
                                 ELSE link[l]]
      /\ sock' = [sock EXCEPT ![k[2]][k[1]] = k[3]] /\ message' = message
  BY DEF HandleRegisterRequest
<1>2. \A l \in Link : LinkOK(link[l])
  BY DEF LinkInv, LinksOK
<1>3. Fewer(r, q)
  <2>1. Keeps(read, q) /\ read.up = Tail(q.up) /\ read.down = q.down /\ read.far = q.far
    BY <1>2, ReadKeeps
  <2>2. DOMAIN q = LinkFields /\ LinkOK(read)
    BY <1>2, <2>1 DEF LinkOK, Keeps, Fewer
  <2>3. /\ DOMAIN r = LinkFields /\ r.near = read.near /\ r.far = read.far
        /\ r.up = read.up /\ r.down = read.down
    BY <2>2 DEF LinkFields
  <2>4. r.far # "none"
    BY <2>1, <2>3
  <2> HIDE DEF r, read
  <2>5. LinkOK(r)
    BY <2>2, <2>3, <2>4 DEF LinkOK
  <2> QED BY <2>1, <2>3, <2>5 DEF Keeps, Fewer
<1> HIDE DEF r
<1>4. \A l \in Link : l # k => Keeps(link'[l], link[l])
  BY <1>1, <1>2, ShutKeeps, SelfKeeps
<1>5. \A l \in Link : Fewer(link'[l], link[l])
  BY <1>1, <1>3, <1>4 DEF Keeps
<1>6. LinksOK' /\ MessagesOK' /\ OnTheWay'
  BY <1>1, <1>5, WayKept
<1>7. /\ k[1] \in Server /\ k[2] \in ProxyId /\ k = <<k[1], k[2], k[3]>>
      /\ DOMAIN sock = ProxyId /\ \A p \in ProxyId : DOMAIN sock[p] = Server
  BY DEF Link, LinkInv, SocksOK
<1>8. /\ DOMAIN sock' = ProxyId
      /\ \A p \in ProxyId : /\ DOMAIN sock'[p] = Server
                            /\ \A t \in Server : sock'[p][t] = IF p = k[2] /\ t = k[1] THEN k[3]
                                                               ELSE sock[p][t]
  BY <1>1, <1>7
<1>9. SocksOK'
  BY <1>8 DEF SocksOK, ProxyId, Server
<1>10. Current'
  <2> SUFFICES ASSUME NEW l \in Link, link'[l].registered, link'[l].far = "open"
               PROVE  sock'[l[2]][l[1]] = l[3]
    BY DEF Current, Link, Server, ProxyId
  <2>1. l[1] \in Server /\ l[2] \in ProxyId /\ l = <<l[1], l[2], l[3]>>
    BY DEF Link
  <2>2. CASE l = k
    BY <1>7, <1>8, <2>2
  <2>3. CASE l # k
    <3>1. link[l].registered /\ link[l].far = "open"
      BY <1>4, <2>3 DEF Keeps
    <3>2. sock[l[2]][l[1]] = l[3]
      BY <3>1 DEF LinkInv, Current
    <3>3. ~(l[1] = k[1] /\ l[2] = k[2])
      <4> SUFFICES ASSUME l[1] = k[1], l[2] = k[2] PROVE FALSE
        OBVIOUS
      <4>1. l = old
        BY <2>1, <3>2
      <4>2. link'[l] = ShutFar(link[l])
        BY <1>1, <2>3, <3>1, <4>1
      <4> QED BY <1>2, <4>2, ShutKeeps
    <3> QED BY <1>8, <2>1, <3>2, <3>3
  <2> QED BY <2>2, <2>3
<1> QED BY <1>6, <1>9, <1>10 DEF LinkInv

\* a message that is not a broadcast goes to one server at most
LEMMA TargetsAreFew ==
    ASSUME NEW p, NEW sending \in Sent, NEW dst, NEW to \in Targets(p, sending, dst)
    PROVE  /\ sending = "id" => to = {dst}
           /\ sending # "broadcast" => \A s, t \in to : s = t
<1>1. CASE sending = "id"
  BY <1>1 DEF Targets
<1>2. CASE sending = "broadcast"
  BY <1>2
<1>3. CASE sending = "random"
  BY <1>3 DEF Targets, Only
<1>4. CASE sending = "except"
  BY <1>4 DEF Targets, Only
<1> QED BY <1>1, <1>2, <1>3, <1>4 DEF Sent

LEMMA TransferStep ==
    ASSUME SizesOK, LinkInv, NEW k \in Link, link[k].up # <<>>,
           NEW m \in Message, m = Head(link[k].up), HandleMessageTransfer(k)
    PROVE  LinkInv'
<1> DEFINE q == link[k]
           p == k[2]
           r == [q EXCEPT !.up = Tail(@)]
           read(l) == IF l = k THEN [link[l] EXCEPT !.up = Tail(@)] ELSE link[l]
           rd(l) == IF l = k THEN r ELSE link[l]
<1>1. PICK to \in Targets(p, message[m].kind, message[m].dst) :
          link' = [l \in Link |-> IF l[2] = p /\ l[1] \in to /\ sock[p][l[1]] = l[3] /\ read(l).far = "open"
                                  THEN SendDown(read(l), m) ELSE read(l)]
  BY DEF HandleMessageTransfer
<1> DEFINE ToIt(l) == l[2] = p /\ l[1] \in to /\ sock[p][l[1]] = l[3]
<1>2. sock' = sock /\ message' = message
  BY DEF HandleMessageTransfer
<1>3. DOMAIN link = Link /\ \A l \in Link : LinkOK(link[l])
  BY DEF LinkInv, LinksOK
<1>4. q.up \in Seq(Message \cup {Register}) /\ m # Register
  BY <1>3, RegisterIsNone DEF LinkOK
<1>5. Keeps(r, q) /\ r.up = Tail(q.up) /\ r.down = q.down /\ r.far = q.far
  BY <1>3, ReadKeeps
<1>6. Once(q.up)
  BY DEF LinkInv, OnTheWay
<1>7. In(m, q.up) /\ ~In(m, r.up)
  BY <1>4, <1>5, <1>6, InTail
<1>8. \A l \in Link : read(l) = rd(l)
  OBVIOUS
<1>9. \A l \in Link : Keeps(rd(l), link[l]) /\ rd(l).down = link[l].down
  BY <1>3, <1>5, SelfKeeps
<1>10. \A l \in Link : link'[l] = rd(l) \/ (ToIt(l) /\ link'[l] = SendDown(rd(l), m))
  BY <1>1, <1>8
<1> HIDE DEF r, read
<1>11. /\ \A l \in Link : ~In(m, rd(l).up)
       /\ \A s \in Server : ~Has(m, s)
       /\ \A l \in Link : ~In(m, link[l].down)
  <2>1. Carried(m)
    BY <1>4 DEF LinkInv, OnTheWay
  <2>2. \A s \in Server : ~Has(m, s)
    BY <1>7, <2>1 DEF Carried
  <2>3. \A l \in Link : ~In(m, link[l].down)
    BY <2>2 DEF Has, Link
  <2>4. \A l \in Link : ~In(m, rd(l).up)
    BY <1>7, <2>1 DEF Carried
  <2> QED BY <2>2, <2>3, <2>4
<1> HIDE DEF rd
<1>12. \A l \in Link :
          /\ LinkOK(link'[l]) /\ link'[l].up = rd(l).up
          /\ link'[l].registered = rd(l).registered /\ link'[l].far = rd(l).far
          /\ Once(rd(l).down) => Once(link'[l].down)
          /\ \A v : In(v, link'[l].down) => In(v, rd(l).down) \/ (v = m /\ ToIt(l))
  <2> TAKE l \in Link
  <2>1. LinkOK(rd(l)) /\ ~In(m, rd(l).down)
    BY <1>9, <1>11 DEF Keeps, Fewer
  <2>2. CASE link'[l] = rd(l)
    BY <2>1, <2>2
  <2>3. CASE ToIt(l) /\ link'[l] = SendDown(rd(l), m)
    <3> HIDE DEF ToIt
    <3> QED BY <1>4, <2>1, <2>3, SendAdds
  <2> QED BY <1>10, <2>2, <2>3
<1>13. \A l \in Link :
          /\ LinkOK(link'[l]) /\ (Once(link[l].up) => Once(link'[l].up))
          /\ link'[l].registered /\ link'[l].far = "open" => link[l].registered /\ link[l].far = "open"
          /\ Once(link[l].down) => Once(link'[l].down)
          /\ ~In(m, link'[l].up)
          /\ \A v \in Message : In(v, link'[l].up) => In(v, link[l].up)
          /\ \A v : In(v, link'[l].down) => In(v, link[l].down) \/ (v = m /\ ToIt(l))
  <2> HIDE DEF ToIt
  <2> QED BY <1>9, <1>11, <1>12 DEF Keeps, Fewer
<1>14. \A s \in Server : Has(m, s)' => s \in to
  <2> SUFFICES ASSUME NEW s \in Server, Has(m, s)' PROVE s \in to
    OBVIOUS
  <2>1. ~(message[m].got[s] > 0)
    BY <1>11 DEF Has
  <2>2. PICK l \in Link : l[1] = s /\ In(m, link'[l].down)
    BY <1>2, <2>1 DEF Has, Link, Server, ProxyId
  <2> QED BY <1>11, <1>13, <2>2
<1>15. Carried(m)' /\ Addressed(m)'
  <2>1. \A s \in Server : message[m].got[s] = 0
    BY <1>4, <1>11 DEF Has, LinkInv, MessagesOK
  <2>2. \A l \in Link : In(m, link'[l].down) => l = <<l[1], p, sock[p][l[1]]>> /\ l[1] \in Server
    BY <1>11, <1>13, SMTT(30) DEF Link
  <2>3. Carried(m)'
    BY <1>2, <1>13, <2>1, <2>2 DEF Carried, Link, Server, ProxyId
  <2>4. message[m].kind \in Sent
    <3>1. message[m].kind # "none"
      BY <1>4, <1>7 DEF LinkInv, OnTheWay, Addressed
    <3> QED BY <1>4, <3>1 DEF LinkInv, MessagesOK
  <2>5. /\ message[m].kind = "id" => to = {message[m].dst}
        /\ message[m].kind # "broadcast" => \A s, t \in to : s = t
    BY <2>4, TargetsAreFew
  <2>6. Addressed(m)'
    <3>1. message[m].kind # "none"
      BY <2>4 DEF Sent
    <3> QED BY <1>2, <1>14, <2>5, <3>1 DEF Addressed, Link, Server, ProxyId
  <2> QED BY <2>3, <2>6
<1>16. ASSUME NEW v \in Message, v # m PROVE Carried(v)' /\ Addressed(v)'
  <2>1. Carried(v) /\ Addressed(v)
    BY DEF LinkInv, OnTheWay
  <2>2. \A l \in Link : /\ In(v, link'[l].up) => In(v, link[l].up)
                        /\ In(v, link'[l].down) => In(v, link[l].down)
    BY <1>13, <1>16
  <2>3. \A s \in Server : Has(v, s)' => Has(v, s)
    BY <1>2, <2>2 DEF Has, Link, Server, ProxyId
  <2>4. Carried(v)'
    BY <1>2, <2>1, <2>2, <2>3 DEF Carried, Link, Server, ProxyId
  <2>5. Addressed(v)'
    BY <1>2, <2>1, <2>2, <2>3 DEF Addressed, Link, Server, ProxyId
  <2> QED BY <2>4, <2>5
<1>17. OnTheWay'
  BY <1>13, <1>15, <1>16 DEF LinkInv, OnTheWay, Link, Server, ProxyId, Message
<1>18. LinksOK'
  BY <1>1, <1>13 DEF LinksOK, LinkOK, Link, Message, Register, Server, ProxyId
<1>19. MessagesOK' /\ SocksOK' /\ Current'
  BY <1>2, <1>13 DEF LinkInv, MessagesOK, SocksOK, Current, Link, Server, ProxyId, Message
<1> QED BY <1>17, <1>18, <1>19 DEF LinkInv

LEMMA LinkBegan == SizesOK /\ LinkInit => LinkInv
<1> SUFFICES ASSUME SizesOK, LinkInit PROVE LinkInv
  OBVIOUS
<1> DEFINE first == [NewLink EXCEPT !.near = "open", !.up = <<Register>>]
<1>1. /\ link = [k \in Link |-> IF k[3] = 1 THEN first ELSE NoneLink]
      /\ message = [m \in Message |-> [kind |-> "none", dst |-> 0, got |-> [s \in Server |-> 0]]]
      /\ sock = [p \in ProxyId |-> [s \in Server |-> NoLink]]
  BY DEF LinkInit
<1>2. <<Register>> \in Seq(Message \cup {Register}) /\ <<>> \in Seq(Message)
  OBVIOUS
<1>3. /\ DOMAIN first = LinkFields /\ first.up = <<Register>> /\ first.down = <<>>
      /\ first.near = "open" /\ first.far = "none" /\ ~first.registered
  BY DEF NewLink, LinkFields
<1>4. /\ DOMAIN NoneLink = LinkFields /\ NoneLink.up = <<>> /\ NoneLink.down = <<>>
      /\ NoneLink.near = "shut" /\ NoneLink.far = "shut" /\ ~NoneLink.registered
  BY DEF NewLink, NoneLink, LinkFields
<1> HIDE DEF first
<1>5. LinkOK(first) /\ LinkOK(NoneLink)
  BY <1>2, <1>3, <1>4 DEF LinkOK
<1>6. Once(<<Register>>) /\ \A m \in Message : ~In(m, <<Register>>)
  BY RegisterIsNone DEF Once, In
<1>7. \A k \in Link : /\ LinkOK(link[k]) /\ ~link[k].registered
                      /\ Once(link[k].up) /\ Once(link[k].down)
                      /\ \A m \in Message : ~In(m, link[k].up) /\ ~In(m, link[k].down)
  BY <1>1, <1>3, <1>4, <1>5, <1>6, NothingIn
<1>8. LinksOK /\ Current
  BY <1>1, <1>7 DEF LinksOK, Current
<1>9. \A m \in Message : /\ DOMAIN message[m] = {"kind", "dst", "got"} /\ message[m].kind = "none"
                         /\ message[m].got = [s \in Server |-> 0]
  BY <1>1
<1>10. MessagesOK /\ SocksOK
  BY <1>1, <1>9 DEF MessagesOK, SocksOK
<1>11. \A m \in Message, s \in Server : ~Has(m, s) /\ message[m].got[s] = 0
  BY <1>7, <1>9 DEF Has
<1>12. \A m \in Message : Carried(m) /\ Addressed(m)
  BY <1>7, <1>9, <1>11 DEF Carried, Addressed
<1>13. OnTheWay
  BY <1>7, <1>12 DEF OnTheWay
<1> QED BY <1>8, <1>10, <1>13 DEF LinkInv

LEMMA LinkInductive == SizesOK /\ LinkInv /\ [LinkNext]_linkVars => LinkInv'
<1> SUFFICES ASSUME SizesOK, LinkInv, [LinkNext]_linkVars PROVE LinkInv'
  OBVIOUS
<1>1. CASE \E s \in Server : OnConnectionCheck(s)
  BY <1>1, CheckStep
<1>2. CASE \E s, dst \in Server, m \in Message, pause \in Pauses, sending \in Sent :
               ConnectionSendBySequence(s, m, pause, sending, dst)
  BY <1>2, SendStep
<1>3. CASE \E k \in Link : \/ OnSocketConnect(k) \/ ServerSeesEnd(k) \/ ProxyAccepts(k)
                           \/ ProxySeesEnd(k) \/ OnSocketConnectFail(k) \/ Cut(k)
  BY <1>3, EndSteps
<1>4. CASE \E k \in Link : ServerReads(k)
  BY <1>4, ServerReadStep
<1>5. CASE \E k \in Link : ProxyReads(k)
  <2>1. PICK k \in Link : ProxyReads(k)
    BY <1>5
  <2>2. link[k].far = "open" /\ link[k].up # <<>>
    BY <2>1 DEF ProxyReads
  <2>3. CASE Head(link[k].up) = Register
    BY <2>1, <2>2, <2>3, RegisterStep DEF ProxyReads
  <2>4. CASE Head(link[k].up) # Register
    <3>1. link[k].up \in Seq(Message \cup {Register})
      BY DEF LinkInv, LinksOK, LinkOK
    <3>2. Head(link[k].up) \in Message
      BY <2>2, <2>4, <3>1, HeadTailProperties
    <3>3. HandleMessageTransfer(k)
      BY <2>1, <2>4 DEF ProxyReads
    <3> QED BY <2>2, <3>2, <3>3, TransferStep
  <2> QED BY <2>3, <2>4
<1>6. CASE \E p \in ProxyId : RestartProxy(p)
  BY <1>6, RestartStep
<1>7. CASE UNCHANGED linkVars
  <2>1. link' = link /\ message' = message /\ sock' = sock
    BY <1>7 DEF linkVars
  <2>2. DOMAIN link' = Link /\ \A k \in Link : Keeps(link'[k], link[k])
    BY <2>1, SelfKeeps DEF LinkInv, LinksOK
  <2> QED BY <2>1, <2>2, Loss
<1> QED BY <1>1, <1>2, <1>3, <1>4, <1>5, <1>6, <1>7 DEF LinkNext, ServerStep, ProxyStep, Sent

\* What is on the links and what the servers got agree, over faults,
\* reconnections and several sockets of one server.
THEOREM LinkInvariant ==
    ASSUME SizesOK
    PROVE  LinkSpec => []LinkInv
<1>1. LinkInit => LinkInv
  BY LinkBegan
<1>2. LinkInv /\ [LinkNext]_linkVars => LinkInv'
  BY LinkInductive
<1> QED BY <1>1, <1>2, PTL DEF LinkSpec

\* No message comes to a server twice or to one it is not for, and none but a
\* broadcast to two, for any number of servers, proxies, messages and faults.
THEOREM NoneTwice ==
    ASSUME SizesOK
    PROVE  LinkSpec => []AtMostOnce
<1>1. LinkInv => AtMostOnce
  <2> SUFFICES ASSUME LinkInv, NEW m \in Message
               PROVE  /\ \A s \in Server : message[m].got[s] <= 1
                      /\ message[m].kind = "id" => GotBy(m) \subseteq {message[m].dst}
                      /\ message[m].kind # "broadcast" => Cardinality(GotBy(m)) <= 1
    BY DEF AtMostOnce
  <2>1. Carried(m) /\ Addressed(m)
    BY DEF LinkInv, OnTheWay
  <2>2. \A s \in GotBy(m) : s \in Server /\ Has(m, s)
    BY DEF GotBy, Has
  <2>3. message[m].kind = "id" => GotBy(m) \subseteq {message[m].dst}
    BY <2>1, <2>2 DEF Addressed
  <2>4. ASSUME message[m].kind # "broadcast" PROVE Cardinality(GotBy(m)) <= 1
    <3>1. \A s, t \in GotBy(m) : s = t
      BY <2>1, <2>2, <2>4 DEF Addressed
    <3>2. GotBy(m) = {} \/ \E s : GotBy(m) = {s}
      BY <3>1
    <3>3. Cardinality(GotBy(m)) \in {0, 1}
      BY <3>2, FS_EmptySet, FS_Singleton
    <3> QED BY <3>3
  <2> QED BY <2>1, <2>3, <2>4 DEF Carried
<1> QED BY <1>1, LinkInvariant, PTL

\* A proxy has no open registered socket of a server besides the one it sends by,
\* in whatever order late connects register.
THEOREM OneSocketOfAServer ==
    ASSUME SizesOK
    PROVE  LinkSpec => []RegisteredIsCurrent
<1>1. LinkInv => RegisteredIsCurrent
  <2> SUFFICES ASSUME Current, NEW s \in Server, NEW p \in ProxyId, NEW i \in 1..Links,
                      link[s, p, i].registered, link[s, p, i].far = "open"
               PROVE  sock[p][s] = i
    BY DEF LinkInv, RegisteredIsCurrent
  <2> DEFINE k == <<s, p, i>>
  <2>1. k \in Link /\ k[1] = s /\ k[2] = p /\ k[3] = i
    BY DEF Link
  <2>2. link[k].registered /\ link[k].far = "open"
    OBVIOUS
  <2> HIDE DEF k
  <2> QED BY <2>1, <2>2 DEF Current
<1> QED BY <1>1, LinkInvariant, PTL

-----------------------------------------------------------------------------
(* The types of the connections, the tables and the bounds.                *)

\* there is a proxy and a link to it, and the bounds are numbers
BoundsOK == Links # 0 /\ Proxies # 0 /\ MaxFaults \in Nat /\ MaxSlow \in Nat

TableTypes ==
    /\ conn \in [Server -> [ProxyId -> 1..Links]]
    /\ sock \in [ProxyId -> [Server -> 0..Links]]
    /\ index \in [Server -> ProxyId]
    /\ bounds \in [faults : 0..MaxFaults, slow : 0..MaxSlow]

LEMMA CheckTypes ==
    ASSUME SizesOK, BoundsOK, TableTypes, NEW s \in Server, OnConnectionCheck(s)
    PROVE  TableTypes'
<1> DEFINE late == {p \in ToConnect(s) : link[s, p, conn[s][p]].near = "connecting"}
           Unused(p) == {i \in 1..Links : IsUnused(s, p, i)}
           new == [p \in ProxyId |-> IF p \in ToConnect(s) THEN Min(Unused(p)) ELSE conn[s][p]]
<1>1. /\ \A p \in ToConnect(s) : Unused(p) # {}
      /\ bounds' = [bounds EXCEPT !.slow = @ + Cardinality(late)] /\ bounds'.slow <= MaxSlow
      /\ conn' = [conn EXCEPT ![s] = new]
      /\ UNCHANGED <<index, sock>>
  BY DEF OnConnectionCheck, TableTypes
<1>2. Cardinality(late) \in Nat
  <2>1. IsFiniteSet(ProxyId)
    BY FS_Interval DEF ProxyId, SizesOK
  <2>2. late \subseteq ProxyId
    BY DEF ToConnect
  <2> HIDE DEF late
  <2>3. IsFiniteSet(late)
    BY <2>1, <2>2, FS_Subset
  <2> QED BY <2>3, FS_CardinalityType
<1>3. PICK n \in Nat : n = Cardinality(late)
  BY <1>2
<1> HIDE DEF late
<1>4. bounds' \in [faults : 0..MaxFaults, slow : 0..MaxSlow]
  <2>1. bounds' = [bounds EXCEPT !.slow = @ + n]
    BY <1>1, <1>3
  <2>2. bounds'.slow = bounds.slow + n /\ bounds'.faults = bounds.faults
    BY <2>1 DEF TableTypes
  <2>3. bounds' = [faults |-> bounds'.faults, slow |-> bounds'.slow]
    BY <2>1 DEF TableTypes
  <2> QED BY <1>1, <2>2, <2>3 DEF TableTypes, BoundsOK
<1>5. ASSUME NEW p \in ToConnect(s) PROVE Min(Unused(p)) \in 1..Links
  <2>1. Unused(p) \in SUBSET Nat /\ Unused(p) # {} /\ Unused(p) \subseteq 1..Links
    BY <1>1 DEF SizesOK
  <2> HIDE DEF Unused
  <2> QED BY <2>1, MinIsIn
<1> HIDE DEF Unused
<1>6. new \in [ProxyId -> 1..Links]
  BY <1>5 DEF TableTypes
<1> HIDE DEF new
<1> QED BY <1>1, <1>4, <1>6 DEF TableTypes

LEMMA SendTypes ==
    ASSUME SizesOK, BoundsOK, TableTypes,
           NEW s \in Server, NEW m, NEW pause, NEW sending, NEW dst,
           ConnectionSendBySequence(s, m, pause, sending, dst)
    PROVE  TableTypes'
<1>1. index' = [index EXCEPT ![s] = SendIndex(s, pause)] /\ UNCHANGED <<conn, sock, bounds>>
  BY DEF ConnectionSendBySequence
<1>2. SendIndex(s, pause) \in ProxyId
  <2>1. index[s] \in 0..(Proxies - 1) /\ Proxies \in Nat \ {0}
    BY DEF TableTypes, ProxyId, SizesOK, BoundsOK
  <2>2. (index[s] + 1) % Proxies \in 0..(Proxies - 1)
    BY <2>1
  <2> QED BY <2>1, <2>2 DEF SendIndex, ProxyId
<1> QED BY <1>1, <1>2 DEF TableTypes

LEMMA ReadTypes ==
    ASSUME SizesOK, TableTypes, NEW k \in Link, ProxyReads(k)
    PROVE  TableTypes'
<1>1. UNCHANGED <<conn, index, bounds>>
  BY DEF ProxyReads
<1>2. sock' = sock \/ sock' = [sock EXCEPT ![k[2]][k[1]] = k[3]]
  BY DEF ProxyReads, HandleRegisterRequest, HandleMessageTransfer
<1>3. k[1] \in Server /\ k[2] \in ProxyId /\ k[3] \in 0..Links
  BY DEF Link, SizesOK
<1>4. sock' \in [ProxyId -> [Server -> 0..Links]]
  <2> DEFINE row == [sock[k[2]] EXCEPT ![k[1]] = k[3]]
  <2>1. sock' = sock \/ sock' = [sock EXCEPT ![k[2]] = row]
    BY <1>2
  <2>2. sock[k[2]] \in [Server -> 0..Links]
    BY <1>3 DEF TableTypes
  <2>3. row \in [Server -> 0..Links]
    BY <1>3, <2>2
  <2> HIDE DEF row
  <2> QED BY <2>1, <2>3 DEF TableTypes
<1> QED BY <1>1, <1>4 DEF TableTypes

LEMMA FaultTypes ==
    ASSUME SizesOK, BoundsOK, TableTypes, Fault,
           sock' = sock \/ \E p \in ProxyId : sock' = [sock EXCEPT ![p] = [s \in Server |-> NoLink]]
    PROVE  TableTypes'
<1>1. UNCHANGED <<conn, index>>
  BY DEF Fault
<1>2. bounds' \in [faults : 0..MaxFaults, slow : 0..MaxSlow]
  BY DEF Fault, TableTypes, BoundsOK
<1>3. [s \in Server |-> NoLink] \in [Server -> 0..Links]
  BY DEF NoLink, SizesOK
<1>4. sock' \in [ProxyId -> [Server -> 0..Links]]
  BY <1>3 DEF TableTypes
<1> QED BY <1>1, <1>2, <1>4 DEF TableTypes

LEMMA TypesStep ==
    ASSUME SizesOK, BoundsOK, TableTypes, [LinkNext]_linkVars
    PROVE  TableTypes'
<1>1. CASE \E s \in Server : OnConnectionCheck(s)
  BY <1>1, CheckTypes
<1>2. CASE \E s, dst \in Server, m \in Message, pause \in Pauses, sending \in Sent :
               ConnectionSendBySequence(s, m, pause, sending, dst)
  BY <1>2, SendTypes
<1>3. CASE \E k \in Link : \/ OnSocketConnect(k) \/ ServerSeesEnd(k) \/ ProxyAccepts(k)
                           \/ ProxySeesEnd(k) \/ ServerReads(k)
  BY <1>3 DEF OnSocketConnect, ServerSeesEnd, ProxyAccepts, ProxySeesEnd, ServerReads, TableTypes
<1>4. CASE \E k \in Link : OnSocketConnectFail(k) \/ Cut(k)
  BY <1>4, FaultTypes DEF OnSocketConnectFail, Cut
<1>5. CASE \E k \in Link : ProxyReads(k)
  BY <1>5, ReadTypes
<1>6. CASE \E p \in ProxyId : RestartProxy(p)
  BY <1>6, FaultTypes DEF RestartProxy
<1>7. CASE UNCHANGED linkVars
  BY <1>7 DEF linkVars, TableTypes
<1> QED BY <1>1, <1>2, <1>3, <1>4, <1>5, <1>6, <1>7 DEF LinkNext, ServerStep, ProxyStep, Sent

LEMMA TablesBegin == SizesOK /\ BoundsOK /\ LinkInit => TableTypes
<1> SUFFICES ASSUME SizesOK, BoundsOK, LinkInit PROVE TableTypes
  OBVIOUS
<1>1. 1 \in 1..Links /\ 0 \in 0..Links /\ 0 \in ProxyId /\ 0 \in 0..MaxFaults /\ 0 \in 0..MaxSlow
  BY DEF SizesOK, BoundsOK, ProxyId
<1> QED BY <1>1 DEF LinkInit, TableTypes, NoLink

LEMMA TablesType == TableTypes /\ LinkInv => ProxyTypeOK
BY DEF TableTypes, LinkInv, LinksOK, LinkOK, MessagesOK, ProxyTypeOK

\* Every server has a link of its own to every proxy for its connection, and
\* tries a proxy there is, over checks that replace connections; a proxy's table has links.
THEOREM LinkTypes ==
    ASSUME SizesOK, BoundsOK
    PROVE  LinkSpec => []ProxyTypeOK
<1>1. LinkInit => TableTypes
  BY TablesBegin
<1>2. TableTypes /\ [LinkNext]_linkVars => TableTypes'
  BY TypesStep
<1>3. TableTypes /\ LinkInv => ProxyTypeOK
  BY TablesType
<1> QED BY <1>1, <1>2, <1>3, LinkInvariant, PTL DEF LinkSpec

-----------------------------------------------------------------------------
(***************************************************************************)
(* Theorems about ConfigCenter, for any servers, edits and troubles: the   *)
(* types, and that a server back in its loop on a connection that stands   *)
(* holds what the center has loaded.                                       *)
(*                                                                         *)
(* A connection stands only while the center's process lives, and that     *)
(* loads once.  So an answer under way on it is the center's, and what was *)
(* taken from the first is still the center's at the second.               *)
(***************************************************************************)

Stands(a) == wire[a].far = "open"

UpToDate(a) ==
    Stands(a) =>
        /\ center.up /\ wire[a].near = "open" /\ asker[a].at # "down"
        /\ wire[a].answer.to = "server" => wire[a].answer.config = center.server[a]
        /\ wire[a].answer.to = "game" => wire[a].answer = GetGameConfig(a)
        /\ asker[a].at = "game" => asker[a].server = center.server[a]
        /\ asker[a].at = "loop" => Holds(a)

ConfigInv == ConfigTypeOK /\ \A a \in Asker : UpToDate(a)

WireType ==
    [near : {"open", "shut"}, far : {"open", "gone"},
     ask : {"none", "server", "game"}, answer : Answer]
AskerType ==
    [at : {"down", "server", "game", "loop"}, runs : BOOLEAN, server : Version, game : GameConfig]

-----------------------------------------------------------------------------
(* The types of what the actions are built from.                           *)

LEMMA NothingIsVersion == Nothing \in Version
BY AskerAssumption DEF Nothing, Version

LEMMA NewTypes == NoWire \in WireType /\ AskedWire \in WireType /\ NewAsker \in AskerType
BY NothingIsVersion
DEF NoWire, AskedWire, NewAsker, WireType, AskerType, Answer, NoAnswer, GameConfig, GameList

LEMMA MergeType ==
    ASSUME NEW old \in GameConfig, NEW new \in GameConfig
    PROVE  GameConfigMerge(old, new) \in GameConfig
BY DEF GameConfigMerge, GameConfig

LEMMA FarGoneType == ASSUME NEW w \in WireType PROVE FarGone(w) \in WireType
BY DEF FarGone, WireType

LEMMA AnswerTypes ==
    ASSUME ConfigTypeOK, NEW a \in Asker
    PROVE  GetServerConfig(a) \in Answer /\ GetGameConfig(a) \in Answer
<1>1. GetServerConfig(a) \in Answer
    BY DEF GetServerConfig, Answer, ConfigTypeOK
<1>2. center.game \in [GameServer -> GameConfig]
    BY DEF ConfigTypeOK
<1>3. [l \in GameList |-> Nothing] \in GameConfig
    BY NothingIsVersion DEF GameConfig
<1>4. GetGameConfig(a) \in Answer
    BY <1>2, <1>3 DEF GetGameConfig, Answer
<1> QED BY <1>1, <1>4

\* the contents of a typed answer
LEMMA AnswerHas ==
    ASSUME NEW x \in Answer
    PROVE  /\ x.to = "server" => x.config \in Version
           /\ x.to = "game" => x.config \in GameConfig
BY DEF Answer, NoAnswer

-----------------------------------------------------------------------------
(* Type correctness.                                                       *)

LEMMA TypeInit == ConfigInit => ConfigTypeOK
<1> SUFFICES ASSUME ConfigInit PROVE ConfigTypeOK
    OBVIOUS
<1>1. 1 \in Version /\ Nothing \in Version
    BY AskerAssumption DEF Nothing, Version
<1>2. NewAsker \in AskerType /\ NoWire \in WireType
    BY NewTypes
<1>3. files \in [server : [Asker -> Version], game : [GameServer -> GameConfig]]
    BY <1>1 DEF ConfigInit, GameConfig
<1>4. center \in [up : BOOLEAN, server : [Asker -> Version], game : [GameServer -> GameConfig]]
    BY <1>1 DEF ConfigInit, GameConfig
<1>5. asker \in [Asker -> AskerType] /\ wire \in [Asker -> WireType]
    BY <1>2 DEF ConfigInit
<1>6. counts \in [edits : 0..MaxEdits, troubles : 0..MaxTroubles]
    BY AskerAssumption DEF ConfigInit
<1> QED BY <1>3, <1>4, <1>5, <1>6 DEF ConfigTypeOK, AskerType, WireType

LEMMA TroubleType ==
    ASSUME ConfigTypeOK, Trouble
    PROVE  counts' \in [edits : 0..MaxEdits, troubles : 0..MaxTroubles]
BY AskerAssumption DEF ConfigTypeOK, Trouble

LEMMA FailureType ==
    ASSUME ConfigTypeOK, NEW a \in Asker, AfterFailure(a)
    PROVE  asker' \in [Asker -> AskerType] /\ wire' \in [Asker -> WireType]
<1>1. asker \in [Asker -> AskerType] /\ wire \in [Asker -> WireType]
    BY DEF ConfigTypeOK, AskerType, WireType
<1>2. [asker[a] EXCEPT !.at = "loop"] \in AskerType
    BY <1>1 DEF AskerType
<1> QED BY <1>1, <1>2, NewTypes DEF AfterFailure

LEMMA EditType == ASSUME ConfigTypeOK, Edit PROVE ConfigTypeOK'
<1>1. PICK v \in {Nothing, counts.edits + 2} :
           \/ \E some \in SUBSET Asker \ {{}} :
                  files' = [files EXCEPT !.server = [a \in Asker |-> IF a \in some THEN v ELSE @[a]]]
           \/ \E a \in GameServer : files' = [files EXCEPT !.game[a].tables = v]
           \/ files' = [files EXCEPT !.game = [a \in GameServer |-> [@[a] EXCEPT !.dirty_words = v]]]
    BY DEF Edit
<1>2. v \in Version /\ counts' \in [edits : 0..MaxEdits, troubles : 0..MaxTroubles]
    BY AskerAssumption DEF Edit, ConfigTypeOK, Version, Nothing
<1>3. files \in [server : [Asker -> Version], game : [GameServer -> GameConfig]]
    BY DEF ConfigTypeOK
<1>4. files' \in [server : [Asker -> Version], game : [GameServer -> GameConfig]]
    <2>1. CASE \E some \in SUBSET Asker \ {{}} :
                   files' = [files EXCEPT !.server = [a \in Asker |-> IF a \in some THEN v ELSE @[a]]]
        BY <1>2, <1>3, <2>1
    <2>2. CASE \E a \in GameServer : files' = [files EXCEPT !.game[a].tables = v]
        <3>1. PICK a \in GameServer : files' = [files EXCEPT !.game[a].tables = v]
            BY <2>2
        <3>2. [files.game[a] EXCEPT !.tables = v] \in GameConfig
            BY <1>2, <1>3 DEF GameConfig, GameList
        <3> QED BY <1>3, <3>1, <3>2
    <2>3. CASE files' = [files EXCEPT !.game = [a \in GameServer |-> [@[a] EXCEPT !.dirty_words = v]]]
        <3>1. \A a \in GameServer : [files.game[a] EXCEPT !.dirty_words = v] \in GameConfig
            BY <1>2, <1>3 DEF GameConfig, GameList
        <3> QED BY <1>3, <2>3, <3>1
    <2> QED BY <1>1, <2>1, <2>2, <2>3
<1> QED BY <1>2, <1>4 DEF Edit, ConfigTypeOK

LEMMA CenterType == ASSUME ConfigTypeOK, CenterStart \/ CenterEnd PROVE ConfigTypeOK'
<1>1. CASE CenterStart
    <2>1. PICK readable \in BOOLEAN : center' = InitFromFile(readable)
        BY <1>1 DEF CenterStart
    <2>2. [a \in GameServer |-> [l \in GameList |-> Nothing]] \in [GameServer -> GameConfig]
        BY NothingIsVersion DEF GameConfig
    <2>3. center' \in [up : BOOLEAN, server : [Asker -> Version], game : [GameServer -> GameConfig]]
        BY <2>1, <2>2 DEF InitFromFile, ConfigTypeOK
    <2> QED BY <1>1, <2>3 DEF CenterStart, ConfigTypeOK
<1>2. CASE CenterEnd
    <2>1. counts' \in [edits : 0..MaxEdits, troubles : 0..MaxTroubles]
        BY <1>2, TroubleType DEF CenterEnd
    <2>2. wire' \in [Asker -> WireType]
        BY <1>2, FarGoneType DEF CenterEnd, ConfigTypeOK, WireType
    <2>3. center' \in [up : BOOLEAN, server : [Asker -> Version], game : [GameServer -> GameConfig]]
        BY <1>2 DEF CenterEnd, ConfigTypeOK
    <2> QED BY <1>2, <2>1, <2>2, <2>3 DEF CenterEnd, Trouble, ConfigTypeOK, WireType
<1> QED BY <1>1, <1>2

LEMMA AskerStepType ==
    ASSUME ConfigTypeOK, NEW a \in Asker,
           Asks(a) \/ Notices(a) \/ AskerStart(a) \/ CallTimesOut(a) \/ CutWire(a) \/ AskerEnd(a)
    PROVE  ConfigTypeOK'
<1>0. asker \in [Asker -> AskerType] /\ wire \in [Asker -> WireType]
    BY DEF ConfigTypeOK, AskerType, WireType
<1>a. ASSUME asker' \in [Asker -> AskerType], wire' \in [Asker -> WireType],
             UNCHANGED <<files, center>>, counts' = counts \/ Trouble
      PROVE  ConfigTypeOK'
    BY <1>a, TroubleType DEF ConfigTypeOK, AskerType, WireType
<1>b. wire[a].answer \in Answer
    BY <1>0 DEF WireType
<1>1. CASE AskAgain(a) \/ AskerStart(a)
    <2>1. [asker[a] EXCEPT !.at = "server"] \in AskerType
        BY <1>0 DEF AskerType
    <2> QED BY <1>0, <1>1, <1>a, <2>1, NewTypes DEF AskAgain, AskerStart
<1>2. CASE HandleGetConfig(a)
    <2>1. [[wire[a] EXCEPT !.ask = "none"] EXCEPT
               !.answer = IF wire[a].ask = "server" THEN GetServerConfig(a) ELSE GetGameConfig(a)] \in WireType
        BY <1>0, AnswerTypes DEF WireType
    <2> QED BY <1>0, <1>2, <1>a, <2>1 DEF HandleGetConfig
<1>3. CASE InitServerConfig(a)
    <2>1. CASE wire[a].answer.config = Nothing
        BY <1>3, <1>a, <2>1, FailureType DEF InitServerConfig
    <2>2. CASE wire[a].answer.config # Nothing
        <3>1. [[asker[a] EXCEPT !.server = wire[a].answer.config] EXCEPT !.at = "game"] \in AskerType
            BY <1>0, <1>3, <1>b, AnswerHas DEF AskerType, InitServerConfig
        <3>2. [[wire[a] EXCEPT !.answer = NoAnswer] EXCEPT
                   !.ask = IF wire[a].far = "open" THEN "game" ELSE "none"] \in WireType
            BY <1>0 DEF WireType, Answer
        <3> QED BY <1>0, <1>3, <1>a, <2>2, <3>1, <3>2 DEF InitServerConfig
    <2> QED BY <2>1, <2>2
<1>4. CASE InitGameConfig(a)
    <2>1. CASE AfterFailure(a)
        BY <1>4, <1>a, <2>1, FailureType DEF InitGameConfig
    <2>2. CASE ~AfterFailure(a)
        <3>1. GameConfigMerge(asker[a].game, wire[a].answer.config) \in GameConfig
            BY <1>0, <1>4, <1>b, AnswerHas, MergeType DEF AskerType, InitGameConfig
        <3>2. [[[asker[a] EXCEPT !.game = GameConfigMerge(@, wire[a].answer.config)] EXCEPT !.at = "loop"]
                  EXCEPT !.runs = TRUE] \in AskerType
            BY <1>0, <3>1 DEF AskerType
        <3>3. [wire[a] EXCEPT !.answer = NoAnswer] \in WireType
            BY <1>0 DEF WireType, Answer
        <3> QED BY <1>0, <1>4, <1>a, <2>2, <3>2, <3>3 DEF InitGameConfig
    <2> QED BY <2>1, <2>2
<1>5. CASE CallFails(a)
    BY <1>5, <1>a, FailureType DEF CallFails
<1>6. CASE CallTimesOut(a)
    BY <1>6, <1>a, FailureType DEF CallTimesOut, Trouble
<1>7. CASE SeesEnd(a)
    BY <1>0, <1>7, <1>a, NewTypes DEF SeesEnd
<1>8. CASE CutWire(a)
    <2>1. [FarGone(wire[a]) EXCEPT !.answer = NoAnswer] \in WireType
        BY <1>0, FarGoneType DEF WireType, Answer
    <2> QED BY <1>0, <1>8, <1>a, <2>1 DEF CutWire, Trouble
<1>9. CASE AskerEnd(a)
    BY <1>0, <1>9, <1>a, NewTypes DEF AskerEnd, Trouble
<1> QED BY <1>1, <1>2, <1>3, <1>4, <1>5, <1>6, <1>7, <1>8, <1>9 DEF Asks, Notices

LEMMA TypeNext == ASSUME ConfigTypeOK, [ConfigNext]_configVars PROVE ConfigTypeOK'
<1>1. CASE ConfigNext
    BY <1>1, EditType, CenterType, AskerStepType DEF ConfigNext
<1>2. CASE UNCHANGED configVars
    BY <1>2 DEF configVars, ConfigTypeOK
<1> QED BY <1>1, <1>2

-----------------------------------------------------------------------------
(* Answers stay fresh.                                                     *)

\* what was not empty at the center is what a merge leaves
LEMMA MergeHolds ==
    ASSUME NEW a \in GameServer, NEW old \in GameConfig, NEW l \in GameList,
           center.game[a][l] # Nothing
    PROVE  GameConfigMerge(old, center.game[a])[l] = center.game[a][l]
BY DEF GameConfigMerge

\* a wire that nothing stands on is fresh
LEMMA GoneIsFresh ==
    ASSUME NEW a \in Asker, wire'[a].far # "open"
    PROVE  UpToDate(a)'
BY DEF UpToDate, Stands

\* and one that stays as it was, if the center does
LEMMA SameIsFresh ==
    ASSUME NEW a \in Asker, UpToDate(a),
           wire'[a] = wire[a], asker'[a] = asker[a], center' = center
    PROVE  UpToDate(a)'
BY DEF UpToDate, Stands, Holds, GetGameConfig

LEMMA FailureIsGone ==
    ASSUME ConfigTypeOK, NEW a \in Asker, AfterFailure(a)
    PROVE  wire'[a].far # "open"
BY DEF AfterFailure, NoWire, ConfigTypeOK

LEMMA CenterFresh ==
    ASSUME ConfigInv, CenterStart \/ CenterEnd, NEW a \in Asker
    PROVE  UpToDate(a)'
<1>1. CASE CenterStart
    BY <1>1, GoneIsFresh DEF CenterStart, ConfigInv, UpToDate, Stands
<1>2. CASE CenterEnd
    <2>1. wire'[a] = FarGone(wire[a]) /\ wire[a] \in WireType
        BY <1>2 DEF CenterEnd, ConfigInv, ConfigTypeOK, WireType
    <2>2. wire'[a].far = "gone"
        BY <2>1 DEF FarGone, WireType
    <2> QED BY <2>2, GoneIsFresh
<1> QED BY <1>1, <1>2

\* the step of a server: its own part, the others stay
LEMMA AskerFresh ==
    ASSUME ConfigInv, NEW a \in Asker,
           Asks(a) \/ Notices(a) \/ AskerStart(a) \/ CallTimesOut(a) \/ CutWire(a) \/ AskerEnd(a)
    PROVE  UpToDate(a)'
<1>0. /\ UpToDate(a) /\ asker \in [Asker -> AskerType] /\ wire \in [Asker -> WireType]
      /\ asker[a] \in AskerType /\ wire[a] \in WireType
    BY DEF ConfigInv, ConfigTypeOK, AskerType, WireType
<1>1. CASE AskAgain(a) \/ AskerStart(a)
    <2>1. wire'[a] = AskedWire /\ asker'[a].at = "server" /\ center'.up
        BY <1>0, <1>1 DEF AskAgain, AskerStart, AskerType
    <2> QED BY <2>1 DEF UpToDate, Stands, AskedWire, NoAnswer
<1>2. CASE HandleGetConfig(a)
    <2> DEFINE w == [wire[a] EXCEPT !.ask = "none",
                         !.answer = IF wire[a].ask = "server" THEN GetServerConfig(a) ELSE GetGameConfig(a)]
    <2>1. wire'[a] = w /\ asker' = asker /\ center' = center
        BY <1>0, <1>2 DEF HandleGetConfig
    <2>2. w.far = wire[a].far /\ w.near = wire[a].near /\ w.answer \in {GetServerConfig(a), GetGameConfig(a)}
        BY <1>0 DEF WireType
    <2>3. GetServerConfig(a).to = "server" /\ GetServerConfig(a).config = center.server[a]
          /\ GetGameConfig(a).to = "game"
        BY DEF GetServerConfig, GetGameConfig
    <2>4. GetGameConfig(a)' = GetGameConfig(a) /\ Holds(a)' = Holds(a)
        BY <2>1 DEF GetGameConfig, Holds
    <2> HIDE DEF w
    <2> QED BY <1>0, <1>2, <2>1, <2>2, <2>3, <2>4 DEF UpToDate, Stands, HandleGetConfig
<1>3. CASE InitServerConfig(a)
    <2>1. CASE wire[a].answer.config = Nothing
        BY <1>3, <2>1, FailureIsGone, GoneIsFresh DEF InitServerConfig, ConfigInv
    <2>2. CASE wire[a].answer.config # Nothing
        <3>1. asker'[a] = [asker[a] EXCEPT !.server = wire[a].answer.config, !.at = "game"]
            BY <1>0, <1>3, <2>2 DEF InitServerConfig
        <3>2. asker'[a].server = wire[a].answer.config /\ asker'[a].at = "game"
            BY <1>0, <3>1 DEF AskerType
        <3>3. wire'[a].far = wire[a].far /\ wire'[a].near = wire[a].near /\ wire'[a].answer = NoAnswer
            BY <1>0, <1>3, <2>2 DEF InitServerConfig, WireType
        <3> QED BY <1>0, <1>3, <3>2, <3>3 DEF UpToDate, Stands, InitServerConfig, NoAnswer
    <2> QED BY <2>1, <2>2
<1>4. CASE InitGameConfig(a)
    <2>1. CASE AfterFailure(a)
        BY <2>1, FailureIsGone, GoneIsFresh DEF ConfigInv
    <2>2. CASE ~AfterFailure(a)
        <3> DEFINE new == GameConfigMerge(asker[a].game, wire[a].answer.config)
        <3>1. asker'[a] = [asker[a] EXCEPT !.game = new, !.at = "loop", !.runs = TRUE]
            BY <1>0, <1>4, <2>2 DEF InitGameConfig
        <3>2. asker'[a].server = asker[a].server /\ asker'[a].game = new /\ asker'[a].at = "loop"
            BY <1>0, <3>1 DEF AskerType
        <3>3. wire'[a].far = wire[a].far /\ wire'[a].near = wire[a].near /\ wire'[a].answer = NoAnswer
            BY <1>0, <1>4, <2>2 DEF InitGameConfig, WireType
        <3>4. center' = center
            BY <1>4 DEF InitGameConfig
        <3>5. CASE wire[a].far = "open"
            <4>1. wire[a].answer = GetGameConfig(a) /\ asker[a].server = center.server[a]
                BY <1>0, <1>4, <3>5 DEF UpToDate, Stands, InitGameConfig
            <4>2. a \in GameServer => wire[a].answer.config = center.game[a]
                BY <4>1 DEF GetGameConfig
            <4>3. asker[a].game \in GameConfig
                BY <1>0 DEF AskerType
            <4>4. Holds(a)'
                BY <3>2, <3>4, <4>1, <4>2, <4>3, MergeHolds DEF Holds
            <4> QED BY <1>0, <3>2, <3>3, <3>4, <3>5, <4>4 DEF UpToDate, Stands, NoAnswer
        <3>6. CASE wire[a].far # "open"
            BY <3>3, <3>6, GoneIsFresh
        <3> QED BY <3>5, <3>6
    <2> QED BY <2>1, <2>2
<1>5. CASE CallFails(a) \/ CallTimesOut(a)
    BY <1>5, FailureIsGone, GoneIsFresh DEF CallFails, CallTimesOut, ConfigInv
<1>6. CASE SeesEnd(a) \/ AskerEnd(a)
    <2>1. wire'[a] = NoWire
        BY <1>0, <1>6 DEF SeesEnd, AskerEnd
    <2> QED BY <2>1, GoneIsFresh DEF NoWire
<1>7. CASE CutWire(a)
    <2>1. wire'[a] = [FarGone(wire[a]) EXCEPT !.answer = NoAnswer]
        BY <1>0, <1>7 DEF CutWire
    <2>2. wire'[a].far = "gone"
        BY <1>0, <2>1 DEF FarGone, WireType
    <2> QED BY <2>2, GoneIsFresh
<1> QED BY <1>1, <1>2, <1>3, <1>4, <1>5, <1>6, <1>7 DEF Asks, Notices

LEMMA OthersStay ==
    ASSUME ConfigTypeOK, NEW a \in Asker, NEW b \in Asker, b # a,
           Asks(a) \/ Notices(a) \/ AskerStart(a) \/ CallTimesOut(a) \/ CutWire(a) \/ AskerEnd(a)
    PROVE  wire'[b] = wire[b] /\ asker'[b] = asker[b] /\ center' = center
<1>0. asker \in [Asker -> AskerType] /\ wire \in [Asker -> WireType]
    BY DEF ConfigTypeOK, AskerType, WireType
<1>1. CASE Asks(a)
    BY <1>0, <1>1
    DEF Asks, AskAgain, HandleGetConfig, InitServerConfig, InitGameConfig, AfterFailure
<1>2. CASE Notices(a)
    BY <1>0, <1>2 DEF Notices, CallFails, SeesEnd, AfterFailure
<1>3. CASE AskerStart(a) \/ CallTimesOut(a) \/ CutWire(a) \/ AskerEnd(a)
    BY <1>0, <1>3 DEF AskerStart, CallTimesOut, CutWire, AskerEnd, AfterFailure
<1> QED BY <1>1, <1>2, <1>3

-----------------------------------------------------------------------------
(* The theorems.                                                           *)

LEMMA InvInit == ConfigInit => ConfigInv
<1>1. ConfigInit => \A a \in Asker : UpToDate(a)
    BY DEF ConfigInit, UpToDate, Stands, NoWire
<1> QED BY <1>1, TypeInit DEF ConfigInv

LEMMA InvNext == ConfigInv /\ [ConfigNext]_configVars => ConfigInv'
<1> SUFFICES ASSUME ConfigInv, [ConfigNext]_configVars PROVE ConfigInv'
    OBVIOUS
<1>1. ConfigTypeOK'
    BY TypeNext DEF ConfigInv
<1>2. ASSUME NEW b \in Asker PROVE UpToDate(b)'
    <2>0. UpToDate(b)
        BY DEF ConfigInv
    <2>1. CASE CenterStart \/ CenterEnd
        BY <2>1, CenterFresh
    <2>2. CASE Edit \/ UNCHANGED configVars
        BY <2>0, <2>2, SameIsFresh DEF Edit, configVars
    <2>3. CASE \E a \in Asker : \/ Asks(a) \/ Notices(a) \/ AskerStart(a)
                                \/ CallTimesOut(a) \/ CutWire(a) \/ AskerEnd(a)
        <3>1. PICK a \in Asker : \/ Asks(a) \/ Notices(a) \/ AskerStart(a)
                                \/ CallTimesOut(a) \/ CutWire(a) \/ AskerEnd(a)
            BY <2>3
        <3>2. CASE a = b
            BY <3>1, <3>2, AskerFresh
        <3>3. CASE a # b
            <4>1. wire'[b] = wire[b] /\ asker'[b] = asker[b] /\ center' = center
                BY <3>1, <3>3, OthersStay DEF ConfigInv
            <4> QED BY <2>0, <4>1, SameIsFresh
        <3> QED BY <3>2, <3>3
    <2> QED BY <2>1, <2>2, <2>3 DEF ConfigNext
<1> QED BY <1>1, <1>2 DEF ConfigInv

\* The invariant the two theorems rest on.
THEOREM ConfigInvariant == ConfigSpec => []ConfigInv
BY InvInit, InvNext, PTL DEF ConfigSpec

\* Files, center, servers and wires keep their types.
THEOREM ConfigTypes == ConfigSpec => []ConfigTypeOK
<1>1. ConfigInv => ConfigTypeOK
    BY DEF ConfigInv
<1> QED BY <1>1, ConfigInvariant, PTL

\* A server in its loop on a connection that stands holds what the center loaded.
THEOREM HoldsTheCenters == ConfigSpec => []ConnectedIsCurrent
<1>1. ConfigInv => ConnectedIsCurrent
    BY DEF ConfigInv, ConnectedIsCurrent, UpToDate, Stands
<1> QED BY <1>1, ConfigInvariant, PTL
-----------------------------------------------------------------------------
(* The parts side by side.  A step of one leaves the others as they are,   *)
(* so each keeps what it keeps by itself.                                  *)

PartsOK == FilesOK /\ CellsOK /\ SizesOK /\ BoundsOK /\ ~ReaddsOwn

PartsInv == CurlInv /\ BoundedInv /\ LinkInv /\ TableTypes /\ ConfigInv

LEMMA PartsBegin == PartsOK /\ MCInit => PartsInv
<1> SUFFICES ASSUME PartsOK, MCInit PROVE PartsInv
  OBVIOUS
<1>1. CurlInit /\ LoopInit /\ LinkInit /\ ConfigInit
  BY DEF MCInit
<1> QED BY <1>1, Initially, BoundedBegins, LinkBegan, TablesBegin, InvInit DEF PartsOK, PartsInv

LEMMA PartsStep == PartsOK /\ PartsInv /\ [MCNext]_netVars => PartsInv'
<1> SUFFICES ASSUME PartsOK, PartsInv, [MCNext]_netVars PROVE PartsInv'
  OBVIOUS
<1>1. /\ [CurlNext]_curlVars /\ [LoopNext]_loopVars
      /\ [LinkNext]_linkVars /\ [ConfigNext]_configVars
  BY DEF MCNext, netVars
<1>2. CurlInv' /\ BoundedInv'
  BY <1>1, CurlInductive, BoundedStep DEF PartsOK, PartsInv
<1>3. LinkInv' /\ TableTypes' /\ ConfigInv'
  BY <1>1, LinkInductive, TypesStep, InvNext DEF PartsOK, PartsInv
<1> QED BY <1>2, <1>3 DEF PartsInv

\* Every part keeps its types, whichever one runs.
THEOREM PartTypes ==
    ASSUME PartsOK
    PROVE  MCSpec => []TypeOK
<1>1. MCInit => PartsInv
  BY PartsBegin
<1>2. PartsInv /\ [MCNext]_netVars => PartsInv'
  BY PartsStep
<1>3. PartsInv => TypeOK
  <2> SUFFICES ASSUME PartsInv PROVE TypeOK
    OBVIOUS
  <2>1. CurlTypeOK /\ ConfigTypeOK
    BY DEF PartsInv, CurlInv, ConfigInv
  <2>2. EventTypeOK
    BY BoundedTypes DEF PartsOK, PartsInv
  <2>3. ProxyTypeOK
    BY TablesType DEF PartsInv
  <2> QED BY <2>1, <2>2, <2>3 DEF TypeOK
<1> QED BY <1>1, <1>2, <1>3, PTL DEF MCSpec
=============================================================================
