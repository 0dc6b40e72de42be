-------------------------- MODULE ClientConnProofs --------------------------
(***************************************************************************)
(* Theorems about ClientConn: ViewsAgree and TypeOK, for any clients, a    *)
(* finite number of descriptors, any place at the game server and any      *)
(* failures.                                                               *)
(*                                                                         *)
(* What the game server will have is decided by the last notice on its     *)
(* way, so a message handled at the front changes no view, and a notice    *)
(* sent at the end makes the view of its descriptor what it says.  All     *)
(* else that changes a view puts the descriptor among the lost.            *)
(***************************************************************************)
EXTENDS ClientConn, SequenceTheorems, FiniteSetTheorems, WellFoundedInduction, TLAPS

\* descriptors are finitely many, and an unused one is none in use
FdsOK == IsFiniteSet(Fd) /\ Free \notin SockInfo

-----------------------------------------------------------------------------
(* Views of a sequence of messages.                                        *)

\* the messages a connection server sends: a notice is of one kind
Sent == {m \in Message : ~(m.new /\ m.close)}

About(s, f) == {i \in Notices(s) : s[i].conn = f}

\* what a notice makes of its descriptor
Said(x) == IF x.new THEN x.client ELSE Free

LastOf(s, f) == CHOOSE i \in About(s, f) : \A j \in About(s, f) : j <= i

\* what becomes of f at a game server with the map m that handles s
ViewOf(s, m, f) ==
    CASE About(s, f) = {} -> m[f]
      [] About(s, f) # {} /\ s[LastOf(s, f)].new -> s[LastOf(s, f)].client
      [] OTHER -> Free

IsLast(s, f, i) == i \in About(s, f) /\ \A j \in About(s, f) : j <= i

LEMMA ViewIsViewOf == \A f : View(f) = ViewOf(up, conns, f)
BY DEF View, ViewOf, LastOf, About

LEMMA HasLast ==
    ASSUME NEW s \in Seq(Sent), NEW f, About(s, f) # {}
    PROVE  \E i : IsLast(s, f, i)
<1> DEFINE back == {n \in Nat : n <= Len(s) /\ Len(s) - n \in About(s, f)}
<1>1. About(s, f) \subseteq 1..Len(s)
    BY DEF About, Notices
<1>2. back # {} /\ back \subseteq Nat
    <2>1. PICK i \in About(s, f) : TRUE
        OBVIOUS
    <2>2. Len(s) - i \in back
        BY <1>1, <2>1
    <2> QED BY <2>2
<1>3. PICK n \in back : \A y \in back : ~(<<y, n>> \in OpToRel(<, Nat))
    BY <1>2, NatLessThanWellFounded, WFMin
<1>4. \A y \in back : n <= y
    <2> SUFFICES ASSUME NEW y \in back, ~(n <= y) PROVE FALSE
        OBVIOUS
    <2>1. y \in Nat /\ n \in Nat /\ y < n
        BY <1>2
    <2>2. <<y, n>> \in OpToRel(<, Nat)
        BY <2>1 DEF OpToRel
    <2> QED BY <1>3, <2>2
<1>5. \A j \in About(s, f) : Len(s) - j \in back
    BY <1>1
<1>6. \A j \in About(s, f) : j <= Len(s) - n
    BY <1>1, <1>2, <1>4, <1>5
<1>7. Len(s) - n \in About(s, f)
    BY <1>3
<1> QED BY <1>6, <1>7 DEF IsLast

LEMMA ViewOfLast ==
    ASSUME NEW s \in Seq(Sent), NEW m, NEW f, NEW i, IsLast(s, f, i)
    PROVE  ViewOf(s, m, f) = Said(s[i])
<1>1. About(s, f) \subseteq Nat
    BY DEF About, Notices
<1>2. LastOf(s, f) \in About(s, f) /\ \A j \in About(s, f) : j <= LastOf(s, f)
    BY DEF IsLast, LastOf
<1>3. LastOf(s, f) <= i /\ i <= LastOf(s, f) /\ LastOf(s, f) \in Nat /\ i \in Nat
    BY <1>1, <1>2 DEF IsLast
<1>4. LastOf(s, f) = i
    BY <1>3
<1>5. About(s, f) # {}
    BY DEF IsLast
<1> QED BY <1>4, <1>5 DEF ViewOf, Said

LEMMA ViewOfNone ==
    ASSUME NEW s, NEW m, NEW f, About(s, f) = {}
    PROVE  ViewOf(s, m, f) = m[f]
BY DEF ViewOf

LEMMA EmptyAbout == \A f : About(<<>>, f) = {}
BY DEF About, Notices

\* handling the first message changes no view, if the map does as it says
LEMMA TailView ==
    ASSUME NEW s \in Seq(Sent), s # <<>>, NEW m, NEW n, NEW f,
           (IsNotice(Head(s)) /\ Head(s).conn = f) =>
               n[f] = Said(Head(s)),
           ~(IsNotice(Head(s)) /\ Head(s).conn = f) => n[f] = m[f]
    PROVE  ViewOf(Tail(s), n, f) = ViewOf(s, m, f)
<1>1. /\ Tail(s) \in Seq(Sent) /\ Len(Tail(s)) = Len(s) - 1 /\ Len(s) \in Nat \ {0}
      /\ \A i \in 1..Len(Tail(s)) : Tail(s)[i] = s[i + 1]
      /\ Head(s) = s[1]
    BY HeadTailProperties
<1>2. \A i \in 1..Len(Tail(s)) : i \in About(Tail(s), f) <=> i + 1 \in About(s, f)
    BY <1>1 DEF About, Notices
<1>3. About(Tail(s), f) \subseteq 1..Len(Tail(s)) /\ About(s, f) \subseteq 1..Len(s)
    BY <1>1 DEF About, Notices
<1>4. 1 \in About(s, f) <=> IsNotice(Head(s)) /\ Head(s).conn = f
    BY <1>1 DEF About, Notices
<1>5. CASE About(Tail(s), f) # {}
    <2>1. PICK i : IsLast(Tail(s), f, i)
        BY <1>1, <1>5, HasLast
    <2>2. i \in 1..Len(Tail(s)) /\ i + 1 \in About(s, f)
        BY <1>2, <1>3, <2>1 DEF IsLast
    <2>3. ASSUME NEW j \in About(s, f) PROVE j <= i + 1
        <3>1. CASE j = 1
            BY <2>2, <3>1
        <3>2. CASE j # 1
            <4>1. j - 1 \in 1..Len(Tail(s)) /\ (j - 1) + 1 = j
                BY <1>1, <1>3, <3>2
            <4>2. j - 1 \in About(Tail(s), f)
                BY <1>2, <4>1
            <4> QED BY <2>1, <2>2, <4>1, <4>2 DEF IsLast
        <3> QED BY <3>1, <3>2
    <2>4. IsLast(s, f, i + 1) /\ s[i + 1] = Tail(s)[i]
        BY <1>1, <2>2, <2>3 DEF IsLast
    <2>5. ViewOf(s, m, f) = Said(s[i + 1])
        BY <2>4, ViewOfLast
    <2>6. ViewOf(Tail(s), n, f) = Said(Tail(s)[i])
        <3>1. Tail(s) \in Seq(Sent)
            BY <1>1
        <3> QED BY <2>1, <3>1, ViewOfLast, Zenon
    <2> QED BY <2>4, <2>5, <2>6, Zenon
<1>6. CASE About(Tail(s), f) = {}
    <2>1. \A j \in About(s, f) : j = 1
        <3> SUFFICES ASSUME NEW j \in About(s, f), j # 1 PROVE FALSE
            OBVIOUS
        <3>1. j - 1 \in 1..Len(Tail(s)) /\ (j - 1) + 1 = j
            BY <1>1, <1>3
        <3> QED BY <1>2, <1>6, <3>1
    <2>2. ViewOf(Tail(s), n, f) = n[f]
        BY <1>6, ViewOfNone
    <2>3. CASE 1 \in About(s, f)
        <3>1. IsLast(s, f, 1)
            BY <2>1, <2>3 DEF IsLast
        <3> QED BY <1>1, <1>4, <2>2, <2>3, <3>1, ViewOfLast
    <2>4. CASE 1 \notin About(s, f)
        <3>1. About(s, f) = {}
            BY <2>1, <2>4
        <3> QED BY <1>4, <2>2, <2>4, <3>1, ViewOfNone
    <2> QED BY <2>3, <2>4
<1> QED BY <1>5, <1>6

\* messages that say nothing of f leave its view
LEMMA OtherView ==
    ASSUME NEW s \in Seq(Sent), NEW t \in Seq(Sent), NEW m, NEW f, About(t, f) = {}
    PROVE  ViewOf(s \o t, m, f) = ViewOf(s, m, f)
<1>1. /\ s \o t \in Seq(Sent) /\ Len(s \o t) = Len(s) + Len(t) /\ Len(s) \in Nat /\ Len(t) \in Nat
      /\ \A i \in 1..(Len(s) + Len(t)) : (s \o t)[i] = IF i <= Len(s) THEN s[i] ELSE t[i - Len(s)]
    BY ConcatProperties
<1>2. \A i \in 1..Len(s) : (s \o t)[i] = s[i] /\ i \in DOMAIN (s \o t)
    BY <1>1
<1>3. About(s \o t, f) = About(s, f)
    <2>1. \A i \in 1..Len(s) : i \in About(s \o t, f) <=> i \in About(s, f)
        BY <1>1, <1>2 DEF About, Notices
    <2>2. ASSUME NEW i \in About(s \o t, f) PROVE i \in 1..Len(s)
        <3> SUFFICES ASSUME i \notin 1..Len(s) PROVE FALSE
            OBVIOUS
        <3>1. i \in 1..(Len(s) + Len(t)) /\ IsNotice((s \o t)[i]) /\ (s \o t)[i].conn = f
            BY <1>1 DEF About, Notices
        <3>2. i - Len(s) \in 1..Len(t) /\ (s \o t)[i] = t[i - Len(s)]
            BY <1>1, <3>1
        <3>3. i - Len(s) \in About(t, f)
            BY <3>1, <3>2 DEF About, Notices
        <3> QED BY <3>3
    <2>3. About(s, f) \subseteq 1..Len(s)
        BY DEF About, Notices
    <2> QED BY <2>1, <2>2, <2>3
<1>4. CASE About(s, f) = {}
    BY <1>3, <1>4, ViewOfNone
<1>5. CASE About(s, f) # {}
    <2>1. PICK i : IsLast(s, f, i)
        BY <1>5, HasLast
    <2>2. IsLast(s \o t, f, i) /\ (s \o t)[i] = s[i]
        BY <1>2, <1>3, <2>1 DEF IsLast, About, Notices
    <2>3. ViewOf(s, m, f) = Said(s[i])
        BY <2>1, ViewOfLast
    <2>4. ViewOf(s \o t, m, f) = Said((s \o t)[i])
        <3>1. s \o t \in Seq(Sent)
            BY <1>1
        <3> QED BY <2>2, <3>1, ViewOfLast, Zenon
    <2> QED BY <2>2, <2>3, <2>4
<1> QED BY <1>4, <1>5

\* messages that say one thing of f make it the view
LEMMA NewView ==
    ASSUME NEW s \in Seq(Sent), NEW t \in Seq(Sent), NEW m, NEW f, NEW v, About(t, f) # {},
           \A i \in About(t, f) : Said(t[i]) = v
    PROVE  ViewOf(s \o t, m, f) = v
<1>1. /\ s \o t \in Seq(Sent) /\ Len(s \o t) = Len(s) + Len(t) /\ Len(s) \in Nat /\ Len(t) \in Nat
      /\ \A i \in 1..(Len(s) + Len(t)) : (s \o t)[i] = IF i <= Len(s) THEN s[i] ELSE t[i - Len(s)]
    BY ConcatProperties
<1>2. PICK j \in About(t, f) : TRUE
    OBVIOUS
<1>3. j \in 1..Len(t) /\ IsNotice(t[j]) /\ t[j].conn = f
    BY <1>2 DEF About, Notices
<1>4. Len(s) + j \in 1..(Len(s) + Len(t)) /\ ~(Len(s) + j <= Len(s)) /\ (Len(s) + j) - Len(s) = j
    BY <1>1, <1>3
<1>5. (s \o t)[Len(s) + j] = t[j]
    BY <1>1, <1>4
<1>6. Len(s) + j \in About(s \o t, f)
    BY <1>1, <1>3, <1>4, <1>5 DEF About, Notices
<1>7. PICK i : IsLast(s \o t, f, i)
    BY <1>1, <1>6, HasLast
<1>8. i \in 1..(Len(s) + Len(t)) /\ IsNotice((s \o t)[i]) /\ (s \o t)[i].conn = f /\ Len(s) + j <= i
    <2>1. i \in About(s \o t, f) /\ Len(s) + j <= i
        BY <1>6, <1>7 DEF IsLast
    <2>2. i \in DOMAIN (s \o t) /\ IsNotice((s \o t)[i]) /\ (s \o t)[i].conn = f
        BY <2>1, Zenon DEF About, Notices
    <2>3. DOMAIN (s \o t) = 1..(Len(s) + Len(t))
        BY <1>1
    <2> QED BY <2>1, <2>2, <2>3, Zenon
<1>9. i - Len(s) \in 1..Len(t) /\ (s \o t)[i] = t[i - Len(s)]
    BY <1>1, <1>3, <1>8
<1>10. i - Len(s) \in About(t, f)
    BY <1>8, <1>9 DEF About, Notices
<1>11. ViewOf(s \o t, m, f) = Said((s \o t)[i])
    <2>1. s \o t \in Seq(Sent)
        BY <1>1
    <2> QED BY <1>7, <2>1, ViewOfLast, Zenon
<1> QED BY <1>9, <1>10, <1>11

-----------------------------------------------------------------------------
(* What the views should be.                                               *)

\* the client the game server is to have for f, by the socket map k
Entry(k, f) == IF k[f] # Free /\ ~k[f].new THEN k[f].client ELSE Free

LEMMA AgreesNow == ViewsAgree <=> \A f \in Fd \ lost : ViewOf(up, conns, f) = Entry(sock, f)
<1>1. \A f \in Fd : Entry(sock, f) = IF f \in Told THEN sock[f].client ELSE Free
    BY DEF Entry, Told, Used
<1> QED BY <1>1, ViewIsViewOf DEF ViewsAgree

LEMMA AgreesThen ==
    ViewsAgree' <=> \A f \in Fd \ lost' : ViewOf(up', conns', f) = Entry(sock', f)
<1>1. \A f \in Fd : Entry(sock', f) = IF f \in Told' THEN sock'[f].client ELSE Free
    BY DEF Entry, Told, Used
<1>2. \A f : View(f)' = ViewOf(up', conns', f)
    BY DEF View, ViewOf, LastOf, About
<1> QED BY <1>1, <1>2 DEF ViewsAgree

\* what the proof needs to know of the types
ViewType ==
    /\ sock \in [Fd -> SockInfo \cup {Free}]
    /\ conns \in Conns
    /\ up \in Seq(Sent)
    /\ saved # Free => saved.conns \in Conns

\* a step that changes no view keeps the agreement
LEMMA SameViews ==
    ASSUME ViewsAgree, lost \subseteq lost',
           \A f \in Fd \ lost' : /\ ViewOf(up', conns', f) = ViewOf(up, conns, f)
                                 /\ Entry(sock', f) = Entry(sock, f)
    PROVE  ViewsAgree'
<1>1. ASSUME NEW f \in Fd \ lost' PROVE ViewOf(up', conns', f) = Entry(sock', f)
    <2>1. f \in Fd \ lost
        OBVIOUS
    <2>2. ViewOf(up, conns, f) = Entry(sock, f)
        BY <2>1, AgreesNow
    <2> QED BY <2>2
<1> QED BY <1>1, AgreesThen

-----------------------------------------------------------------------------
(* Messages of the connection server.                                      *)

\* the agreement is kept, if the notices sent say what changes
LEMMA TransferKeeps ==
    ASSUME ViewType, ViewsAgree, NEW t \in Seq(Sent), TransferMessage(t), conns' = conns,
           \A f \in Fd : About(t, f) = {} => Entry(sock', f) = Entry(sock, f),
           \A f \in Fd : \A i \in About(t, f) : Said(t[i]) = Entry(sock', f)
    PROVE  ViewsAgree' /\ up' \in Seq(Sent)
<1>1. up \in Seq(Sent)
    BY DEF ViewType
<1>2. CASE link.conn /\ link.tcp
    <2>1. up' = up \o t /\ lost' = lost \ {t[i].conn : i \in {j \in DOMAIN t : t[j].new}}
        BY <1>2 DEF TransferMessage
    <2>2. up \o t \in Seq(Sent)
        BY <1>1, ConcatProperties
    <2>3. ASSUME NEW f \in Fd \ lost' PROVE ViewOf(up', conns', f) = Entry(sock', f)
        <3>1. CASE About(t, f) = {}
            <4>1. f \in Fd \ lost
                <5> SUFFICES ASSUME f \in lost PROVE FALSE
                    OBVIOUS
                <5>1. PICK j \in DOMAIN t : t[j].new /\ t[j].conn = f
                    BY <2>1
                <5>2. j \in About(t, f)
                    BY <5>1 DEF About, Notices, IsNotice
                <5> QED BY <3>1, <5>2
            <4>2. ViewOf(up \o t, conns, f) = ViewOf(up, conns, f)
                BY <1>1, <3>1, OtherView
            <4>3. ViewOf(up, conns, f) = Entry(sock, f)
                BY <4>1, AgreesNow
            <4>4. Entry(sock', f) = Entry(sock, f)
                BY <3>1
            <4> QED BY <2>1, <4>2, <4>3, <4>4
        <3>2. CASE About(t, f) # {}
            <4>1. ViewOf(up \o t, conns, f) = Entry(sock', f)
                BY <1>1, <3>2, NewView
            <4> QED BY <2>1, <4>1
        <3> QED BY <3>1, <3>2
    <2> QED BY <2>1, <2>2, <2>3, AgreesThen
<1>3. CASE ~(link.conn /\ link.tcp)
    <2>1. up' = up /\ lost' = lost \cup {t[i].conn : i \in Notices(t)}
        BY <1>3 DEF TransferMessage
    <2>2. ASSUME NEW f \in Fd \ lost' PROVE About(t, f) = {}
        BY <2>1 DEF About
    <2>3. ViewsAgree'
        BY <2>1, <2>2, SameViews
    <2> QED BY <1>1, <2>1, <2>3
<1> QED BY <1>2, <1>3

\* a sequence made of a finite set has its elements
LEMMA SetToSeqElements ==
    ASSUME NEW S, IsFiniteSet(S)
    PROVE  /\ Cardinality(S) \in Nat
           /\ SetToSeq(S) \in [1..Cardinality(S) -> S]
           /\ \A x \in S : \E i \in 1..Cardinality(S) : SetToSeq(S)[i] = x
<1> DEFINE n == Cardinality(S)
<1>1. n \in Nat /\ ExistsBijection(1..n, S)
    BY FS_CardinalityType
<1>2. \E g \in [1..n -> S] : IsInjective(g)
    BY <1>1 DEF ExistsBijection, Bijection, Injection
<1>3. SetToSeq(S) \in [1..n -> S] /\ IsInjective(SetToSeq(S))
    BY <1>2 DEF SetToSeq
<1>4. SetToSeq(S) \in Injection(1..n, S)
    BY <1>3 DEF Injection
<1>5. Cardinality(1..n) = n
    BY <1>1, FS_Interval
<1>6. SetToSeq(S) \in Surjection(1..n, S)
    BY <1>4, <1>5, FS_Injection
<1> QED BY <1>1, <1>3, <1>6 DEF Surjection

LEMMA CloseNoticesSay ==
    ASSUME FdsOK, ViewType, NEW F \in SUBSET Fd
    PROVE  /\ CloseNotices(F) \in Seq(Sent)
           /\ \A i \in DOMAIN CloseNotices(F) : Said(CloseNotices(F)[i]) = Free
           /\ \A f \in Fd : About(CloseNotices(F), f) # {} <=> f \in F \cap Told
<1> DEFINE S == F \cap Told
           order == SetToSeq(S)
           t == CloseNotices(F)
<1>1. IsFiniteSet(S)
    BY FS_Subset DEF FdsOK
<1>2. /\ Cardinality(S) \in Nat /\ order \in [1..Cardinality(S) -> S]
      /\ \A x \in S : \E i \in 1..Cardinality(S) : order[i] = x
    BY <1>1, SetToSeqElements
<1>3. t = [i \in 1..Cardinality(S) |-> Close(order[i])]
    BY <1>2 DEF CloseNotices
<1>4. ASSUME NEW i \in 1..Cardinality(S)
      PROVE  t[i] = Close(order[i]) /\ t[i] \in Sent /\ IsNotice(t[i]) /\ t[i].conn = order[i]
                /\ Said(t[i]) = Free
    <2>1. order[i] \in S /\ order[i] \in Fd /\ sock[order[i]] \in SockInfo
        BY <1>2 DEF Told, Used, ViewType
    <2>2. t[i] = Close(order[i])
        BY <1>3
    <2>3. Close(order[i]) \in Sent
        BY <2>1 DEF Close, Sent, Message, SockInfo
    <2> QED BY <2>2, <2>3 DEF Close, IsNotice, Said
<1>5. t \in Seq(Sent) /\ DOMAIN t = 1..Cardinality(S)
    <2>1. t \in [1..Cardinality(S) -> Sent]
        BY <1>3, <1>4
    <2> HIDE DEF t, S
    <2> QED BY <1>2, <2>1
<1> HIDE DEF t, order
<1>6. \A i \in 1..Cardinality(S) : \A f : i \in About(t, f) <=> order[i] = f
    BY <1>4, <1>5 DEF About, Notices
<1>7. \A f : About(t, f) \subseteq 1..Cardinality(S)
    BY <1>5 DEF About, Notices
<1>8. ASSUME NEW f \in Fd PROVE About(t, f) # {} <=> f \in S
    <2>1. ASSUME NEW i \in About(t, f) PROVE f \in S
        <3>1. i \in 1..Cardinality(S) /\ order[i] = f
            BY <1>6, <1>7
        <3> QED BY <1>2, <3>1
    <2>2. ASSUME f \in S PROVE About(t, f) # {}
        BY <1>2, <1>6, <2>2
    <2> QED BY <2>1, <2>2
<1>9. \A i \in DOMAIN t : Said(t[i]) = Free
    BY <1>4, <1>5
<1> QED BY <1>5, <1>8, <1>9 DEF t

LEMMA CloseKeeps ==
    ASSUME FdsOK, ViewType, ViewsAgree, NEW F \in SUBSET Fd,
           TransferMessage(CloseNotices(F)), conns' = conns,
           sock' = [f \in Fd |-> IF f \in F THEN Free ELSE sock[f]]
    PROVE  ViewsAgree' /\ up' \in Seq(Sent)
<1>1. \A f \in F : Entry(sock', f) = Free
    BY DEF Entry
<1>2. \A f \in Fd \ F : Entry(sock', f) = Entry(sock, f)
    BY DEF Entry
<1>3. \A f \in Fd \ Told : Entry(sock, f) = Free
    BY DEF Entry, Told, Used
<1>4. \A f \in Fd : About(CloseNotices(F), f) = {} => Entry(sock', f) = Entry(sock, f)
    BY <1>1, <1>2, <1>3, CloseNoticesSay
<1>5. \A f \in Fd : \A i \in About(CloseNotices(F), f) :
          Said(CloseNotices(F)[i]) = Entry(sock', f)
    <2> TAKE f \in Fd
    <2> TAKE i \in About(CloseNotices(F), f)
    <2>1. f \in F
        BY CloseNoticesSay
    <2>2. i \in DOMAIN CloseNotices(F)
        BY DEF About, Notices
    <2> QED BY <1>1, <2>1, <2>2, CloseNoticesSay
<1> QED BY <1>4, <1>5, CloseNoticesSay, TransferKeeps

-----------------------------------------------------------------------------
(* The steps.                                                              *)

\* a step that sends, handles and forgets nothing
LEMMA QuietKeeps ==
    ASSUME ViewType, ViewsAgree, UNCHANGED <<up, conns, saved>>, lost \subseteq lost',
           sock' \in [Fd -> SockInfo \cup {Free}],
           \A f \in Fd \ lost' : Entry(sock', f) = Entry(sock, f)
    PROVE  ViewType' /\ ViewsAgree'
<1>1. ViewsAgree'
    BY SameViews
<1> QED BY <1>1 DEF ViewType

\* a step about one connection
LEMMA OneSock ==
    ASSUME FdsOK, ViewType, NEW f \in Fd, NEW new \in SockInfo \cup {Free},
           sock' = [sock EXCEPT ![f] = new],
           (new # Free /\ ~new.new) <=> f \in Told,
           f \in Told => new.client = sock[f].client
    PROVE  /\ sock' \in [Fd -> SockInfo \cup {Free}]
           /\ \A g \in Fd : Entry(sock', g) = Entry(sock, g)
<1>1. sock' \in [Fd -> SockInfo \cup {Free}] /\ sock'[f] = new
          /\ \A g \in Fd \ {f} : sock'[g] = sock[g]
    BY DEF ViewType
<1>2. ASSUME NEW g \in Fd PROVE Entry(sock', g) = Entry(sock, g)
    <2>1. CASE g = f
        BY <1>1, <2>1 DEF Entry, Told, Used
    <2>2. CASE g # f
        BY <1>1, <2>2 DEF Entry
    <2> QED BY <2>1, <2>2
<1> QED BY <1>1, <1>2

LEMMA AcceptKeeps ==
    ASSUME FdsOK, ViewType, ViewsAgree, NEW c \in Client, NEW f \in Fd, Accept(c, f)
    PROVE  ViewType' /\ ViewsAgree'
<1> DEFINE new == [client |-> c, login |-> FALSE, new |-> TRUE, connected |-> TRUE, silent |-> 0]
<1>1. new \in SockInfo /\ new.new
    BY ConnAssumption DEF SockInfo
<1>2. sock' = [sock EXCEPT ![f] = new] /\ f \notin Told
    BY DEF Accept, Told, Used
<1> HIDE DEF new
<1>3. /\ sock' \in [Fd -> SockInfo \cup {Free}]
      /\ \A g \in Fd : Entry(sock', g) = Entry(sock, g)
    BY <1>1, <1>2, OneSock
<1>4. UNCHANGED <<up, conns, saved, lost>>
    BY DEF Accept, gameVars, linkVars
<1> QED BY <1>3, <1>4, QuietKeeps

\* Login, HeartBeat and ReadError: the client and the mark stay
LEMMA MarkKeeps ==
    ASSUME FdsOK, ViewType, ViewsAgree, NEW f \in Used(sock), NEW new \in SockInfo,
           sock' = [sock EXCEPT ![f] = new], new.new = sock[f].new,
           new.client = sock[f].client, UNCHANGED <<up, conns, saved, lost>>
    PROVE  ViewType' /\ ViewsAgree'
<1>1. f \in Fd /\ new # Free
    BY DEF Used, FdsOK
<1>2. (new # Free /\ ~new.new) <=> f \in Told
    BY <1>1 DEF Told
<1>3. /\ sock' \in [Fd -> SockInfo \cup {Free}]
      /\ \A g \in Fd : Entry(sock', g) = Entry(sock, g)
    BY <1>1, <1>2, OneSock
<1> QED BY <1>3, QuietKeeps

LEMMA LoginKeeps ==
    ASSUME FdsOK, ViewType, ViewsAgree, NEW f \in Fd, Login(f) \/ HeartBeat(f) \/ ReadError(f)
    PROVE  ViewType' /\ ViewsAgree'
<1>1. f \in Used(sock) /\ sock[f] \in SockInfo
    BY DEF Login, HeartBeat, ReadError, Says, Alive, Used, ViewType
<1>2. UNCHANGED <<up, conns, saved, lost>>
    BY DEF Login, HeartBeat, ReadError, gameVars, linkVars
<1>3. CASE Login(f)
    <2> DEFINE new == [sock[f] EXCEPT !.login = TRUE]
    <2>1. new \in SockInfo /\ new.new = sock[f].new /\ new.client = sock[f].client
        BY <1>1 DEF SockInfo
    <2>2. sock' = [sock EXCEPT ![f] = new]
        BY <1>3 DEF Login
    <2> HIDE DEF new
    <2> QED BY <1>1, <1>2, <2>1, <2>2, MarkKeeps
<1>4. CASE HeartBeat(f)
    <2> DEFINE new == [sock[f] EXCEPT !.silent = 0]
    <2>1. new \in SockInfo /\ new.new = sock[f].new /\ new.client = sock[f].client
        BY <1>1, ConnAssumption DEF SockInfo
    <2>2. sock' = [sock EXCEPT ![f] = new]
        BY <1>4 DEF HeartBeat
    <2> HIDE DEF new
    <2> QED BY <1>1, <1>2, <2>1, <2>2, MarkKeeps
<1>5. CASE ReadError(f)
    <2> DEFINE new == [sock[f] EXCEPT !.connected = FALSE]
    <2>1. new \in SockInfo /\ new.new = sock[f].new /\ new.client = sock[f].client
        BY <1>1 DEF SockInfo
    <2>2. sock' = [sock EXCEPT ![f] = new]
        BY <1>5 DEF ReadError
    <2> HIDE DEF new
    <2> QED BY <1>1, <1>2, <2>1, <2>2, MarkKeeps
<1> QED BY <1>3, <1>4, <1>5

LEMMA BadLoginKeeps ==
    ASSUME FdsOK, ViewType, ViewsAgree, NEW f \in Fd, BadLogin(f)
    PROVE  ViewType' /\ ViewsAgree'
<1>1. sock' = [sock EXCEPT ![f] = Free] /\ lost' = lost \cup ({f} \cap Told)
          /\ UNCHANGED <<up, conns, saved>>
    BY DEF BadLogin, gameVars
<1>2. sock' \in [Fd -> SockInfo \cup {Free}] /\ sock'[f] = Free
          /\ \A g \in Fd \ {f} : sock'[g] = sock[g]
    BY <1>1 DEF ViewType
<1>3. ASSUME NEW g \in Fd \ lost' PROVE Entry(sock', g) = Entry(sock, g)
    <2>1. CASE g = f
        BY <1>1, <1>2, <2>1 DEF Entry, Told, Used
    <2>2. CASE g # f
        BY <1>2, <2>2 DEF Entry
    <2> QED BY <2>1, <2>2
<1> QED BY <1>1, <1>2, <1>3, QuietKeeps

LEMMA TickKeeps ==
    ASSUME FdsOK, ViewType, ViewsAgree, Tick
    PROVE  ViewType' /\ ViewsAgree'
<1> DEFINE Older(f) == [sock[f] EXCEPT !.silent = @ + 1]
<1>1. ASSUME NEW f \in Used(sock), sock[f].silent <= HeartBeatTimeout
      PROVE  Older(f) \in SockInfo /\ Older(f).new = sock[f].new /\ Older(f).client = sock[f].client
    <2>1. sock[f] \in SockInfo
        BY DEF ViewType, Used
    <2> QED BY <1>1, <2>1, ConnAssumption DEF SockInfo
<1>2. ASSUME NEW f \in Fd
      PROVE  /\ sock'[f] \in SockInfo \cup {Free}
             /\ Entry(sock', f) = Entry(sock, f)
    <2>1. CASE f \in Used(sock) /\ sock[f].silent <= HeartBeatTimeout
        <3>1. sock'[f] = Older(f)
            BY <2>1 DEF Tick
        <3>2. Older(f) \in SockInfo /\ Older(f).new = sock[f].new /\ Older(f).client = sock[f].client
            BY <1>1, <2>1
        <3> HIDE DEF Older
        <3>3. sock'[f] # Free /\ sock[f] # Free
            BY <2>1, <3>1, <3>2 DEF FdsOK, Used
        <3> QED BY <3>1, <3>2, <3>3 DEF Entry
    <2>2. CASE ~(f \in Used(sock) /\ sock[f].silent <= HeartBeatTimeout)
        <3>1. sock'[f] = sock[f]
            BY <2>2 DEF Tick
        <3> QED BY <3>1 DEF Entry, ViewType
    <2> QED BY <2>1, <2>2
<1>3. sock' \in [Fd -> SockInfo \cup {Free}]
    <2>1. sock' = [f \in Fd |-> sock'[f]]
        BY DEF Tick
    <2> QED BY <1>2, <2>1
<1>4. UNCHANGED <<up, conns, saved, lost>>
    BY DEF Tick, gameVars, linkVars
<1> QED BY <1>2, <1>3, <1>4, QuietKeeps

LEMMA OtherKeeps ==
    ASSUME FdsOK, ViewType, ViewsAgree, NEW f \in Fd, Other(f)
    PROVE  ViewType' /\ ViewsAgree'
<1> DEFINE c == sock[f].client
           m == [conn |-> f, client |-> c, new |-> sock[f].new, close |-> FALSE]
           k == [sock[f] EXCEPT !.new = FALSE]
<1>1. sock[f] # Free /\ sock[f] \in SockInfo
    BY DEF Other, Says, Alive, Used, ViewType
<1>2. m \in Sent
    BY <1>1 DEF Sent, Message, SockInfo
<1>3. k \in SockInfo /\ k # Free /\ k.new = FALSE /\ k.client = c
    BY <1>1 DEF SockInfo, FdsOK
<1>4. sock' = [sock EXCEPT ![f] = k] /\ UNCHANGED <<conns, saved>> /\ TransferMessage(<<m>>)
    BY DEF Other, gameVars
<1>5. sock' \in [Fd -> SockInfo \cup {Free}] /\ sock'[f] = k
          /\ \A g \in Fd \ {f} : sock'[g] = sock[g]
    BY <1>3, <1>4 DEF ViewType
<1>6. <<m>> \in Seq(Sent) /\ DOMAIN <<m>> = {1} /\ <<m>>[1] = m
    BY <1>2
<1>7. m.conn = f /\ m.client = c /\ ~m.close /\ m.new = sock[f].new
    OBVIOUS
<1>8. Entry(sock', f) = c /\ \A g \in Fd \ {f} : Entry(sock', g) = Entry(sock, g)
    BY <1>3, <1>5 DEF Entry
<1> HIDE DEF m, k
<1>9. ASSUME NEW g \in Fd, About(<<m>>, g) = {} PROVE Entry(sock', g) = Entry(sock, g)
    <2>1. CASE g = f
        <3>1. ~m.new
            <4> SUFFICES ASSUME m.new PROVE FALSE
                OBVIOUS
            <4>1. 1 \in About(<<m>>, g)
                BY <1>6, <1>7, <2>1 DEF About, Notices, IsNotice
            <4> QED BY <1>9, <4>1
        <3>2. Entry(sock, f) = c
            BY <1>1, <1>7, <3>1 DEF Entry
        <3> QED BY <1>8, <2>1, <3>2
    <2>2. CASE g # f
        BY <1>8, <2>2
    <2> QED BY <2>1, <2>2
<1>10. ASSUME NEW g \in Fd, NEW i \in About(<<m>>, g) PROVE Said(<<m>>[i]) = Entry(sock', g)
    <2>1. i \in {1} /\ IsNotice(<<m>>[i]) /\ <<m>>[i].conn = g
        BY <1>6 DEF About, Notices
    <2>2. i = 1 /\ IsNotice(m) /\ m.conn = g
        BY <1>6, <2>1
    <2>3. m.new /\ g = f
        BY <1>7, <2>2 DEF IsNotice
    <2>4. Said(m) = c
        BY <1>7, <2>3 DEF Said
    <2> QED BY <1>6, <1>8, <2>2, <2>3, <2>4
<1>11. ViewsAgree' /\ up' \in Seq(Sent)
    BY <1>4, <1>6, <1>9, <1>10, TransferKeeps
<1> QED BY <1>4, <1>5, <1>11 DEF ViewType

LEMMA CloseStep ==
    ASSUME FdsOK, ViewType, ViewsAgree,
           (\E f \in Fd : ReadEnd(f)) \/ HeartBeatCheck
    PROVE  ViewType' /\ ViewsAgree'
<1>1. PICK F \in SUBSET Fd : /\ TransferMessage(CloseNotices(F))
                             /\ sock' = [f \in Fd |-> IF f \in F THEN Free ELSE sock[f]]
    <2>1. ASSUME NEW f \in Fd, ReadEnd(f)
          PROVE  /\ TransferMessage(CloseNotices({f}))
                 /\ sock' = [g \in Fd |-> IF g \in {f} THEN Free ELSE sock[g]]
        BY <2>1 DEF ReadEnd, PeerClose, ViewType
    <2>2. ASSUME HeartBeatCheck
          PROVE  /\ TransferMessage(CloseNotices(Silent)) /\ Silent \in SUBSET Fd
                 /\ sock' = [g \in Fd |-> IF g \in Silent THEN Free ELSE sock[g]]
        BY <2>2 DEF HeartBeatCheck, HeartBeatClose, Silent, Used
    <2> QED BY <2>1, <2>2
<1>2. UNCHANGED <<conns, saved>>
    BY DEF ReadEnd, HeartBeatCheck, gameVars
<1>3. ViewsAgree' /\ up' \in Seq(Sent)
    BY <1>1, <1>2, CloseKeeps
<1> QED BY <1>1, <1>2, <1>3 DEF ViewType

\* the first message is handled: the map becomes what the view was
LEMMA GameMessageKeeps ==
    ASSUME FdsOK, ViewType, ViewsAgree, GameMessage
    PROVE  ViewType' /\ ViewsAgree'
<1> DEFINE m == Head(up)
<1>1. up \in Seq(Sent) /\ up # <<>> /\ up' = Tail(up) /\ UNCHANGED <<sock, saved>>
    BY DEF GameMessage, ViewType, connVars
<1>2. m \in Sent /\ up' \in Seq(Sent)
    BY <1>1, HeadTailProperties
<1>3. /\ m.conn \in Fd /\ m.client \in Client /\ m.new \in BOOLEAN /\ m.close \in BOOLEAN
      /\ ~(m.new /\ m.close)
    BY <1>2 DEF Sent, Message
<1> HIDE DEF m
<1>4. ASSUME NEW f \in Fd, lost' = lost,
             (IsNotice(m) /\ m.conn = f) => conns'[f] = Said(m),
             ~(IsNotice(m) /\ m.conn = f) => conns'[f] = conns[f]
      PROVE  ViewOf(up', conns', f) = ViewOf(up, conns, f)
    BY <1>1, <1>4, TailView DEF m
<1>5. CASE Refuse(m)
    <2>1. conns' = conns /\ lost' = lost \cup {m.conn}
        BY <1>5 DEF Refuse
    <2>2. ASSUME NEW f \in Fd \ lost' PROVE ViewOf(up', conns', f) = ViewOf(up, conns, f)
        <3>1. m.conn # f
            BY <2>1
        <3> QED BY <1>1, <2>1, <3>1, TailView DEF m
    <2>3. ViewsAgree'
        BY <1>1, <2>1, <2>2, SameViews
    <2> QED BY <1>1, <1>2, <2>1, <2>3 DEF ViewType
<1>6. CASE Release(m)
    <2>1. conns' = [conns EXCEPT ![m.conn] = Free] /\ lost' = lost /\ m.close
        BY <1>6 DEF Release
    <2>2. conns' \in Conns /\ conns'[m.conn] = Free
              /\ \A f \in Fd \ {m.conn} : conns'[f] = conns[f]
        BY <1>3, <2>1 DEF ViewType, Conns
    <2>3. Said(m) = Free /\ IsNotice(m)
        BY <1>3, <2>1 DEF Said, IsNotice
    <2>4. ASSUME NEW f \in Fd \ lost' PROVE ViewOf(up', conns', f) = ViewOf(up, conns, f)
        BY <1>4, <2>1, <2>2, <2>3
    <2>5. ViewsAgree'
        BY <1>1, <2>1, <2>4, SameViews
    <2> QED BY <1>1, <1>2, <2>2, <2>5 DEF ViewType
<1>7. CASE TakeRequest(m)
    <2>1. conns' = [conns EXCEPT ![m.conn] = IF m.new THEN m.client ELSE @]
              /\ lost' = lost /\ ~m.close
        BY <1>7 DEF TakeRequest
    <2>2. conns' \in Conns /\ conns'[m.conn] = (IF m.new THEN m.client ELSE conns[m.conn])
              /\ \A f \in Fd \ {m.conn} : conns'[f] = conns[f]
        BY <1>3, <2>1 DEF ViewType, Conns
    <2>3. ASSUME NEW f \in Fd \ lost' PROVE ViewOf(up', conns', f) = ViewOf(up, conns, f)
        <3>1. CASE m.new
            <4>1. Said(m) = m.client /\ IsNotice(m) /\ conns'[m.conn] = m.client
                BY <2>2, <3>1 DEF Said, IsNotice
            <4> QED BY <1>4, <2>1, <2>2, <4>1
        <3>2. CASE ~m.new
            <4>1. ~IsNotice(m) /\ conns'[f] = conns[f]
                BY <2>1, <2>2, <3>2 DEF IsNotice
            <4> QED BY <1>4, <2>1, <4>1
        <3> QED BY <3>1, <3>2
    <2>4. ViewsAgree'
        BY <1>1, <2>1, <2>3, SameViews
    <2> QED BY <1>1, <1>2, <2>2, <2>4 DEF ViewType
<1>8. Refuse(m) \/ Release(m) \/ TakeRequest(m)
    BY DEF GameMessage, m
<1> QED BY <1>5, <1>6, <1>7, <1>8

\* what is on its way is gone: the descriptors of the notices are lost
LEMMA BrokenView ==
    ASSUME ViewType, ViewsAgree, up' = <<>>, sock' = sock,
           {up[i].conn : i \in Notices(up)} \subseteq lost', lost \subseteq lost',
           \A f \in Fd \ lost' : conns'[f] = conns[f]
    PROVE  ViewsAgree' /\ up' \in Seq(Sent)
<1>1. ASSUME NEW f \in Fd \ lost' PROVE ViewOf(up', conns', f) = ViewOf(up, conns, f)
    <2>1. About(up, f) = {}
        BY DEF About
    <2>2. ViewOf(up, conns, f) = conns[f]
        BY <2>1, ViewOfNone
    <2>3. ViewOf(up', conns', f) = conns'[f]
        BY EmptyAbout, ViewOfNone
    <2> QED BY <2>2, <2>3
<1> QED BY <1>1, SameViews

LEMMA BreakKeeps ==
    ASSUME FdsOK, ViewType, ViewsAgree, Break \/ GameRestart
    PROVE  ViewType' /\ ViewsAgree'
<1>1. CASE Break
    <2>1. up' = <<>> /\ UNCHANGED <<sock, conns, saved>>
              /\ lost' = lost \cup {up[i].conn : i \in Notices(up)}
        BY <1>1 DEF Break, Broken, connVars, gameVars
    <2>2. ViewsAgree' /\ up' \in Seq(Sent)
        BY <2>1, BrokenView
    <2> QED BY <2>1, <2>2 DEF ViewType
<1>2. CASE GameRestart
    <2>1. up' = <<>> /\ sock' = sock /\ conns' = saved.conns /\ saved' = Free /\ saved # Free
              /\ lost' = lost \cup {up[i].conn : i \in Notices(up)}
                              \cup {f \in Fd : conns[f] # saved.conns[f]}
        BY <1>2 DEF GameRestart, Broken, connVars
    <2>2. ViewsAgree' /\ up' \in Seq(Sent)
        BY <2>1, BrokenView
    <2> QED BY <2>1, <2>2 DEF ViewType
<1> QED BY <1>1, <1>2

\* one server forgets all: what the other has is lost
LEMMA CrashKeeps ==
    ASSUME FdsOK, ViewType, ViewsAgree, GameCrash \/ ConnCrash
    PROVE  ViewType' /\ ViewsAgree'
<1>1. up' = <<>> /\ up' \in Seq(Sent)
    <2>1. up' = <<>>
        BY DEF GameCrash, ConnCrash, Broken
    <2> QED BY <2>1
<1>2. \A f : ViewOf(up', conns', f) = conns'[f]
    BY <1>1, EmptyAbout, ViewOfNone
<1>3. CASE GameCrash
    <2>1. sock' = sock /\ conns' = [f \in Fd |-> Free] /\ saved' = Free /\ lost' = Told
        BY <1>3 DEF GameCrash, connVars
    <2>2. ASSUME NEW f \in Fd \ lost' PROVE conns'[f] = Entry(sock', f)
        BY <2>1 DEF Entry, Told, Used
    <2> QED BY <1>1, <1>2, <2>1, <2>2, AgreesThen DEF ViewType, Conns
<1>4. CASE ConnCrash
    <2>1. sock' = [f \in Fd |-> Free] /\ conns' = conns /\ saved' = saved /\ lost' = Used(conns)
        BY <1>4 DEF ConnCrash, gameVars
    <2>2. ASSUME NEW f \in Fd \ lost' PROVE conns'[f] = Entry(sock', f)
        BY <2>1 DEF Entry, Used
    <2> QED BY <1>1, <1>2, <2>1, <2>2, AgreesThen DEF ViewType, Conns
<1> QED BY <1>3, <1>4

LEMMA SilentKeeps ==
    ASSUME ViewType, ViewsAgree, UNCHANGED <<sock, conns, up, lost>>,
           saved' = saved \/ saved'.conns = conns
    PROVE  ViewType' /\ ViewsAgree'
<1>1. ViewsAgree'
    BY AgreesNow, AgreesThen
<1> QED BY <1>1 DEF ViewType

LEMMA ViewInit == ASSUME Init PROVE ViewType /\ ViewsAgree
<1>1. /\ sock = [f \in Fd |-> Free] /\ conns = [f \in Fd |-> Free]
      /\ up = <<>> /\ saved = Free
    BY DEF Init
<1>2. ASSUME NEW f \in Fd PROVE ViewOf(up, conns, f) = Entry(sock, f)
    <2>1. ViewOf(up, conns, f) = conns[f]
        BY <1>1, EmptyAbout, ViewOfNone
    <2> QED BY <1>1, <2>1 DEF Entry
<1> QED BY <1>1, <1>2, AgreesNow DEF ViewType, Conns

LEMMA ViewStep ==
    ASSUME FdsOK, ViewType, ViewsAgree, [Next]_vars
    PROVE  ViewType' /\ ViewsAgree'
<1>1. CASE \E c \in Client, f \in Fd : Accept(c, f)
    BY <1>1, AcceptKeeps
<1>2. CASE \E f \in Fd : Login(f) \/ HeartBeat(f) \/ ReadError(f)
    BY <1>2, LoginKeeps
<1>3. CASE \E f \in Fd : BadLogin(f)
    BY <1>3, BadLoginKeeps
<1>4. CASE \E f \in Fd : Other(f)
    BY <1>4, OtherKeeps
<1>5. CASE (\E f \in Fd : ReadEnd(f)) \/ HeartBeatCheck
    BY <1>5, CloseStep
<1>6. CASE Tick
    BY <1>6, TickKeeps
<1>7. CASE GameMessage
    BY <1>7, GameMessageKeeps
<1>8. CASE Break \/ GameRestart
    BY <1>8, BreakKeeps
<1>9. CASE GameCrash \/ ConnCrash
    BY <1>9, CrashKeeps
<1>10. CASE \/ ConnMessage \/ ConnNotices \/ GameNotices \/ Reconnect
            \/ (\E s \in sessions : Respond(s)) \/ (\E c \in Client : Leave(c))
            \/ UNCHANGED vars
    <2>1. UNCHANGED <<sock, conns, up, lost, saved>>
        BY <1>10 DEF ConnMessage, ConnNotices, GameNotices, Reconnect, Respond, Leave,
                     vars, connVars, gameVars, linkVars
    <2> QED BY <2>1, SilentKeeps
<1>11. CASE GameStop
    <2>1. UNCHANGED <<sock, conns, up, lost>> /\ saved'.conns = conns
        BY <1>11 DEF GameStop, connVars, linkVars
    <2> QED BY <2>1, SilentKeeps
<1> QED BY <1>1, <1>2, <1>3, <1>4, <1>5, <1>6, <1>7, <1>8, <1>9, <1>10, <1>11
        DEF Next, Conn, Game, Done

\* ViewsAgree, for any clients, place at the game server, timeouts, requests
\* and failures, of the code in accept_client_msg_service.cpp and
\* client_conn_manager.h that keeps the game server's map of connections.
THEOREM GameServerFollows ==
    ASSUME FdsOK
    PROVE  Spec => []ViewsAgree
<1>1. Init => ViewType /\ ViewsAgree
    BY ViewInit
<1>2. ViewType /\ ViewsAgree /\ [Next]_vars => ViewType' /\ ViewsAgree'
    BY ViewStep
<1> QED BY <1>1, <1>2, PTL DEF Spec

-----------------------------------------------------------------------------
(* The types.  Other asks for no more than MaxAsk of a client; the requests  *)
(* handled and those on their way are together no more.                      *)

\* the requests of client c among the messages of s
Asks(s, c) == {i \in DOMAIN s : ~s[i].close /\ s[i].client = c}

AskedOK(u, a) == \A c \in Client : a[c] + Cardinality(Asks(u, c)) <= MaxAsk

\* the parts of TypeOK that ViewType has not, of the variables they are about
SimpleOK ==
    /\ peer \in [Client -> {"out", "open", "closed", "reset"}]
    /\ link \in [tcp: BOOLEAN, conn: BOOLEAN, game: BOOLEAN]
    /\ down \in Seq(Response)
    /\ saved = Free \/ saved \in [conns: Conns, sessions: SUBSET Session]
    /\ lost \subseteq Fd
    /\ answered \in [Client -> Nat]
    /\ failures \in 0..MaxFailures

RequestsOK ==
    /\ sessions \subseteq Session
    /\ asked \in [Client -> 0..MaxAsk]
    /\ AskedOK(up, asked)

LEMMA AsksFinite ==
    ASSUME NEW s \in Seq(Sent), NEW c
    PROVE  /\ Asks(s, c) \subseteq 1..Len(s) /\ IsFiniteSet(Asks(s, c))
           /\ Cardinality(Asks(s, c)) \in Nat
<1>1. Asks(s, c) \subseteq 1..Len(s) /\ Len(s) \in Nat
    BY DEF Asks
<1>2. IsFiniteSet(1..Len(s))
    BY <1>1, FS_Interval
<1> QED BY <1>1, <1>2, FS_Subset, FS_CardinalityType

\* notices of an end are no requests
LEMMA CloseAsks ==
    ASSUME NEW s \in Seq(Sent), NEW t \in Seq(Sent), NEW c, Asks(t, c) = {}
    PROVE  Asks(s \o t, c) = Asks(s, c)
<1>1. /\ Len(s \o t) = Len(s) + Len(t) /\ Len(s) \in Nat /\ Len(t) \in Nat
      /\ DOMAIN (s \o t) = 1..(Len(s) + Len(t))
      /\ \A i \in 1..(Len(s) + Len(t)) : (s \o t)[i] = IF i <= Len(s) THEN s[i] ELSE t[i - Len(s)]
    BY ConcatProperties
<1>2. \A i \in 1..Len(s) : i \in Asks(s \o t, c) <=> i \in Asks(s, c)
    BY <1>1 DEF Asks
<1>3. ASSUME NEW i \in Asks(s \o t, c) PROVE i \in 1..Len(s)
    <2> SUFFICES ASSUME i \notin 1..Len(s) PROVE FALSE
        OBVIOUS
    <2>1. i \in 1..(Len(s) + Len(t)) /\ ~(s \o t)[i].close /\ (s \o t)[i].client = c
        BY <1>1 DEF Asks
    <2>2. i - Len(s) \in 1..Len(t) /\ (s \o t)[i] = t[i - Len(s)]
        BY <1>1, <2>1
    <2>3. i - Len(s) \in Asks(t, c)
        BY <2>1, <2>2 DEF Asks
    <2> QED BY <2>3
<1>4. Asks(s, c) \subseteq 1..Len(s)
    BY DEF Asks
<1> QED BY <1>2, <1>3, <1>4

LEMMA OneMore ==
    ASSUME NEW S, NEW x, IsFiniteSet(S)
    PROVE  IsFiniteSet(S \cup {x}) /\ Cardinality(S \cup {x}) <= Cardinality(S) + 1
<1>1. Cardinality(S) \in Nat
    BY FS_CardinalityType
<1>2. IsFiniteSet(S \cup {x}) /\ (x \in S => Cardinality(S \cup {x}) = Cardinality(S))
          /\ (x \notin S => Cardinality(S \cup {x}) = Cardinality(S) + 1)
    BY FS_AddElement
<1> QED BY <1>1, <1>2

\* one message is at most one request
LEMMA OneAsk ==
    ASSUME NEW s \in Seq(Sent), NEW m \in Sent, NEW c
    PROVE  Cardinality(Asks(s \o <<m>>, c)) <= Cardinality(Asks(s, c)) + 1
<1>1. <<m>> \in Seq(Sent) /\ Len(<<m>>) = 1
    OBVIOUS
<1>2. /\ s \o <<m>> \in Seq(Sent) /\ Len(s) \in Nat
      /\ DOMAIN (s \o <<m>>) = 1..(Len(s) + 1)
      /\ \A i \in 1..Len(s) : (s \o <<m>>)[i] = s[i]
    BY <1>1, ConcatProperties
<1>3. Asks(s \o <<m>>, c) \subseteq Asks(s, c) \cup {Len(s) + 1}
    BY <1>2 DEF Asks
<1>4. IsFiniteSet(Asks(s, c)) /\ Cardinality(Asks(s, c)) \in Nat
    BY AsksFinite
<1>5. /\ IsFiniteSet(Asks(s, c) \cup {Len(s) + 1})
      /\ Cardinality(Asks(s, c) \cup {Len(s) + 1}) <= Cardinality(Asks(s, c)) + 1
    BY <1>4, OneMore
<1>6. Cardinality(Asks(s \o <<m>>, c)) <= Cardinality(Asks(s, c) \cup {Len(s) + 1})
    BY <1>3, <1>5, FS_Subset
<1>7. Cardinality(Asks(s \o <<m>>, c)) \in Nat
    BY <1>2, AsksFinite
<1>8. Cardinality(Asks(s, c) \cup {Len(s) + 1}) \in Nat
    BY <1>5, FS_CardinalityType
<1> QED BY <1>4, <1>5, <1>6, <1>7, <1>8

\* the first message handled was one of them, if it is a request of c
LEMMA TailAsks ==
    ASSUME NEW s \in Seq(Sent), s # <<>>, NEW c
    PROVE  /\ Cardinality(Asks(Tail(s), c)) <= Cardinality(Asks(s, c))
           /\ ~Head(s).close /\ Head(s).client = c =>
                  Cardinality(Asks(Tail(s), c)) + 1 <= Cardinality(Asks(s, c))
<1> DEFINE A == Asks(s, c)
           B == Asks(Tail(s), c)
           shift == [i \in B |-> i + 1]
<1>1. /\ Tail(s) \in Seq(Sent) /\ Len(Tail(s)) = Len(s) - 1 /\ Len(s) \in Nat \ {0}
      /\ \A i \in 1..Len(Tail(s)) : Tail(s)[i] = s[i + 1]
      /\ Head(s) = s[1]
    BY HeadTailProperties
<1>2. /\ A \subseteq 1..Len(s) /\ IsFiniteSet(A) /\ Cardinality(A) \in Nat
      /\ B \subseteq 1..Len(Tail(s)) /\ IsFiniteSet(B) /\ Cardinality(B) \in Nat
    BY <1>1, AsksFinite
<1>3. \A i \in B : i + 1 \in A \ {1}
    BY <1>1, <1>2 DEF Asks
<1>4. 1 \in A <=> ~Head(s).close /\ Head(s).client = c
    BY <1>1 DEF Asks
<1> HIDE DEF A, B
<1>5. shift \in Injection(B, A \ {1})
    <2>1. shift \in [B -> A \ {1}]
        BY <1>3
    <2>2. \A i, j \in B : i # j => shift[i] # shift[j]
        BY <1>2
    <2>3. IsInjective(shift)
        BY <2>1, <2>2 DEF IsInjective
    <2> QED BY <2>1, <2>3 DEF Injection
<1>6. IsFiniteSet(A \ {1}) /\ Cardinality(A \ {1}) \in Nat
          /\ (1 \in A => Cardinality(A \ {1}) = Cardinality(A) - 1)
          /\ (1 \notin A => A \ {1} = A)
    BY <1>2, FS_RemoveElement, FS_CardinalityType
<1>7. Cardinality(B) <= Cardinality(A \ {1})
    BY <1>5, <1>6, FS_Injection DEF ExistsInjection
<1>8. Cardinality(B) <= Cardinality(A) /\ (1 \in A => Cardinality(B) + 1 <= Cardinality(A))
    <2>1. CASE 1 \in A
        <3>1. Cardinality(A \ {1}) = Cardinality(A) - 1
            BY <1>6, <2>1
        <3> HIDE DEF shift
        <3> QED BY <1>2, <1>7, <3>1
    <2>2. CASE 1 \notin A
        BY <1>6, <1>7, <2>2
    <2> QED BY <2>1, <2>2
<1> QED BY <1>4, <1>8 DEF A, B

-----------------------------------------------------------------------------
(* The steps, for the types.                                               *)

\* messages that are no requests, sent or dropped
LEMMA TransferTypes ==
    ASSUME SimpleOK, RequestsOK, ViewType, NEW t \in Seq(Sent), TransferMessage(t),
           \A c \in Client : asked[c] + Cardinality(Asks(up \o t, c)) <= MaxAsk
    PROVE  lost' \subseteq Fd /\ UNCHANGED <<link, down>> /\ AskedOK(up', asked)
<1>1. \A i \in DOMAIN t : t[i].conn \in Fd
    BY DEF Sent, Message
<1>2. Notices(t) \subseteq DOMAIN t
    BY DEF Notices
<1>3. CASE link.conn /\ link.tcp
    <2>1. up' = up \o t /\ lost' \subseteq lost
        BY <1>3 DEF TransferMessage
    <2> QED BY <2>1 DEF AskedOK, SimpleOK, TransferMessage
<1>4. CASE ~(link.conn /\ link.tcp)
    <2>1. up' = up /\ lost' = lost \cup {t[i].conn : i \in Notices(t)}
        BY <1>4 DEF TransferMessage
    <2> QED BY <1>1, <1>2, <2>1 DEF RequestsOK, AskedOK, SimpleOK, TransferMessage
<1> QED BY <1>3, <1>4

LEMMA CloseAskNothing ==
    ASSUME FdsOK, ViewType, NEW F \in SUBSET Fd, NEW c
    PROVE  CloseNotices(F) \in Seq(Sent) /\ Asks(up \o CloseNotices(F), c) = Asks(up, c)
<1> DEFINE t == CloseNotices(F)
<1>1. t \in Seq(Sent)
    BY CloseNoticesSay
<1>2. \A i \in DOMAIN t : t[i].close
    BY DEF CloseNotices, Close
<1> HIDE DEF t
<1>3. Asks(t, c) = {}
    BY <1>2 DEF Asks
<1>4. up \in Seq(Sent)
    BY DEF ViewType
<1>5. Asks(up \o t, c) = Asks(up, c)
    BY <1>1, <1>3, <1>4, CloseAsks
<1> QED BY <1>1, <1>5 DEF t

\* what is counted by Other and what is counted here
LEMMA OtherTypes ==
    ASSUME FdsOK, ViewType, SimpleOK, RequestsOK, NEW f \in Fd, Other(f)
    PROVE  SimpleOK' /\ RequestsOK'
<1> DEFINE c == sock[f].client
           m == [conn |-> f, client |-> c, new |-> sock[f].new, close |-> FALSE]
           all == {i \in DOMAIN up : up[i].client = c}
<1>1. sock[f] \in SockInfo /\ c \in Client /\ up \in Seq(Sent)
    BY DEF Other, Says, Alive, Used, ViewType, SockInfo
<1>2. m \in Sent /\ TransferMessage(<<m>>) /\ asked[c] + Cardinality(all) < MaxAsk
          /\ UNCHANGED <<peer, gameVars, answered, failures>>
    BY <1>1 DEF Sent, Message, SockInfo, Other
<1>3. m.client = c
    OBVIOUS
<1>4. Asks(up, c) \subseteq all /\ IsFiniteSet(all) /\ Cardinality(all) \in Nat
    <2>1. all \subseteq 1..Len(up) /\ Len(up) \in Nat
        BY <1>1
    <2>2. IsFiniteSet(1..Len(up))
        BY <2>1, FS_Interval
    <2> QED BY <2>1, <2>2, FS_Subset, FS_CardinalityType DEF Asks
<1> HIDE DEF m, all
<1>5. Cardinality(Asks(up, c)) <= Cardinality(all) /\ Cardinality(Asks(up, c)) \in Nat
    BY <1>1, <1>4, FS_Subset, AsksFinite
<1> HIDE DEF c
<1>6. <<m>> \in Seq(Sent)
    BY <1>2
<1>7. ASSUME NEW d \in Client PROVE asked[d] + Cardinality(Asks(up \o <<m>>, d)) <= MaxAsk
    <2>1. CASE d = c
        <3>1. Cardinality(Asks(up \o <<m>>, c)) <= Cardinality(Asks(up, c)) + 1
            BY <1>1, <1>2, OneAsk
        <3>2. Cardinality(Asks(up \o <<m>>, c)) \in Nat
            <4>1. up \o <<m>> \in Seq(Sent)
                BY <1>1, <1>6, ConcatProperties
            <4> QED BY <4>1, AsksFinite
        <3>3. asked[c] \in Nat /\ MaxAsk \in Nat
            BY <1>1, ConnAssumption DEF RequestsOK
        <3> QED BY <1>2, <1>4, <1>5, <2>1, <3>1, <3>2, <3>3
    <2>2. CASE d # c
        <3>1. Asks(<<m>>, d) = {}
            <4>1. DOMAIN <<m>> = {1} /\ <<m>>[1] = m
                OBVIOUS
            <4> QED BY <1>3, <2>2, <4>1 DEF Asks
        <3>2. Asks(up \o <<m>>, d) = Asks(up, d)
            BY <1>1, <1>6, <3>1, CloseAsks
        <3> QED BY <3>2 DEF RequestsOK, AskedOK
    <2> QED BY <2>1, <2>2
<1>8. lost' \subseteq Fd /\ UNCHANGED <<link, down>> /\ AskedOK(up', asked)
    BY <1>2, <1>6, <1>7, TransferTypes
<1> QED BY <1>2, <1>8 DEF SimpleOK, RequestsOK, AskedOK, gameVars

LEMMA CloseTypes ==
    ASSUME FdsOK, ViewType, SimpleOK, RequestsOK, (\E f \in Fd : ReadEnd(f)) \/ HeartBeatCheck
    PROVE  SimpleOK' /\ RequestsOK'
<1>1. PICK F \in SUBSET Fd : TransferMessage(CloseNotices(F))
    BY DEF ReadEnd, PeerClose, HeartBeatCheck, HeartBeatClose, Silent, Used
<1>2. \A c \in Client : asked[c] + Cardinality(Asks(up \o CloseNotices(F), c)) <= MaxAsk
    BY CloseAskNothing DEF RequestsOK, AskedOK
<1>3. lost' \subseteq Fd /\ UNCHANGED <<link, down>> /\ AskedOK(up', asked)
    BY <1>1, <1>2, CloseAskNothing, TransferTypes
<1>4. UNCHANGED <<gameVars, answered, failures>>
    BY DEF ReadEnd, HeartBeatCheck
<1>5. peer' \in [Client -> {"out", "open", "closed", "reset"}]
    BY DEF ReadEnd, HeartBeatCheck, SimpleOK
<1> QED BY <1>3, <1>4, <1>5 DEF SimpleOK, RequestsOK, AskedOK, gameVars

LEMMA SendTypes ==
    ASSUME SimpleOK, NEW r \in Response, Send(r)
    PROVE  down' \in Seq(Response)
BY DEF SimpleOK, Send

LEMMA GameMessageTypes ==
    ASSUME FdsOK, ViewType, SimpleOK, RequestsOK, GameMessage
    PROVE  SimpleOK' /\ RequestsOK'
<1> DEFINE m == Head(up)
<1>1. up \in Seq(Sent) /\ up # <<>> /\ up' = Tail(up) /\ MaxAsk \in Nat
    BY ConnAssumption DEF GameMessage, ViewType
<1>2. m \in Sent /\ up' \in Seq(Sent)
    BY <1>1, HeadTailProperties
<1>3. m.conn \in Fd /\ m.client \in Client /\ m.new \in BOOLEAN /\ m.close \in BOOLEAN
    BY <1>2 DEF Sent, Message
<1>4. ASSUME NEW c \in Client
      PROVE  /\ Cardinality(Asks(up, c)) \in Nat /\ Cardinality(Asks(up', c)) \in Nat
             /\ Cardinality(Asks(up', c)) <= Cardinality(Asks(up, c))
             /\ ~m.close /\ m.client = c =>
                    Cardinality(Asks(up', c)) + 1 <= Cardinality(Asks(up, c))
    BY <1>1, <1>2, AsksFinite, TailAsks
<1> HIDE DEF m
<1>5. \A c \in Client : asked[c] \in 0..MaxAsk /\ asked[c] + Cardinality(Asks(up, c)) <= MaxAsk
    BY DEF RequestsOK, AskedOK
<1>6. \A c \in Client : asked[c] + Cardinality(Asks(up', c)) <= MaxAsk
    BY <1>1, <1>4, <1>5
<1>7. UNCHANGED <<peer, saved, link, answered, failures>>
    BY DEF GameMessage, connVars
<1>8. CASE Refuse(m)
    <2>1. [conn |-> NoConn, client |-> m.client] \in Response
        BY <1>3 DEF Response
    <2>2. down' \in Seq(Response)
        BY <1>8, <2>1, SendTypes DEF Refuse
    <2>3. lost' \subseteq Fd /\ UNCHANGED <<sessions, asked>>
        BY <1>3, <1>8 DEF Refuse, SimpleOK
    <2> QED BY <1>6, <1>7, <2>2, <2>3 DEF SimpleOK, RequestsOK, AskedOK
<1>9. CASE Release(m)
    BY <1>6, <1>7, <1>9 DEF Release, SimpleOK, RequestsOK, AskedOK
<1>10. CASE TakeRequest(m)
    <2> DEFINE s == [conn |-> m.conn, client |-> m.client, number |-> asked[m.client] + 1]
    <2>1. ~m.close /\ UNCHANGED <<lost, down>> /\ sessions' = sessions \cup {s}
              /\ asked' = [asked EXCEPT ![m.client] = @ + 1]
        BY <1>10 DEF TakeRequest
    <2>2. /\ asked[m.client] \in Nat /\ Cardinality(Asks(up', m.client)) \in Nat
          /\ asked[m.client] + 1 + Cardinality(Asks(up', m.client)) <= MaxAsk
        BY <1>1, <1>3, <1>4, <1>5, <2>1
    <2>3. asked[m.client] + 1 \in 1..MaxAsk
        BY <1>1, <2>2
    <2>4. s \in Session
        BY <1>3, <2>3 DEF Session
    <2>5. asked \in [Client -> 0..MaxAsk]
        BY DEF RequestsOK
    <2>6. asked'[m.client] = asked[m.client] + 1
              /\ \A c \in Client \ {m.client} : asked'[c] = asked[c]
        BY <1>3, <2>1, <2>5
    <2>7. asked' \in [Client -> 0..MaxAsk]
        BY <1>1, <1>3, <2>1, <2>3, <2>5
    <2> HIDE DEF s
    <2>8. \A c \in Client : asked'[c] + Cardinality(Asks(up', c)) <= MaxAsk
        BY <1>6, <2>2, <2>6
    <2>9. sessions' \subseteq Session
        BY <2>1, <2>4 DEF RequestsOK
    <2> QED BY <1>7, <2>1, <2>7, <2>8, <2>9 DEF SimpleOK, RequestsOK, AskedOK
<1>11. Refuse(m) \/ Release(m) \/ TakeRequest(m)
    BY DEF GameMessage, m
<1> QED BY <1>8, <1>9, <1>10, <1>11

\* steps of the connections of clients that send nothing
LEMMA PeerTypes ==
    ASSUME ViewType, SimpleOK, RequestsOK,
           \/ \E f \in Fd : \/ \E c \in Client : Accept(c, f)
                            \/ Login(f) \/ BadLogin(f) \/ HeartBeat(f) \/ ReadError(f)
           \/ Tick \/ (\E c \in Client : Leave(c))
    PROVE  SimpleOK' /\ RequestsOK'
<1>1. UNCHANGED <<up, link, down, sessions, saved, asked, answered, failures>>
    BY DEF Accept, Login, BadLogin, HeartBeat, ReadError, Tick, Leave, gameVars, linkVars
<1>2. lost' \subseteq Fd
    BY DEF Accept, Login, BadLogin, HeartBeat, ReadError, Tick, Leave, linkVars, SimpleOK,
           Told, Used
<1>3. peer' \in [Client -> {"out", "open", "closed", "reset"}]
    <2>1. CASE \E f \in Fd, c \in Client : Accept(c, f)
        BY <2>1 DEF Accept, SimpleOK
    <2>2. CASE \E f \in Fd : BadLogin(f)
        BY <2>2 DEF BadLogin, SimpleOK
    <2>3. CASE \E c \in Client : Leave(c)
        BY <2>3 DEF Leave, SimpleOK
    <2>4. CASE Tick \/ \E f \in Fd : Login(f) \/ HeartBeat(f) \/ ReadError(f)
        BY <2>4 DEF Login, HeartBeat, ReadError, Tick, SimpleOK
    <2> QED BY <2>1, <2>2, <2>3, <2>4
<1> QED BY <1>1, <1>2, <1>3 DEF SimpleOK, RequestsOK, AskedOK

LEMMA AnswerTypes ==
    ASSUME FdsOK, ViewType, SimpleOK, RequestsOK,
           ConnMessage \/ \E s \in sessions : Respond(s)
    PROVE  SimpleOK' /\ RequestsOK'
<1>1. CASE ConnMessage
    <2>1. down \in Seq(Response) /\ down # <<>> /\ down' = Tail(down)
        BY <1>1 DEF ConnMessage, SimpleOK
    <2>2. down' \in Seq(Response)
        BY <2>1, HeadTailProperties
    <2>3. ASSUME NEW f \in Used(sock) PROVE sock[f].client \in Client
        BY DEF Used, ViewType, SockInfo
    <2>4. answered' \in [Client -> Nat]
        BY <1>1, <2>3 DEF ConnMessage, SimpleOK
    <2>5. UNCHANGED <<connVars, gameVars, link, up, lost, failures>>
        BY <1>1 DEF ConnMessage
    <2> QED BY <2>2, <2>4, <2>5 DEF SimpleOK, RequestsOK, AskedOK, connVars, gameVars
<1>2. ASSUME NEW s \in sessions, Respond(s) PROVE SimpleOK' /\ RequestsOK'
    <2>1. sessions' = sessions \ {s}
              /\ UNCHANGED <<connVars, conns, saved, asked, link, up, lost, answered, failures>>
        BY <1>2 DEF Respond
    <2>2. ResponseOf(s) \in Response
        BY DEF RequestsOK, Session, ResponseOf, Response
    <2>3. down' \in Seq(Response)
        BY <1>2, <2>2, SendTypes DEF Respond, SimpleOK
    <2> QED BY <2>1, <2>3 DEF SimpleOK, RequestsOK, AskedOK, connVars
<1> QED BY <1>1, <1>2

LEMMA EmptyTypes ==
    ASSUME up' = <<>>, asked \in [Client -> 0..MaxAsk], asked' = asked
    PROVE  AskedOK(up', asked')
<1>1. \A c : Asks(up', c) = {}
    BY DEF Asks
<1>2. \A c : Cardinality(Asks(up', c)) = 0
    BY <1>1, FS_EmptySet
<1>3. \A c \in Client : asked'[c] \in Nat /\ asked'[c] <= MaxAsk
    BY ConnAssumption
<1>4. \A c \in Client : asked'[c] + 0 <= MaxAsk
    BY <1>3
<1> QED BY <1>2, <1>4 DEF AskedOK

\* the connection of the servers fails, or one of them
LEMMA FailureTypes ==
    ASSUME FdsOK, ViewType, SimpleOK, RequestsOK,
           Break \/ GameRestart \/ GameCrash \/ ConnCrash
    PROVE  SimpleOK' /\ RequestsOK'
<1>1. up' = <<>> /\ down' = <<>> /\ asked' = asked /\ answered' = answered
    BY DEF Break, GameRestart, GameCrash, ConnCrash, Broken, gameVars
<1>2. link' \in [tcp: BOOLEAN, conn: BOOLEAN, game: BOOLEAN]
    <2>1. link.conn \in BOOLEAN /\ link.game \in BOOLEAN
        BY DEF SimpleOK
    <2>2. \E a, b \in BOOLEAN : link' = [tcp |-> FALSE, conn |-> a, game |-> b]
        BY <2>1 DEF Break, GameRestart, GameCrash, ConnCrash, Broken
    <2> QED BY <2>2
<1>3. down' \in Seq(Response)
    BY <1>1
<1>4. lost' \subseteq Fd
    <2>1. {up[i].conn : i \in Notices(up)} \subseteq Fd
        BY DEF ViewType, Notices, Sent, Message
    <2>2. Told \subseteq Fd /\ Used(conns) \subseteq Fd
        BY DEF Told, Used
    <2> QED BY <2>1, <2>2 DEF Break, GameRestart, GameCrash, ConnCrash, SimpleOK
<1>5. sessions' \subseteq Session /\ (saved' = Free \/ saved' = saved)
    BY DEF Break, GameRestart, GameCrash, ConnCrash, gameVars, SimpleOK, RequestsOK
<1>6. peer' \in [Client -> {"out", "open", "closed", "reset"}]
    BY DEF Break, GameRestart, GameCrash, ConnCrash, connVars, SimpleOK
<1>7. failures' \in 0..MaxFailures
    <2>1. failures' = failures \/ (failures < MaxFailures /\ failures' = failures + 1)
        BY DEF Break, GameRestart, GameCrash, ConnCrash, Fail
    <2> QED BY <2>1, ConnAssumption DEF SimpleOK
<1>8. AskedOK(up', asked')
    BY <1>1, EmptyTypes DEF RequestsOK
<1> QED BY <1>1, <1>2, <1>3, <1>4, <1>5, <1>6, <1>7, <1>8 DEF SimpleOK, RequestsOK

LEMMA NoticedTypes ==
    ASSUME FdsOK, ViewType, SimpleOK, RequestsOK,
           ConnNotices \/ GameNotices \/ Reconnect \/ GameStop \/ UNCHANGED vars
    PROVE  SimpleOK' /\ RequestsOK'
<1>1. UNCHANGED <<peer, sessions, asked, up, down, lost, answered>>
    BY DEF ConnNotices, GameNotices, Reconnect, GameStop, vars, connVars, gameVars, linkVars
<1>2. link' \in [tcp: BOOLEAN, conn: BOOLEAN, game: BOOLEAN]
    <2>1. \/ link' = link \/ link' = [link EXCEPT !.conn = FALSE]
          \/ link' = [link EXCEPT !.game = FALSE]
          \/ link' = [tcp |-> TRUE, conn |-> TRUE, game |-> TRUE]
        BY DEF ConnNotices, GameNotices, Reconnect, GameStop, vars, linkVars
    <2>2. link \in [tcp: BOOLEAN, conn: BOOLEAN, game: BOOLEAN]
        BY DEF SimpleOK
    <2>3. CASE link' = link
        BY <2>2, <2>3
    <2>4. CASE link' = [link EXCEPT !.conn = FALSE]
        BY <2>2, <2>4
    <2>5. CASE link' = [link EXCEPT !.game = FALSE]
        BY <2>2, <2>5
    <2>6. CASE link' = [tcp |-> TRUE, conn |-> TRUE, game |-> TRUE]
        BY <2>6
    <2> QED BY <2>1, <2>3, <2>4, <2>5, <2>6
<1>3. saved' = Free \/ saved' \in [conns: Conns, sessions: SUBSET Session]
    BY DEF ConnNotices, GameNotices, Reconnect, GameStop, vars, gameVars, SimpleOK, RequestsOK,
           ViewType
<1>4. failures' \in 0..MaxFailures
    BY ConnAssumption DEF ConnNotices, GameNotices, Reconnect, GameStop, Fail, vars, SimpleOK
<1> QED BY <1>1, <1>2, <1>3, <1>4 DEF SimpleOK, RequestsOK, AskedOK

LEMMA TypesInit == ASSUME Init PROVE SimpleOK /\ RequestsOK
<1>1. up = <<>> /\ asked = [c \in Client |-> 0] /\ sessions = {}
    BY DEF Init
<1>2. \A c : Asks(up, c) = {}
    BY <1>1 DEF Asks
<1>3. \A c : Cardinality(Asks(up, c)) = 0
    BY <1>2, FS_EmptySet
<1>4. RequestsOK
    BY <1>1, <1>3, ConnAssumption DEF RequestsOK, AskedOK
<1> QED BY <1>4, ConnAssumption DEF Init, SimpleOK

LEMMA TypesStep ==
    ASSUME FdsOK, ViewType, SimpleOK, RequestsOK, [Next]_vars
    PROVE  SimpleOK' /\ RequestsOK'
<1>1. CASE \/ \E f \in Fd : \/ \E c \in Client : Accept(c, f)
                            \/ Login(f) \/ BadLogin(f) \/ HeartBeat(f) \/ ReadError(f)
           \/ Tick \/ (\E c \in Client : Leave(c))
    BY <1>1, PeerTypes
<1>2. CASE \E f \in Fd : Other(f)
    BY <1>2, OtherTypes
<1>3. CASE (\E f \in Fd : ReadEnd(f)) \/ HeartBeatCheck
    BY <1>3, CloseTypes
<1>4. CASE GameMessage
    BY <1>4, GameMessageTypes
<1>5. CASE ConnMessage \/ \E s \in sessions : Respond(s)
    BY <1>5, AnswerTypes
<1>6. CASE Break \/ GameRestart \/ GameCrash \/ ConnCrash
    BY <1>6, FailureTypes
<1>7. CASE ConnNotices \/ GameNotices \/ Reconnect \/ GameStop \/ UNCHANGED vars
    BY <1>7, NoticedTypes
<1> QED BY <1>1, <1>2, <1>3, <1>4, <1>5, <1>6, <1>7 DEF Next, Conn, Game, Done

\* TypeOK, for any clients and bounds: no client is asked for more than it may,
\* of requests handled and on their way, whatever is lost, and what either map,
\* message or session says of a connection is of a client and a descriptor.
THEOREM ConnTypes ==
    ASSUME FdsOK
    PROVE  Spec => []TypeOK
<1>1. Init => ViewType /\ ViewsAgree /\ SimpleOK /\ RequestsOK
    BY ViewInit, TypesInit
<1>2. ViewType /\ ViewsAgree /\ SimpleOK /\ RequestsOK /\ [Next]_vars
          => ViewType' /\ ViewsAgree' /\ SimpleOK' /\ RequestsOK'
    BY ViewStep, TypesStep
<1>3. ViewType /\ SimpleOK /\ RequestsOK => TypeOK
    <2>1. Seq(Sent) \subseteq Seq(Message)
        BY DEF Sent
    <2> QED BY <2>1 DEF ViewType, SimpleOK, RequestsOK, TypeOK
<1> QED BY <1>1, <1>2, <1>3, PTL DEF Spec
=============================================================================
