--------------------------- MODULE ChatClient_proofs ---------------------------
(***************************************************************************)
(* Machine-checked proofs about one chat's socket client and the messages  *)
(* typed into its panel, for any messages, any ladders and any number of   *)
(* network failures and returns of the page.                               *)
(*                                                                         *)
(* Every function of the page is an operator from a page p to a page q, so *)
(* the lemmas say of each what q has of p: first the types and sockets,    *)
(* then the messages, then what still tries to connect.                    *)
(***************************************************************************)
EXTENDS ChatClient, FiniteSetTheorems, SequenceTheorems, TLAPS

-----------------------------------------------------------------------------
(* Sequences of messages *)

Has(q, m) == \E i \in DOMAIN q : q[i] = m

\* m is in q once, or not at all.
Single(q, m) == \A i, j \in DOMAIN q : q[i] = m /\ q[j] = m => i = j

LEMMA EmptyHas == ASSUME NEW m PROVE ~Has(<<>>, m) /\ Single(<<>>, m)
  BY DEF Has, Single

LEMMA OneHas ==
    ASSUME NEW S, NEW x \in S, NEW m
    PROVE  <<x>> \in Seq(S) /\ (Has(<<x>>, m) <=> x = m) /\ Single(<<x>>, m)
  BY DEF Has, Single

LEMMA AppendHas ==
    ASSUME NEW S, NEW q \in Seq(S), NEW x \in S, NEW m
    PROVE  /\ Append(q, x) \in Seq(S)
           /\ Has(Append(q, x), m) <=> Has(q, m) \/ x = m
           /\ Single(q, m) /\ (x = m => ~Has(q, m)) => Single(Append(q, x), m)
<1> DEFINE r == Append(q, x)
<1>1. r \in Seq(S) /\ Len(r) = Len(q) + 1 /\ Len(q) \in Nat
  OBVIOUS
<1>2. r[Len(q) + 1] = x /\ \A i \in 1..Len(q) : r[i] = q[i]
  OBVIOUS
<1>3. DOMAIN q = 1..Len(q) /\ DOMAIN r = 1..(Len(q) + 1)
  BY <1>1
<1> HIDE DEF r
<1>4. Has(r, m) <=> Has(q, m) \/ x = m
  BY <1>1, <1>2, <1>3 DEF Has
<1>5. ASSUME Single(q, m), x = m => ~Has(q, m)
      PROVE  Single(r, m)
  BY <1>1, <1>2, <1>3, <1>5 DEF Has, Single
<1> QED
  BY <1>1, <1>4, <1>5 DEF r

LEMMA ConcatHas ==
    ASSUME NEW S, NEW q \in Seq(S), NEW u \in Seq(S), NEW m
    PROVE  /\ q \o u \in Seq(S)
           /\ Has(q \o u, m) <=> Has(q, m) \/ Has(u, m)
           /\ Single(q, m) /\ Single(u, m) /\ ~(Has(q, m) /\ Has(u, m)) => Single(q \o u, m)
<1> DEFINE r == q \o u
<1>1. r \in Seq(S) /\ Len(r) = Len(q) + Len(u) /\ Len(q) \in Nat /\ Len(u) \in Nat
  OBVIOUS
<1>2. /\ \A i \in 1..Len(q) : r[i] = q[i]
      /\ \A i \in 1..Len(u) : r[Len(q) + i] = u[i]
  OBVIOUS
<1>3. DOMAIN q = 1..Len(q) /\ DOMAIN u = 1..Len(u) /\ DOMAIN r = 1..(Len(q) + Len(u))
  BY <1>1
<1> HIDE DEF r
<1>4. \A i \in DOMAIN r : (i \in DOMAIN q /\ r[i] = q[i])
                          \/ (i - Len(q) \in DOMAIN u /\ r[i] = u[i - Len(q)] /\ i \notin DOMAIN q)
  <2> TAKE i \in DOMAIN r
  <2>1. CASE i <= Len(q)
    BY <1>1, <1>2, <1>3, <2>1
  <2>2. CASE i > Len(q)
    <3> DEFINE k == i - Len(q)
    <3>1. k \in 1..Len(u) /\ Len(q) + k = i
      BY <1>1, <1>3, <2>2
    <3> QED
      BY <1>1, <1>2, <1>3, <2>2, <3>1
  <2> QED
    BY <1>1, <1>3, <2>1, <2>2
<1>5. Has(r, m) <=> Has(q, m) \/ Has(u, m)
  <2>1. Has(r, m) => Has(q, m) \/ Has(u, m)
    BY <1>4 DEF Has
  <2>2. Has(q, m) => Has(r, m)
    BY <1>1, <1>2, <1>3 DEF Has
  <2>3. Has(u, m) => Has(r, m)
    <3> SUFFICES ASSUME NEW i \in DOMAIN u, u[i] = m
                 PROVE  Has(r, m)
      BY DEF Has
    <3>1. Len(q) + i \in DOMAIN r /\ r[Len(q) + i] = m
      BY <1>1, <1>2, <1>3
    <3> QED
      BY <3>1 DEF Has
  <2> QED
    BY <2>1, <2>2, <2>3
<1>6. ASSUME Single(q, m), Single(u, m), ~(Has(q, m) /\ Has(u, m))
      PROVE  Single(r, m)
  <2> SUFFICES ASSUME NEW i \in DOMAIN r, NEW j \in DOMAIN r, r[i] = m, r[j] = m
               PROVE  i = j
    BY DEF Single
  <2>1. CASE i \in DOMAIN q /\ j \in DOMAIN q
    BY <1>3, <1>2, <1>6, <2>1 DEF Single
  <2>2. CASE i \notin DOMAIN q /\ j \notin DOMAIN q
    <3>1. i - Len(q) \in DOMAIN u /\ u[i - Len(q)] = m /\ j - Len(q) \in DOMAIN u /\ u[j - Len(q)] = m
      BY <1>4, <2>2
    <3>2. i - Len(q) = j - Len(q)
      BY <1>6, <3>1 DEF Single
    <3> QED
      BY <1>1, <1>3, <3>2
  <2>3. CASE (i \in DOMAIN q /\ j \notin DOMAIN q) \/ (i \notin DOMAIN q /\ j \in DOMAIN q)
    <3>1. Has(q, m) /\ Has(u, m)
      BY <1>4, <2>3 DEF Has
    <3> QED
      BY <1>6, <3>1
  <2> QED
    BY <2>1, <2>2, <2>3
<1> QED
  BY <1>1, <1>5, <1>6 DEF r

LEMMA TailHas ==
    ASSUME NEW S, NEW q \in Seq(S), q # <<>>, NEW m
    PROVE  /\ Head(q) \in S /\ Tail(q) \in Seq(S) /\ Has(q, Head(q))
           /\ Has(Tail(q), m) => Has(q, m)
           /\ Single(q, m) => Single(Tail(q), m) /\ (Head(q) = m => ~Has(Tail(q), m))
<1>1. /\ Head(q) \in S /\ Tail(q) \in Seq(S) /\ Head(q) = q[1] /\ Len(q) \in Nat /\ Len(q) > 0
      /\ Len(Tail(q)) = Len(q) - 1 /\ \A i \in 1..(Len(q) - 1) : Tail(q)[i] = q[i + 1]
  OBVIOUS
<1> DEFINE t == Tail(q)
<1>2. DOMAIN q = 1..Len(q) /\ DOMAIN t = 1..(Len(q) - 1)
  BY <1>1
<1>3. \A i \in DOMAIN t : i + 1 \in DOMAIN q /\ t[i] = q[i + 1] /\ i + 1 # 1
  BY <1>1, <1>2
<1>4. 1 \in DOMAIN q
  BY <1>1, <1>2
<1> HIDE DEF t
<1>5. Has(q, Head(q))
  BY <1>1, <1>4 DEF Has
<1>6. Has(t, m) => Has(q, m)
  BY <1>3 DEF Has
<1>7. ASSUME Single(q, m) PROVE Single(t, m)
  BY <1>2, <1>3, <1>7 DEF Single
<1>8. ASSUME Single(q, m), Head(q) = m PROVE ~Has(t, m)
  BY <1>1, <1>3, <1>4, <1>8 DEF Single, Has
<1> QED
  BY <1>1, <1>5, <1>6, <1>7, <1>8 DEF t

LEMMA RemoveAtHas ==
    ASSUME NEW S, NEW q \in Seq(S), NEW k \in DOMAIN q, NEW m
    PROVE  /\ RemoveAt(q, k) \in Seq(S) /\ q[k] \in S /\ Has(q, q[k])
           /\ Has(RemoveAt(q, k), m) => Has(q, m)
           /\ Single(q, m) => Single(RemoveAt(q, k), m) /\ (q[k] = m => ~Has(RemoveAt(q, k), m))
<1> DEFINE a == SubSeq(q, 1, k - 1)
           b == SubSeq(q, k + 1, Len(q))
           r == RemoveAt(q, k)
<1>1. Len(q) \in Nat /\ DOMAIN q = 1..Len(q) /\ k \in 1..Len(q) /\ q[k] \in S
  OBVIOUS
<1>2. /\ a \in Seq(S) /\ Len(a) = k - 1 /\ \A i \in 1..(k - 1) : a[i] = q[i]
  BY <1>1, SubSeqProperties
<1>3. /\ b \in Seq(S) /\ Len(b) = Len(q) - k /\ \A i \in 1..(Len(q) - k) : b[i] = q[k + i]
  BY <1>1, SubSeqProperties
<1>4. r = a \o b
  BY DEF RemoveAt
<1> HIDE DEF a, b, r
<1>5. DOMAIN a = 1..(k - 1) /\ DOMAIN b = 1..(Len(q) - k)
  BY <1>1, <1>2, <1>3
<1>6. \A i \in DOMAIN a : i \in DOMAIN q /\ a[i] = q[i] /\ i < k
  BY <1>1, <1>2, <1>5
<1>7. \A i \in DOMAIN b : k + i \in DOMAIN q /\ b[i] = q[k + i] /\ k + i > k
  BY <1>1, <1>3, <1>5
<1>8. /\ r \in Seq(S)
      /\ Has(r, m) <=> Has(a, m) \/ Has(b, m)
      /\ Single(a, m) /\ Single(b, m) /\ ~(Has(a, m) /\ Has(b, m)) => Single(r, m)
  BY <1>2, <1>3, <1>4, ConcatHas
<1>9. Has(q, q[k])
  BY <1>1 DEF Has
<1>10. Has(r, m) => Has(q, m)
  BY <1>6, <1>7, <1>8 DEF Has
<1>11. ASSUME Single(q, m)
       PROVE  /\ Single(a, m) /\ Single(b, m) /\ ~(Has(a, m) /\ Has(b, m))
              /\ q[k] = m => ~Has(a, m) /\ ~Has(b, m)
  <2>1. Single(a, m)
    BY <1>6, <1>11 DEF Single
  <2>2. Single(b, m)
    BY <1>1, <1>5, <1>7, <1>11 DEF Single
  <2>3. ~(Has(a, m) /\ Has(b, m))
    BY <1>1, <1>5, <1>6, <1>7, <1>11 DEF Single, Has
  <2>4. q[k] = m => ~Has(a, m) /\ ~Has(b, m)
    BY <1>1, <1>5, <1>6, <1>7, <1>11 DEF Single, Has
  <2> QED
    BY <2>1, <2>2, <2>3, <2>4
<1> QED
  BY <1>1, <1>8, <1>9, <1>10, <1>11 DEF r

-----------------------------------------------------------------------------
(* What an operator does to a page *)

Live == {"connecting", "open"}

Free(p) == \E s \in Sock : p.sock[s] \in {"none", "closed"}

\* Only the client's own socket is alive, and nobody has muted it.
Current(p) ==
    /\ \A s \in Sock : p.sock[s] \in Live => s = p.ws
    /\ p.ws \notin p.muted

\* The user has left the chat and no resync has opened it again.
Left(p) == p.closedByUser /\ p.ws = 0

\* q has the sockets of p and what they and the queues carry.
SameWires(p, q) ==
    /\ q.sock = p.sock /\ q.out = p.out /\ q.ws = p.ws /\ q.muted = p.muted
    /\ q.connected = p.connected /\ q.resyncing = p.resyncing /\ q.resyncs = p.resyncs
    /\ q.eventQueue = p.eventQueue /\ q.checks = p.checks /\ q.queue = p.queue
    /\ q.reported = p.reported

LEMMA SockIsNat == Sock \subseteq Nat \ {0}
  BY ClientAssumption DEF Sock

\* The next rung, or the end of the ladder, which starts the revive poll.
LEMMA ScheduleDoes ==
    ASSUME NEW p \in Page
    PROVE  LET q == ScheduleReconnect(p) IN
           /\ q \in Page /\ SameWires(p, q)
           /\ q.closedByUser = p.closedByUser /\ q.turnActive = p.turnActive
           /\ q.isStreaming = p.isStreaming /\ q.hold = p.hold /\ q.flushed = p.flushed
           /\ p.closedByUser => q = p
           /\ ~p.closedByUser => q.ladder > 0 \/ q.revive
<1> DEFINE q == ScheduleReconnect(p)
<1>1. CASE p.closedByUser
  <2>1. q = p
    BY <1>1 DEF ScheduleReconnect
  <2> QED
    BY <1>1, <2>1 DEF SameWires
<1>2. CASE ~p.closedByUser /\ p.attempt >= Rungs(p)
  <2>1. q = OnClose([p EXCEPT !.state = "failed", !.attempt = 0, !.revive = TRUE])
    BY <1>2 DEF ScheduleReconnect
  <2>2. PICK a \in 0..LongRungs + ShortRungs : a = 0
    BY ClientAssumption
  <2>3. q = [p EXCEPT !.state = "failed", !.attempt = a, !.revive = TRUE]
    BY <2>1, <2>2 DEF OnClose, Page
  <2> HIDE DEF q
  <2>4. q \in Page
    BY <2>3 DEF Page
  <2> QED
    BY <1>2, <2>3, <2>4 DEF SameWires, Page, q
<1>3. CASE ~p.closedByUser /\ ~(p.attempt >= Rungs(p))
  <2>1. q = [p EXCEPT !.attempt = @ + 1, !.state = "connecting", !.ladder = @ + 1]
    BY <1>3 DEF ScheduleReconnect
  <2>2. PICK a \in 0..LongRungs + ShortRungs, l \in Nat : a = p.attempt + 1 /\ l = p.ladder + 1
    BY <1>3, ClientAssumption DEF Page, Rungs
  <2>3. q = [p EXCEPT !.attempt = a, !.state = "connecting", !.ladder = l]
    BY <2>1, <2>2
  <2>4. l > 0
    BY <2>2 DEF Page
  <2> HIDE DEF q
  <2>5. q \in Page
    BY <2>3 DEF Page
  <2> QED
    BY <1>3, <2>3, <2>4, <2>5 DEF SameWires, Page, q
<1> QED
  BY <1>1, <1>2, <1>3

\* connect finds a socket in use, has to wait for the next attempt, or dials
\* anew.
Dials(p, q) ==
    \E s \in Sock :
        /\ p.sock[s] \in {"none", "closed"}
        /\ q = [p EXCEPT !.closedByUser = FALSE, !.state = "connecting", !.ws = s,
                         !.sock[s] = "connecting", !.out[s] = <<>>, !.muted = @ \ {s}]

LEMMA ConnectDoes ==
    ASSUME NEW p \in Page, NeedsSocket(p) => Free(p)
    PROVE  LET q == Connect(p) IN
           /\ q \in Page
           /\ \/ ~NeedsSocket(p) /\ q = p
              \/ /\ NeedsSocket(p) /\ SameWires(p, q)
                 /\ ~q.closedByUser /\ q.turnActive = p.turnActive
                 /\ q.ladder > 0 \/ q.revive
              \/ NeedsSocket(p) /\ Dials(p, q)
<1> DEFINE q == Connect(p)
<1>1. CASE ~NeedsSocket(p)
  BY <1>1 DEF Connect
<1>2. CASE NeedsSocket(p) /\ net = "frozen"
  <2> DEFINE r == [p EXCEPT !.closedByUser = FALSE, !.state = "failed"]
  <2>1. r \in Page /\ SameWires(p, r) /\ ~r.closedByUser /\ r.turnActive = p.turnActive
    BY DEF Page, SameWires
  <2>2. q = ScheduleReconnect(r)
    BY <1>2 DEF Connect
  <2> HIDE DEF r, q
  <2>3. /\ q \in Page /\ SameWires(r, q) /\ ~q.closedByUser /\ q.turnActive = r.turnActive
        /\ q.ladder > 0 \/ q.revive
    BY <2>1, <2>2, ScheduleDoes
  <2> QED
    BY <1>2, <2>1, <2>3 DEF SameWires, q
<1>3. CASE NeedsSocket(p) /\ net # "frozen"
  <2> DEFINE s == CHOOSE n \in Sock : p.sock[n] \in {"none", "closed"}
  <2>1. s \in Sock /\ p.sock[s] \in {"none", "closed"}
    BY <1>3 DEF Free
  <2>2. q = [p EXCEPT !.closedByUser = FALSE, !.state = "connecting", !.ws = s,
                      !.sock[s] = "connecting", !.out[s] = <<>>, !.muted = @ \ {s}]
    BY <1>3 DEF Connect
  <2> HIDE DEF s, q
  <2>3. /\ p.sock \in [Sock -> {"none", "connecting", "open", "closing", "closed"}]
        /\ p.out \in [Sock -> Seq(Frame)] /\ p.muted \in SUBSET Sock /\ <<>> \in Seq(Frame)
    BY DEF Page
  <2>4. q \in Page
    BY <2>1, <2>2, <2>3 DEF Page
  <2> QED
    BY <1>3, <2>1, <2>2, <2>4 DEF Dials, q
<1> QED
  BY <1>1, <1>2, <1>3

-----------------------------------------------------------------------------
(* What the invariants say of a page *)

\* A chat that was left waits for nothing but late closes and resync timers.
Quiet(p) == Left(p) => ~p.revive /\ ~p.connected /\ p.checks = {}

Sound(p) == p \in Page /\ Current(p) /\ Quiet(p)

Closing(p) == {s \in Sock : p.sock[s] = "closing"}

Sent(p, m) == \E s \in Sock : Has(p.out[s], m)

\* The page carries m in one place at most.
Once(p, m) ==
    /\ Single(p.queue, m) /\ Single(p.eventQueue, m) /\ \A s \in Sock : Single(p.out[s], m)
    /\ \A s, t \in Sock : Has(p.out[s], m) /\ Has(p.out[t], m) => s = t
    /\ m \in p.checks => ~Has(p.queue, m) /\ ~Has(p.eventQueue, m)
    /\ Has(p.queue, m) => ~Has(p.eventQueue, m)
    /\ Sent(p, m) => m \notin p.checks /\ ~Has(p.queue, m) /\ ~Has(p.eventQueue, m)

Nowhere(p, m) ==
    m \notin p.checks /\ ~Has(p.queue, m) /\ ~Has(p.eventQueue, m) /\ ~Sent(p, m)

\* From p to q, m has not been doubled and has not come from nowhere.
Tame(p, q, m) == (Once(p, m) => Once(q, m)) /\ (Nowhere(p, m) => Nowhere(q, m))

\* From p to q, m has not been doubled if it was nowhere.
Places1(p, q, m) == Nowhere(p, m) => Once(q, m)

\* A socket whose close will be heard.
Heard(p) == \E s \in Sock \ p.muted : p.sock[s] \in {"open", "closing"}

Linked(p) == (p.connected => Heard(p)) /\ (p.resyncing => p.resyncs > 0)

Alive(p) ==
    \/ p.ladder > 0 \/ p.resyncs > 0 \/ p.revive
    \/ \E s \in Sock \ p.muted : p.sock[s] \in {"connecting", "open", "closing"}

Retries(p) == p.turnActive /\ ~p.closedByUser => Alive(p)

\* Nothing of a that is not in b, and nothing twice.
Less(a, b, m) == (Has(b, m) => Has(a, m)) /\ (Single(a, m) => Single(b, m))

LEMMA LessSame == ASSUME NEW a, NEW m PROVE Less(a, a, m) /\ Less(a, <<>>, m)
  BY EmptyHas DEF Less

LEMMA FewerTame ==
    ASSUME NEW p, NEW q, NEW m,
           m \in q.checks => m \in p.checks,
           Less(p.queue, q.queue, m), Less(p.eventQueue, q.eventQueue, m),
           \A s \in Sock : Less(p.out[s], q.out[s], m)
    PROVE  Tame(p, q, m)
<1>1. Sent(q, m) => Sent(p, m)
  BY DEF Sent, Less
<1>2. ASSUME Once(p, m) PROVE Once(q, m)
  BY <1>1, <1>2 DEF Once, Less
<1>3. ASSUME Nowhere(p, m) PROVE Nowhere(q, m)
  BY <1>1, <1>3 DEF Nowhere, Less
<1> QED
  BY <1>2, <1>3 DEF Tame

LEMMA NowhereOnce == ASSUME NEW p, NEW m, Nowhere(p, m) PROVE Once(p, m)
  BY DEF Nowhere, Once, Sent, Single, Has

LEMMA TameTrans ==
    ASSUME NEW p, NEW q, NEW r, NEW m, Tame(p, q, m)
    PROVE  /\ Tame(q, r, m) => Tame(p, r, m)
           /\ Places1(q, r, m) => Places1(p, r, m)
  BY DEF Tame, Places1

LEMMA SameTame ==
    ASSUME NEW p, NEW q, NEW m, q.checks = p.checks, q.queue = p.queue,
           q.eventQueue = p.eventQueue, q.out = p.out
    PROVE  Tame(p, q, m)
<1>1. \A s \in Sock : Less(p.out[s], q.out[s], m)
  BY LessSame
<1>2. Less(p.queue, q.queue, m) /\ Less(p.eventQueue, q.eventQueue, m)
  BY LessSame
<1> QED
  BY <1>1, <1>2, FewerTame

\* What an operator that runs on an open chat keeps of it.
Kept(p, q) ==
    /\ Sound(q) /\ ~Left(q)
    /\ Closing(q) = Closing(p) /\ q.resyncs = p.resyncs /\ q.reported = p.reported
    /\ Linked(p) => Linked(q)

LEMMA WiresKept ==
    ASSUME NEW p, NEW q \in Page, Sound(p), SameWires(p, q), ~Left(q)
    PROVE  Kept(p, q) /\ \A m : Tame(p, q, m)
<1>1. \A m : Tame(p, q, m)
  BY SameTame DEF SameWires
<1>2. Sound(q)
  BY DEF Sound, SameWires, Current, Quiet
<1>3. Closing(q) = Closing(p)
  BY DEF Closing, SameWires
<1>4. Linked(p) => Linked(q)
  BY DEF Linked, Heard, SameWires
<1> QED
  BY <1>1, <1>2, <1>3, <1>4 DEF Kept, SameWires

\* connect, on a page that has a socket to spare.
LEMMA ConnectKeeps ==
    ASSUME NEW p, Sound(p), NeedsSocket(p) => Free(p)
    PROVE  LET q == Connect(p) IN
           /\ Kept(p, q) /\ Retries(q)
           /\ q.turnActive = p.turnActive /\ q.checks = p.checks /\ q.queue = p.queue
           /\ q.eventQueue = p.eventQueue
           /\ \A m : Tame(p, q, m)
<1> DEFINE q == Connect(p)
<1>0. p \in Page /\ Current(p)
  BY DEF Sound
<1>1. /\ q \in Page
      /\ \/ ~NeedsSocket(p) /\ q = p
         \/ /\ NeedsSocket(p) /\ SameWires(p, q)
            /\ ~q.closedByUser /\ q.turnActive = p.turnActive
            /\ q.ladder > 0 \/ q.revive
         \/ NeedsSocket(p) /\ Dials(p, q)
  BY <1>0, ConnectDoes
<1> HIDE DEF q
<1>2. CASE ~NeedsSocket(p) /\ q = p
  <2>1. p.ws # 0 /\ p.ws \in Sock /\ p.sock[p.ws] \in {"connecting", "open"} /\ p.ws \notin p.muted
    BY <1>0, <1>2 DEF NeedsSocket, Ready, Page, Current
  <2>2. ~Left(q) /\ Alive(q)
    BY <1>2, <2>1 DEF Left, Alive
  <2>3. SameWires(p, q)
    BY <1>2 DEF SameWires
  <2>4. Kept(p, q) /\ \A m : Tame(p, q, m)
    BY <1>1, <2>2, <2>3, WiresKept
  <2> QED
    BY <1>2, <2>2, <2>4 DEF Retries, q
<1>3. CASE /\ SameWires(p, q) /\ ~q.closedByUser /\ q.turnActive = p.turnActive
           /\ q.ladder > 0 \/ q.revive
  <2>1. ~Left(q) /\ Alive(q)
    BY <1>3 DEF Left, Alive
  <2>2. Kept(p, q) /\ \A m : Tame(p, q, m)
    BY <1>1, <1>3, <2>1, WiresKept
  <2> QED
    BY <1>3, <2>1, <2>2 DEF Retries, SameWires, q
<1>4. CASE NeedsSocket(p) /\ Dials(p, q)
  <2>1. PICK s \in Sock :
          /\ p.sock[s] \in {"none", "closed"}
          /\ q = [p EXCEPT !.closedByUser = FALSE, !.state = "connecting", !.ws = s,
                           !.sock[s] = "connecting", !.out[s] = <<>>, !.muted = @ \ {s}]
    BY <1>4 DEF Dials
  <2>2. /\ q.closedByUser = FALSE /\ q.ws = s /\ q.muted = p.muted \ {s}
        /\ q.sock = [p.sock EXCEPT ![s] = "connecting"] /\ q.out = [p.out EXCEPT ![s] = <<>>]
        /\ q.connected = p.connected /\ q.resyncing = p.resyncing /\ q.resyncs = p.resyncs
        /\ q.turnActive = p.turnActive /\ q.checks = p.checks /\ q.queue = p.queue
        /\ q.eventQueue = p.eventQueue /\ q.reported = p.reported
    BY <1>0, <2>1 DEF Page
  <2>3. /\ \A t \in Sock : q.sock[t] = IF t = s THEN "connecting" ELSE p.sock[t]
        /\ \A t \in Sock : q.out[t] = IF t = s THEN <<>> ELSE p.out[t]
    BY <1>0, <2>2 DEF Page
  <2>4. \A t \in Sock : p.sock[t] \notin Live
    <3> SUFFICES ASSUME NEW t \in Sock, p.sock[t] \in Live
                 PROVE  FALSE
      OBVIOUS
    <3>1. p.ws = t /\ t # 0
      BY <1>0, SockIsNat DEF Current
    <3> QED
      BY <1>4, <3>1 DEF NeedsSocket, Ready, Live
  <2>5. Current(q)
    BY <2>2, <2>3, <2>4 DEF Current
  <2>6. ~Left(q)
    BY <2>2 DEF Left
  <2>7. Closing(q) = Closing(p)
    BY <2>1, <2>3 DEF Closing
  <2>8. Linked(p) => Linked(q)
    BY <2>1, <2>2, <2>3 DEF Linked, Heard
  <2>9. Alive(q)
    BY <2>2, <2>3 DEF Alive
  <2>10. \A m : Tame(p, q, m)
    <3> TAKE m
    <3>1. \A t \in Sock : Less(p.out[t], q.out[t], m)
      BY <2>3, LessSame
    <3> QED
      BY <2>2, <3>1, FewerTame, LessSame
  <2> QED
    BY <1>1, <2>2, <2>5, <2>6, <2>7, <2>8, <2>9, <2>10 DEF Kept, Sound, Quiet, Retries, q
<1> QED
  BY <1>1, <1>2, <1>3, <1>4

\* onopen: the frames that waited are on the socket, each once.
LEMMA OpenKeeps ==
    ASSUME NEW p, Sound(p), NEW s \in Sock, p.sock[s] = "connecting", TypeOK
    PROVE  LET q == OnOpen(p, s) IN
           Kept(p, q) /\ Retries(q) /\ \A m \in Msg : Tame(p, q, m)
<1> DEFINE q == OnOpen(p, s)
<1>0. p \in Page /\ Current(p) /\ s = p.ws /\ s \notin p.muted /\ s # 0
  BY SockIsNat DEF Sound, Current, Live
<1>1. PICK n \in Nat : n = Len(feed)
  BY DEF TypeOK
<1>2. PICK a \in 0..LongRungs + ShortRungs : a = 0
  BY ClientAssumption
<1>3. PICK o \in Seq(Frame) : o = p.out[s] \o p.eventQueue
  <2>1. p.out[s] \in Seq(Frame) /\ p.eventQueue \in Seq(Frame)
    BY <1>0 DEF Page, Frame
  <2>2. p.out[s] \o p.eventQueue \in Seq(Frame)
    BY <2>1
  <2> QED
    BY <2>2
<1>4. q = [p EXCEPT !.sock[s] = "open", !.connected = TRUE, !.state = "open", !.attempt = a,
                    !.revive = FALSE, !.replay = n, !.out[s] = o, !.eventQueue = <<>>]
  BY <1>0, <1>1, <1>2, <1>3 DEF OnOpen, Page
<1> HIDE DEF q
<1>5. /\ q.closedByUser = p.closedByUser /\ q.ws = p.ws /\ q.muted = p.muted
      /\ q.sock = [p.sock EXCEPT ![s] = "open"] /\ q.out = [p.out EXCEPT ![s] = o]
      /\ q.resyncing = p.resyncing /\ q.resyncs = p.resyncs
      /\ q.checks = p.checks /\ q.queue = p.queue
      /\ q.eventQueue = <<>> /\ q.reported = p.reported
  BY <1>0, <1>4 DEF Page
<1>6. /\ \A t \in Sock : q.sock[t] = IF t = s THEN "open" ELSE p.sock[t]
      /\ \A t \in Sock : q.out[t] = IF t = s THEN o ELSE p.out[t]
  BY <1>0, <1>5 DEF Page
<1>7. q \in Page
  <2>1. <<>> \in Seq(Msg) /\ p.sock \in [Sock -> {"none", "connecting", "open", "closing", "closed"}]
        /\ p.out \in [Sock -> Seq(Frame)]
    BY <1>0 DEF Page
  <2> QED
    BY <1>0, <1>4, <2>1 DEF Page
<1>8. Current(q) /\ ~Left(q) /\ Closing(q) = Closing(p)
  BY <1>0, <1>5, <1>6 DEF Current, Left, Closing, Live
<1>9. Heard(q) /\ Alive(q)
  BY <1>0, <1>5, <1>6 DEF Heard, Alive
<1>10. Linked(p) => Linked(q)
  BY <1>5, <1>9 DEF Linked
<1>11. \A m \in Msg : Tame(p, q, m)
  <2> TAKE m \in Msg
  <2>1. p.out[s] \in Seq(Frame) /\ p.eventQueue \in Seq(Frame)
    BY <1>0 DEF Page, Frame
  <2>2. /\ Has(o, m) <=> Has(p.out[s], m) \/ Has(p.eventQueue, m)
        /\ Single(p.out[s], m) /\ Single(p.eventQueue, m)
             /\ ~(Has(p.out[s], m) /\ Has(p.eventQueue, m)) => Single(o, m)
    BY <1>3, <2>1, ConcatHas
  <2>3. ~Has(q.eventQueue, m) /\ Single(q.eventQueue, m)
    BY <1>5, EmptyHas
  <2>4. Sent(q, m) <=> Sent(p, m) \/ Has(p.eventQueue, m)
    BY <1>6, <2>2 DEF Sent
  <2>5. ASSUME Once(p, m) PROVE Once(q, m)
    <3>1. \A t \in Sock : Single(q.out[t], m)
      BY <1>6, <2>2, <2>5 DEF Once, Sent
    <3>2. \A t, u \in Sock : Has(q.out[t], m) /\ Has(q.out[u], m) => t = u
      BY <1>6, <2>2, <2>5 DEF Once, Sent
    <3> QED
      BY <1>5, <2>3, <2>4, <2>5, <3>1, <3>2 DEF Once
  <2>6. ASSUME Nowhere(p, m) PROVE Nowhere(q, m)
    BY <1>5, <2>3, <2>4, <2>6 DEF Nowhere
  <2> QED
    BY <2>5, <2>6 DEF Tame
<1> QED
  BY <1>5, <1>7, <1>8, <1>9, <1>10, <1>11 DEF Kept, Sound, Quiet, Retries, q

\* What any page v has that comes of a close of p's socket s.
Closes(p, s, v) ==
    /\ v \in Page
    /\ v.sock = [p.sock EXCEPT ![s] = "closed"] /\ v.out = [p.out EXCEPT ![s] = <<>>]
    /\ v.ws = p.ws /\ v.muted = p.muted
    /\ v.closedByUser = p.closedByUser /\ v.resyncing = p.resyncing
    /\ v.resyncs = p.resyncs /\ v.turnActive = p.turnActive
    /\ v.eventQueue = p.eventQueue /\ v.checks = p.checks /\ v.queue = p.queue
    /\ v.reported = p.reported
    /\ v.connected => p.connected /\ s \in p.muted
    /\ Left(p) => v.revive = p.revive
    /\ Retries(p) /\ Linked(p) => Retries(v)

\* onclose of any socket: what it carried is gone, and an active turn tries
\* again.
LEMMA ClosedKeeps ==
    ASSUME NEW p, Sound(p), NEW s \in Sock, p.sock[s] \in {"connecting", "open", "closing"}
    PROVE  LET q == OnClosed(p, s) IN
           /\ Sound(q) /\ (Left(q) <=> Left(p))
           /\ Closing(q) = Closing(p) \ {s} /\ q.resyncs = p.resyncs /\ q.reported = p.reported
           /\ Linked(p) => Linked(q) /\ (Retries(p) => Retries(q))
           /\ \A m : Tame(p, q, m)
<1> DEFINE q == OnClosed(p, s)
           r == [p EXCEPT !.sock[s] = "closed", !.out[s] = <<>>]
           c == [p EXCEPT !.sock[s] = "closed", !.out[s] = <<>>, !.connected = FALSE, !.replay = 0]
<1>0. p \in Page /\ Current(p)
  BY DEF Sound
<1>00. <<>> \in Seq(Frame) /\ p.sock \in [Sock -> {"none", "connecting", "open", "closing", "closed"}]
       /\ p.out \in [Sock -> Seq(Frame)] /\ 0 \in Nat
  BY <1>0 DEF Page
<1>3. Closes(p, s, q)
  <2>1. CASE s \in p.muted
    <3>1. q = r
      BY <2>1 DEF OnClosed
    <3>2. r \in Page
      <4> DEFINE x == r
      <4>1. x = [p EXCEPT !.sock[s] = "closed", !.out[s] = <<>>]
        OBVIOUS
      <4> HIDE DEF x
      <4>2. x \in Page
        BY <1>0, <1>00, <4>1 DEF Page
      <4> QED
        BY <4>2 DEF x
    <3>3. Retries(p) => Retries(r)
      BY <1>0, <2>1 DEF Retries, Alive, Page
    <3> QED
      BY <1>0, <2>1, <3>1, <3>2, <3>3 DEF Page, Closes
  <2>2. CASE s \notin p.muted
    <3>1. c \in Page
      <4> DEFINE x == c
      <4>1. x = [p EXCEPT !.sock[s] = "closed", !.out[s] = <<>>, !.connected = FALSE, !.replay = 0]
        OBVIOUS
      <4> HIDE DEF x
      <4>2. x \in Page
        BY <1>0, <1>00, <4>1 DEF Page
      <4> QED
        BY <4>2 DEF x
    <3>2. /\ c.sock = [p.sock EXCEPT ![s] = "closed"] /\ c.out = [p.out EXCEPT ![s] = <<>>]
          /\ c.ws = p.ws /\ c.muted = p.muted /\ c.revive = p.revive /\ c.ladder = p.ladder
          /\ c.closedByUser = p.closedByUser /\ c.resyncing = p.resyncing
          /\ c.resyncs = p.resyncs /\ c.turnActive = p.turnActive
          /\ c.eventQueue = p.eventQueue /\ c.checks = p.checks /\ c.queue = p.queue
          /\ c.reported = p.reported /\ ~c.connected
      BY <1>0 DEF Page
    <3>3. CASE p.closedByUser \/ p.resyncing
      <4>1. q = [c EXCEPT !.state = "idle"]
        BY <2>2, <3>3 DEF OnClosed
      <4> HIDE DEF c, q
      <4>2. /\ q \in Page /\ SameWires(c, q) /\ q.closedByUser = c.closedByUser
            /\ q.revive = c.revive /\ q.turnActive = c.turnActive
        BY <3>1, <4>1 DEF Page, SameWires
      <4>3. Retries(p) /\ Linked(p) => Retries(q)
        BY <3>2, <3>3, <4>2 DEF Retries, Alive, Linked, SameWires
      <4>4. Closes(p, s, q)
        BY <3>2, <4>2, <4>3 DEF SameWires, Closes
      <4> QED
        BY <4>4
    <3>4. CASE ~(p.closedByUser \/ p.resyncing) /\ (p.turnActive \/ p.connected \/ p.attempt = 0)
      <4>1. q = ScheduleReconnect(c)
        BY <2>2, <3>4 DEF OnClosed
      <4> HIDE DEF c, q
      <4>2. /\ q \in Page /\ SameWires(c, q) /\ q.closedByUser = c.closedByUser
            /\ q.turnActive = c.turnActive
            /\ q.ladder > 0 \/ q.revive
        BY <3>1, <3>2, <3>4, <4>1, ScheduleDoes
      <4>3. Retries(q) /\ ~Left(p)
        BY <3>4, <4>2 DEF Retries, Alive, Left
      <4>4. Closes(p, s, q)
        BY <3>2, <4>2, <4>3 DEF SameWires, Closes
      <4> QED
        BY <4>4
    <3>5. CASE ~(p.closedByUser \/ p.resyncing) /\ ~(p.turnActive \/ p.connected \/ p.attempt = 0)
      <4>1. q = OnClose(PanelError([c EXCEPT !.state = "failed"]))
        BY <2>2, <3>5 DEF OnClosed
      <4> HIDE DEF c, q
      <4>2. /\ q \in Page /\ SameWires(c, q) /\ q.closedByUser = c.closedByUser
            /\ q.turnActive = c.turnActive
        <5>1. PICK b \in BOOLEAN :
                q = [c EXCEPT !.state = "failed", !.isStreaming = FALSE, !.hold = TRUE, !.revive = b]
          <6> DEFINE d == [c EXCEPT !.state = "failed", !.isStreaming = FALSE, !.hold = TRUE]
          <6>1. q = [d EXCEPT !.revive = @ \/ d.isStreaming]
            BY <4>1 DEF OnClose, PanelError
          <6>2. d.isStreaming = FALSE /\ d.revive = c.revive /\ c.revive \in BOOLEAN
            BY <3>1 DEF Page
          <6>3. q = [d EXCEPT !.revive = c.revive]
            BY <6>1, <6>2
          <6> QED
            BY <6>2, <6>3
        <5> QED
          BY <3>1, <5>1 DEF Page, SameWires
      <4>3. Retries(q) /\ ~Left(p)
        BY <3>2, <3>5, <4>2 DEF Retries, Left, SameWires
      <4>4. Closes(p, s, q)
        BY <3>2, <4>2, <4>3 DEF SameWires, Closes
      <4> QED
        BY <4>4
    <3> QED
      BY <3>3, <3>4, <3>5
  <2> QED
    BY <2>1, <2>2
<1> HIDE DEF q, r, c
<1> USE DEF Closes
<1>4. /\ \A t \in Sock : q.sock[t] = IF t = s THEN "closed" ELSE p.sock[t]
      /\ \A t \in Sock : q.out[t] = IF t = s THEN <<>> ELSE p.out[t]
  BY <1>00, <1>3
<1>5. Sound(q) /\ (Left(q) <=> Left(p))
  <2>1. Current(q)
    BY <1>0, <1>3, <1>4 DEF Current, Live
  <2>2. Left(q) <=> Left(p)
    BY <1>3 DEF Left
  <2>3. Quiet(q)
    BY <1>3, <2>2 DEF Quiet, Sound
  <2> QED
    BY <1>3, <2>1, <2>2, <2>3 DEF Sound
<1>6. Closing(q) = Closing(p) \ {s}
  BY <1>4 DEF Closing
<1>7. Linked(p) => Linked(q)
  BY <1>3, <1>4 DEF Linked, Heard
<1>8. \A m : Tame(p, q, m)
  <2> TAKE m
  <2>1. \A t \in Sock : Less(p.out[t], q.out[t], m)
    BY <1>4, LessSame
  <2> QED
    BY <1>3, <2>1, FewerTame, LessSame
<1> QED
  BY <1>3, <1>5, <1>6, <1>7, <1>8 DEF q

\* Kept, and an active turn still tries.
Steady(p, q) == Kept(p, q) /\ (Linked(p) /\ Retries(p) => Retries(q))

\* connect, should it be called, finds a socket to use.
Spare(p) == NeedsSocket(p) => Free(p)

LEMMA SteadyTrans ==
    ASSUME NEW p, NEW q, NEW r, Steady(p, q), Steady(q, r)
    PROVE  Steady(p, r)
  BY DEF Steady, Kept

LEMMA SpareSame ==
    ASSUME NEW p, NEW q, q.sock = p.sock, q.ws = p.ws, Spare(p)
    PROVE  Spare(q)
  BY DEF Spare, NeedsSocket, Ready, Free

LEMMA WiresSteady ==
    ASSUME NEW p, NEW q \in Page, Sound(p), ~Left(p), SameWires(p, q),
           q.closedByUser = p.closedByUser,
           Linked(p) /\ Retries(p) => Retries(q)
    PROVE  Steady(p, q) /\ \A m : Tame(p, q, m)
<1>1. ~Left(q)
  BY DEF Left, SameWires
<1> QED
  BY <1>1, WiresKept DEF Steady

LEMMA ReviveKeeps ==
    ASSUME NEW p, Sound(p), ~Left(p), Spare(p)
    PROVE  Steady(p, Revive(p)) /\ \A m : Tame(p, Revive(p), m)
<1>1. CASE Unreachable(p)
  BY <1>1, ConnectKeeps DEF Revive, Steady, Spare
<1>2. CASE ~Unreachable(p)
  <2>1. Revive(p) = p /\ p \in Page /\ SameWires(p, p)
    BY <1>2 DEF Revive, Sound, SameWires
  <2> QED
    BY <2>1, WiresSteady
<1> QED
  BY <1>1, <1>2

\* resync: as it was, dialled anew, or the open socket is left to close and the
\* timer to connect the next.
LEMMA ResyncKeeps ==
    ASSUME NEW p, Sound(p), ~Left(p), Spare(p)
    PROVE  LET q == Resync(p) IN
           /\ \/ Steady(p, q)
              \/ /\ Sound(q) /\ ~Left(q) /\ q.reported = p.reported
                 /\ p.ws \in Sock /\ Closing(q) = Closing(p) \cup {p.ws}
                 /\ q.resyncs = p.resyncs + 1
                 /\ Linked(p) => Linked(q)
                 /\ Retries(q)
           /\ \A m : Tame(p, q, m)
<1> DEFINE q == Resync(p)
<1>0. p \in Page /\ Current(p)
  BY DEF Sound
<1>1. CASE p.closedByUser
  <2>1. q = p /\ SameWires(p, p)
    BY <1>1 DEF Resync, SameWires
  <2> QED
    BY <1>0, <2>1, WiresSteady
<1>2. CASE ~p.closedByUser /\ ~Ready(p, {"open"})
  <2>1. q = Connect(p)
    BY <1>2 DEF Resync
  <2> QED
    BY <2>1, ConnectKeeps DEF Steady, Spare
<1>3. CASE ~p.closedByUser /\ Ready(p, {"open"})
  <2>1. PICK s \in Sock : s = p.ws /\ p.sock[s] = "open" /\ s \notin p.muted /\ s # 0
    BY <1>0, <1>3, SockIsNat DEF Ready, Page, Current
  <2>2. PICK n \in Nat : n = p.resyncs + 1 /\ n > 0
    BY <1>0 DEF Page
  <2>3. PICK a \in 0..LongRungs + ShortRungs : a = 0
    BY ClientAssumption
  <2>4. q = [p EXCEPT !.resyncing = TRUE, !.attempt = a, !.sock[s] = "closing", !.resyncs = n]
    BY <1>3, <2>1, <2>2, <2>3 DEF Resync
  <2> HIDE DEF q
  <2>5. /\ q.closedByUser = p.closedByUser /\ q.ws = p.ws /\ q.muted = p.muted
        /\ q.sock = [p.sock EXCEPT ![s] = "closing"] /\ q.out = p.out
        /\ q.connected = p.connected /\ q.resyncs = n
        /\ q.turnActive = p.turnActive /\ q.checks = p.checks /\ q.queue = p.queue
        /\ q.eventQueue = p.eventQueue /\ q.reported = p.reported
    BY <1>0, <2>4 DEF Page
  <2>6. \A t \in Sock : q.sock[t] = IF t = s THEN "closing" ELSE p.sock[t]
    BY <1>0, <2>5 DEF Page
  <2>7. q \in Page
    <3>1. p.sock \in [Sock -> {"none", "connecting", "open", "closing", "closed"}]
      BY <1>0 DEF Page
    <3> QED
      BY <1>0, <2>4, <3>1 DEF Page
  <2>8. Current(q) /\ ~Left(q)
    BY <1>0, <1>3, <2>1, <2>5, <2>6 DEF Current, Left, Live
  <2>9. Closing(q) = Closing(p) \cup {s}
    BY <2>6 DEF Closing
  <2>10. Linked(p) => Linked(q)
    BY <2>1, <2>2, <2>5, <2>6 DEF Linked, Heard
  <2>11. Retries(q)
    BY <2>2, <2>5 DEF Retries, Alive
  <2>12. \A m : Tame(p, q, m)
    BY <2>5, SameTame
  <2> QED
    BY <2>1, <2>2, <2>5, <2>7, <2>8, <2>9, <2>10, <2>11, <2>12 DEF Sound, Quiet, q
<1> QED
  BY <1>1, <1>2, <1>3

LEMMA SweepKeeps ==
    ASSUME NEW p, Sound(p), ~Left(p), Spare(p)
    PROVE  LET q == Sweep(p) IN
           /\ \/ Steady(p, q)
              \/ /\ Sound(q) /\ ~Left(q) /\ q.reported = p.reported
                 /\ p.ws \in Sock /\ Closing(q) = Closing(p) \cup {p.ws}
                 /\ q.resyncs = p.resyncs + 1
                 /\ Linked(p) => Linked(q)
                 /\ Retries(q)
           /\ \A m : Tame(p, q, m)
<1>1. CASE Unreachable(p)
  <2>1. Sweep(p) = Revive(p)
    BY <1>1 DEF Sweep
  <2> QED
    BY <2>1, ReviveKeeps
<1>2. CASE ~Unreachable(p) /\ p.isStreaming
  <2>1. Sweep(p) = Resync(p)
    BY <1>2 DEF Sweep
  <2> QED
    BY <2>1, ResyncKeeps
<1>3. CASE ~Unreachable(p) /\ ~p.isStreaming
  <2>1. Sweep(p) = p /\ p \in Page /\ SameWires(p, p)
    BY <1>3 DEF Sweep, Sound, SameWires
  <2> QED
    BY <2>1, WiresSteady
<1> QED
  BY <1>1, <1>2, <1>3

\* send: on the open socket, or on the queue of a socket to come.
LEMMA SendKeeps ==
    ASSUME NEW p, Sound(p), ~Left(p), Spare(p), p.connected, NEW m \in Msg
    PROVE  LET q == ClientSend(p, m) IN
           /\ Steady(p, q)
           /\ \A k \in Msg \ {m} : Tame(p, q, k)
           /\ Places1(p, q, m)
<1> DEFINE q == ClientSend(p, m)
           a == [p EXCEPT !.turnActive = TRUE]
           c == IF a.ws = 0 \/ Ready(a, {"closed"}) THEN Connect(a) ELSE a
<1>0. p \in Page /\ Current(p)
  BY DEF Sound
<1>1. /\ a \in Page /\ SameWires(p, a) /\ a.closedByUser = p.closedByUser
      /\ a.out = p.out /\ a.sock = p.sock /\ a.ws = p.ws /\ a.muted = p.muted
  BY <1>0 DEF Page, SameWires
<1>2. Kept(p, a) /\ (\A k : Tame(p, a, k)) /\ Spare(a)
  <2>1. ~Left(a)
    BY <1>1 DEF Left
  <2> QED
    BY <1>1, <2>1, WiresKept, SpareSame
<1>3. Linked(p) => Alive(a)
  BY <1>1 DEF Linked, Heard, Alive
<1> HIDE DEF a
<1>4. CASE Ready(a, {"open"})
  <2>1. PICK s \in Sock : s = p.ws
    BY <1>0, <1>1, <1>4 DEF Ready, Page
  <2>2. p.out[s] \in Seq(Frame) /\ m \in Frame
    BY <1>0 DEF Page, Frame
  <2>3. PICK o \in Seq(Frame) : o = Append(p.out[s], m)
    <3>1. Append(p.out[s], m) \in Seq(Frame)
      BY <2>2
    <3> QED
      BY <3>1
  <2>4. q = [a EXCEPT !.out[s] = o]
    BY <1>1, <1>4, <2>1, <2>3 DEF ClientSend, a
  <2> HIDE DEF q
  <2>5. /\ q.sock = a.sock /\ q.ws = a.ws /\ q.muted = a.muted /\ q.closedByUser = a.closedByUser
        /\ q.connected = a.connected /\ q.resyncing = a.resyncing /\ q.resyncs = a.resyncs
        /\ q.checks = a.checks /\ q.queue = a.queue /\ q.eventQueue = a.eventQueue
        /\ q.reported = a.reported /\ q.ladder = a.ladder /\ q.revive = a.revive
        /\ q.out = [a.out EXCEPT ![s] = o]
    BY <1>1, <2>4 DEF Page
  <2>6. \A t \in Sock : q.out[t] = IF t = s THEN o ELSE p.out[t]
    BY <1>0, <1>1, <2>5 DEF Page
  <2>7. q \in Page
    <3>1. a.out \in [Sock -> Seq(Frame)]
      BY <1>1 DEF Page
    <3> QED
      BY <1>1, <2>4, <3>1 DEF Page
  <2>8. Kept(a, q)
    <3>1. Current(q) /\ ~Left(q) /\ Closing(q) = Closing(a)
      BY <1>2, <2>5 DEF Kept, Sound, Current, Left, Closing
    <3>2. Linked(a) => Linked(q)
      BY <2>5 DEF Linked, Heard
    <3> QED
      BY <2>5, <2>7, <3>1, <3>2 DEF Kept, Sound, Quiet
  <2>9. Linked(p) => Retries(q)
    BY <1>3, <2>5 DEF Retries, Alive
  <2>10. \A k \in Msg \ {m} : Tame(p, q, k)
    <3> TAKE k \in Msg \ {m}
    <3>1. Less(p.out[s], o, k)
      BY <2>2, <2>3, AppendHas DEF Less
    <3>2. \A t \in Sock : Less(p.out[t], q.out[t], k)
      BY <2>6, <3>1, LessSame
    <3> QED
      BY <1>1, <2>5, <3>2, FewerTame, LessSame DEF SameWires
  <2>11. Places1(p, q, m)
    <3> SUFFICES ASSUME Nowhere(p, m)
                 PROVE  Once(q, m)
      BY DEF Places1
    <3>1. ~Has(p.out[s], m) /\ Single(p.out[s], m) /\ \A t \in Sock : ~Has(p.out[t], m)
      BY DEF Nowhere, Sent, Single, Has
    <3>2. Has(o, m) /\ Single(o, m)
      BY <2>2, <2>3, <3>1, AppendHas
    <3>3. \A t \in Sock : Single(q.out[t], m) /\ (Has(q.out[t], m) => t = s)
      BY <2>6, <3>1, <3>2 DEF Single, Has
    <3>4. m \notin q.checks /\ ~Has(q.queue, m) /\ ~Has(q.eventQueue, m)
      BY <1>1, <2>5 DEF Nowhere, SameWires
    <3>5. Single(q.queue, m) /\ Single(q.eventQueue, m)
      BY <3>4 DEF Single, Has
    <3> QED
      BY <3>3, <3>4, <3>5 DEF Once
  <2>12. Kept(p, q)
    BY <1>2, <2>8 DEF Kept
  <2> QED
    BY <2>9, <2>10, <2>11, <2>12 DEF Steady, q
<1>5. CASE ~Ready(a, {"open"})
  <2>1. /\ Kept(a, c) /\ (\A k : Tame(a, c, k)) /\ (Linked(p) => Alive(c) \/ Retries(c))
        /\ c.turnActive = a.turnActive
    <3>1. CASE a.ws = 0 \/ Ready(a, {"closed"})
      <4>1. c = Connect(a)
        BY <3>1
      <4> HIDE DEF c
      <4> QED
        BY <1>2, <4>1, ConnectKeeps DEF Kept, Spare
    <3>2. CASE ~(a.ws = 0 \/ Ready(a, {"closed"}))
      <4>1. c = a
        BY <3>2
      <4> HIDE DEF c
      <4>2. SameWires(a, a) /\ ~Left(a) /\ Sound(a)
        BY <1>2 DEF Kept, SameWires
      <4>3. Kept(a, a) /\ \A k : Tame(a, a, k)
        BY <1>1, <4>2, WiresKept
      <4> QED
        BY <1>3, <4>1, <4>3
    <3> QED
      BY <3>1, <3>2
  <2>2. c \in Page
    BY <2>1 DEF Kept, Sound
  <2>3. PICK o \in Seq(Msg) : o = Append(c.eventQueue, m)
    <3>1. c.eventQueue \in Seq(Msg)
      BY <2>2 DEF Page
    <3>2. Append(c.eventQueue, m) \in Seq(Msg)
      BY <3>1
    <3> QED
      BY <3>2
  <2>4. q = [c EXCEPT !.eventQueue = o]
    BY <1>5, <2>3 DEF ClientSend, a
  <2> HIDE DEF q, c
  <2>5. /\ q.sock = c.sock /\ q.ws = c.ws /\ q.muted = c.muted /\ q.closedByUser = c.closedByUser
        /\ q.connected = c.connected /\ q.resyncing = c.resyncing /\ q.resyncs = c.resyncs
        /\ q.checks = c.checks /\ q.queue = c.queue /\ q.eventQueue = o
        /\ q.reported = c.reported /\ q.ladder = c.ladder /\ q.revive = c.revive
        /\ q.out = c.out /\ q.turnActive = c.turnActive
    BY <2>2, <2>4 DEF Page
  <2>6. q \in Page
    BY <2>2, <2>4 DEF Page
  <2>7. Kept(c, q)
    <3>1. Current(q) /\ ~Left(q) /\ Closing(q) = Closing(c)
      BY <2>1, <2>5 DEF Kept, Sound, Current, Left, Closing
    <3>2. Linked(c) => Linked(q)
      BY <2>5 DEF Linked, Heard
    <3> QED
      BY <2>5, <2>6, <3>1, <3>2 DEF Kept, Sound, Quiet
  <2>8. Linked(p) => Retries(q)
    BY <2>1, <2>5 DEF Retries, Alive
  <2>9. c.eventQueue \in Seq(Msg)
    BY <2>2 DEF Page
  <2>10. \A k \in Msg \ {m} : Tame(p, q, k)
    <3> TAKE k \in Msg \ {m}
    <3>1. Less(c.eventQueue, o, k)
      BY <2>3, <2>9, AppendHas DEF Less
    <3>2. \A t \in Sock : Less(c.out[t], q.out[t], k)
      BY <2>5, LessSame
    <3>3. Tame(c, q, k)
      BY <2>5, <3>1, <3>2, FewerTame, LessSame
    <3> QED
      BY <1>2, <2>1, <3>3 DEF Tame
  <2>11. Places1(c, q, m)
    <3> SUFFICES ASSUME Nowhere(c, m)
                 PROVE  Once(q, m)
      BY DEF Places1
    <3>1. ~Has(c.eventQueue, m) /\ Single(c.eventQueue, m)
      BY DEF Nowhere, Single, Has
    <3>2. Single(o, m)
      BY <2>3, <2>9, <3>1, AppendHas
    <3>3. m \notin q.checks /\ ~Has(q.queue, m) /\ ~Sent(q, m)
      BY <2>5 DEF Nowhere, Sent
    <3>4. Single(q.queue, m) /\ \A t \in Sock : Single(q.out[t], m) /\ ~Has(q.out[t], m)
      BY <3>3 DEF Single, Has, Sent
    <3> QED
      BY <2>5, <3>2, <3>3, <3>4 DEF Once
  <2>12. Places1(p, q, m)
    BY <1>2, <2>1, <2>11 DEF Tame, Places1
  <2>13. Kept(p, q)
    BY <1>2, <2>1, <2>7 DEF Kept
  <2> QED
    BY <2>8, <2>10, <2>12, <2>13 DEF Steady, q
<1> QED
  BY <1>4, <1>5

LEMMA StopKeeps ==
    ASSUME NEW p, Sound(p), ~Left(p)
    PROVE  Steady(p, ClientStop(p)) /\ \A m \in Msg : Tame(p, ClientStop(p), m)
<1> DEFINE q == ClientStop(p)
           a == [p EXCEPT !.turnActive = FALSE]
<1>0. p \in Page /\ Current(p)
  BY DEF Sound
<1>1. /\ a \in Page /\ SameWires(p, a) /\ a.closedByUser = p.closedByUser
      /\ a.out = p.out /\ a.sock = p.sock /\ a.ws = p.ws /\ ~a.turnActive
  BY <1>0 DEF Page, SameWires
<1>2. Steady(p, a) /\ \A k : Tame(p, a, k)
  BY <1>1, WiresSteady DEF Retries
<1> HIDE DEF a
<1>3. CASE ~Ready(a, {"open"})
  <2>1. q = a
    BY <1>3 DEF ClientStop, a
  <2> QED
    BY <1>2, <2>1
<1>4. CASE Ready(a, {"open"})
  <2>1. PICK s \in Sock : s = p.ws
    BY <1>0, <1>1, <1>4 DEF Ready, Page
  <2>2. p.out[s] \in Seq(Frame) /\ "stop" \in Frame
    BY <1>0 DEF Page, Frame
  <2>3. PICK o \in Seq(Frame) : o = Append(p.out[s], "stop")
    <3>1. Append(p.out[s], "stop") \in Seq(Frame)
      BY <2>2
    <3> QED
      BY <3>1
  <2>4. q = [a EXCEPT !.out[s] = o]
    BY <1>1, <1>4, <2>1, <2>3 DEF ClientStop, a
  <2> HIDE DEF q
  <2>5. /\ q.sock = a.sock /\ q.ws = a.ws /\ q.muted = a.muted /\ q.closedByUser = a.closedByUser
        /\ q.connected = a.connected /\ q.resyncing = a.resyncing /\ q.resyncs = a.resyncs
        /\ q.checks = a.checks /\ q.queue = a.queue /\ q.eventQueue = a.eventQueue
        /\ q.reported = a.reported /\ q.turnActive = a.turnActive
        /\ q.out = [a.out EXCEPT ![s] = o]
    BY <1>1, <2>4 DEF Page
  <2>6. \A t \in Sock : q.out[t] = IF t = s THEN o ELSE p.out[t]
    BY <1>0, <1>1, <2>5 DEF Page
  <2>7. q \in Page
    <3>1. a.out \in [Sock -> Seq(Frame)]
      BY <1>1 DEF Page
    <3> QED
      BY <1>1, <2>4, <3>1 DEF Page
  <2>8. Kept(a, q)
    <3>1. Current(q) /\ ~Left(q) /\ Closing(q) = Closing(a)
      BY <1>2, <2>5 DEF Steady, Kept, Sound, Current, Left, Closing
    <3>2. Linked(a) => Linked(q)
      BY <2>5 DEF Linked, Heard
    <3> QED
      BY <2>5, <2>7, <3>1, <3>2 DEF Kept, Sound, Quiet
  <2>9. Retries(q)
    BY <1>1, <2>5 DEF Retries
  <2>10. \A k \in Msg : Tame(p, q, k)
    <3> TAKE k \in Msg
    <3>1. k # "stop"
      BY ClientAssumption
    <3>2. Less(p.out[s], o, k)
      BY <2>2, <2>3, <3>1, AppendHas DEF Less
    <3>3. \A t \in Sock : Less(p.out[t], q.out[t], k)
      BY <2>6, <3>2, LessSame
    <3> QED
      BY <1>1, <2>5, <3>3, FewerTame, LessSame DEF SameWires
  <2>11. Kept(p, q)
    BY <1>2, <2>8 DEF Steady, Kept
  <2> QED
    BY <2>9, <2>10, <2>11 DEF Steady, q
<1> QED
  BY <1>3, <1>4

\* The page lets go of a client: nothing is alive any more.
LEMMA LeaveDoes ==
    ASSUME NEW p, Sound(p)
    PROVE  LET q == [Close(p) EXCEPT !.checks = {}, !.revive = FALSE] IN
           /\ Sound(q) /\ q.resyncs = p.resyncs /\ q.reported = p.reported
           /\ Left(q)
           /\ \/ Closing(q) = Closing(p)
              \/ p.ws \in Sock /\ Closing(q) = Closing(p) \cup {p.ws}
           /\ Linked(p) => Linked(q)
           /\ Retries(q)
           /\ \A m : Tame(p, q, m)
<1> DEFINE q == [Close(p) EXCEPT !.checks = {}, !.revive = FALSE]
<1>0. p \in Page /\ Current(p)
  BY DEF Sound
<1>00. /\ p.sock \in [Sock -> {"none", "connecting", "open", "closing", "closed"}]
       /\ 0 \in Nat /\ 0 \notin Sock /\ p.muted \in SUBSET Sock
  BY <1>0, SockIsNat DEF Page
<1>1. CASE p.ws = 0
  <2>1. q = [p EXCEPT !.closedByUser = TRUE, !.connected = FALSE, !.state = "idle",
                      !.replay = 0, !.checks = {}, !.revive = FALSE]
    BY <1>1 DEF Close
  <2> HIDE DEF q
  <2>2. /\ q.sock = p.sock /\ q.ws = p.ws /\ q.muted = p.muted /\ q.closedByUser
        /\ ~q.connected /\ q.resyncing = p.resyncing /\ q.resyncs = p.resyncs
        /\ q.checks = {} /\ q.queue = p.queue /\ q.eventQueue = p.eventQueue
        /\ q.reported = p.reported /\ ~q.revive /\ q.out = p.out
    BY <1>0, <2>1 DEF Page
  <2>3. q \in Page
    BY <1>0, <1>00, <2>1 DEF Page
  <2>4. Sound(q) /\ Left(q) /\ Closing(q) = Closing(p)
    BY <1>0, <1>1, <2>2, <2>3 DEF Sound, Current, Quiet, Left, Closing
  <2>5. Retries(q) /\ (Linked(p) => Linked(q))
    BY <2>2 DEF Retries, Linked
  <2>6. \A m : Tame(p, q, m)
    BY <2>2, FewerTame, LessSame
  <2> QED
    BY <2>2, <2>4, <2>5, <2>6 DEF q
<1>2. CASE p.ws # 0
  <2>1. PICK s \in Sock : s = p.ws
    BY <1>0, <1>2 DEF Page
  <2>2. PICK v \in {"closing", "closed"} : v = IF p.sock[s] = "closed" THEN "closed" ELSE "closing"
    OBVIOUS
  <2>3. q = [p EXCEPT !.closedByUser = TRUE, !.connected = FALSE, !.state = "idle",
                      !.replay = 0, !.ws = 0, !.muted = @ \cup {s}, !.sock[s] = v,
                      !.checks = {}, !.revive = FALSE]
    BY <1>0, <1>2, <2>1, <2>2 DEF Close, Page
  <2> HIDE DEF q
  <2>4. /\ q.sock = [p.sock EXCEPT ![s] = v] /\ q.ws = 0 /\ q.muted = p.muted \cup {s}
        /\ q.closedByUser
        /\ ~q.connected /\ q.resyncing = p.resyncing /\ q.resyncs = p.resyncs
        /\ q.checks = {} /\ q.queue = p.queue /\ q.eventQueue = p.eventQueue
        /\ q.reported = p.reported /\ ~q.revive /\ q.out = p.out
    BY <1>0, <2>3 DEF Page
  <2>5. q \in Page
    BY <1>0, <1>00, <2>3 DEF Page
  <2>6. \A t \in Sock : q.sock[t] = IF t = s THEN v ELSE p.sock[t]
    BY <1>00, <2>4
  <2>7. Current(q)
    BY <1>0, <1>00, <2>1, <2>2, <2>4, <2>6 DEF Current, Live
  <2>8. Sound(q) /\ Left(q)
    BY <2>4, <2>5, <2>7 DEF Sound, Quiet, Left
  <2>9. Closing(q) = Closing(p) \/ Closing(q) = Closing(p) \cup {s}
    BY <2>2, <2>6 DEF Closing
  <2>10. Retries(q) /\ (Linked(p) => Linked(q))
    BY <2>4 DEF Retries, Linked
  <2>11. \A m : Tame(p, q, m)
    BY <2>4, FewerTame, LessSame
  <2> QED
    BY <2>1, <2>4, <2>8, <2>9, <2>10, <2>11 DEF q
<1> QED
  BY <1>1, <1>2

\* doSend: the client sends it, or a poll waits for the connection.
LEMMA DoSendKeeps ==
    ASSUME NEW p, Sound(p), ~Left(p), Spare(p), NEW m \in Msg
    PROVE  LET q == DoSend(p, m) IN
           /\ Steady(p, q)
           /\ \A k \in Msg \ {m} : Tame(p, q, k)
           /\ Places1(p, q, m)
<1> DEFINE q == DoSend(p, m)
           a == [p EXCEPT !.isStreaming = TRUE, !.hold = FALSE]
<1>0. p \in Page
  BY DEF Sound
<1>1. /\ a \in Page /\ SameWires(p, a) /\ a.closedByUser = p.closedByUser
      /\ a.connected = p.connected /\ a.turnActive = p.turnActive
      /\ a.ladder = p.ladder /\ a.revive = p.revive
  BY <1>0 DEF Page, SameWires
<1>2. Steady(p, a) /\ (\A k : Tame(p, a, k)) /\ Spare(a) /\ Sound(a) /\ ~Left(a)
  <2>1. Retries(p) => Retries(a)
    BY <1>1 DEF Retries, Alive, SameWires
  <2>2. Steady(p, a) /\ \A k : Tame(p, a, k)
    BY <1>1, <2>1, WiresSteady
  <2> QED
    BY <1>1, <2>2, SpareSame DEF SameWires, Steady, Kept
<1>3. CASE p.connected
  <2>1. q = ClientSend(a, m)
    BY <1>3 DEF DoSend
  <2> HIDE DEF a, q
  <2>2. /\ Steady(a, q) /\ Places1(a, q, m)
        /\ \A k \in Msg \ {m} : Tame(a, q, k)
    BY <1>1, <1>2, <1>3, <2>1, SendKeeps
  <2>3. Steady(p, q) /\ Places1(p, q, m)
    BY <1>2, <2>2, SteadyTrans, TameTrans
  <2>4. \A k \in Msg \ {m} : Tame(p, q, k)
    BY <1>2, <2>2, TameTrans
  <2> QED
    BY <2>3, <2>4 DEF q
<1>4. CASE ~p.connected
  <2> DEFINE r == Revive(a)
  <2>1. q = [r EXCEPT !.checks = @ \cup {m}]
    BY <1>4 DEF DoSend
  <2> HIDE DEF a, q, r
  <2>2. Steady(a, r) /\ \A k : Tame(a, r, k)
    BY <1>2, ReviveKeeps DEF r
  <2>3. r \in Page /\ Sound(r) /\ ~Left(r)
    BY <2>2 DEF Steady, Kept, Sound
  <2>4. PICK c \in SUBSET Msg : c = r.checks \cup {m}
    BY <2>3 DEF Page
  <2>5. q = [r EXCEPT !.checks = c]
    BY <2>1, <2>4
  <2>6. q \in Page
    BY <2>3, <2>5 DEF Page
  <2>7. /\ q.sock = r.sock /\ q.ws = r.ws /\ q.muted = r.muted /\ q.closedByUser = r.closedByUser
        /\ q.connected = r.connected /\ q.resyncing = r.resyncing /\ q.resyncs = r.resyncs
        /\ q.checks = c /\ q.queue = r.queue /\ q.eventQueue = r.eventQueue
        /\ q.reported = r.reported /\ q.turnActive = r.turnActive /\ q.out = r.out
        /\ q.ladder = r.ladder /\ q.revive = r.revive
    BY <2>3, <2>5 DEF Page
  <2>8. Steady(r, q)
    <3>1. Current(q) /\ ~Left(q) /\ Closing(q) = Closing(r)
      BY <2>3, <2>7 DEF Sound, Current, Left, Closing
    <3>2. Linked(r) => Linked(q)
      BY <2>7 DEF Linked, Heard
    <3>3. Retries(r) => Retries(q)
      BY <2>7 DEF Retries, Alive
    <3> QED
      BY <2>6, <2>7, <3>1, <3>2, <3>3 DEF Steady, Kept, Sound, Quiet
  <2>9. \A k \in Msg \ {m} : Tame(r, q, k)
    <3> TAKE k \in Msg \ {m}
    <3>1. k \in q.checks => k \in r.checks
      BY <2>4, <2>7
    <3>2. \A t \in Sock : Less(r.out[t], q.out[t], k)
      BY <2>7, LessSame
    <3> QED
      BY <2>7, <3>1, <3>2, FewerTame, LessSame
  <2>10. Places1(r, q, m)
    <3> SUFFICES ASSUME Nowhere(r, m)
                 PROVE  Once(q, m)
      BY DEF Places1
    <3>1. Once(r, m)
      BY NowhereOnce
    <3> QED
      BY <2>7, <3>1 DEF Nowhere, Once, Sent
  <2>11. Steady(p, q)
    BY <1>2, <2>2, <2>8, SteadyTrans
  <2>12. Places1(p, q, m)
    BY <1>2, <2>2, <2>10 DEF Tame, Places1
  <2>13. \A k \in Msg \ {m} : Tame(p, q, k)
    BY <1>2, <2>2, <2>9 DEF Tame
  <2> QED
    BY <2>11, <2>12, <2>13 DEF q
<1> QED
  BY <1>3, <1>4

\* What a page carries when the message h has been taken from its queue, and
\* what a send of h then makes of it.
LEMMA DequeueKeeps ==
    ASSUME NEW p, Sound(p), ~Left(p), Spare(p), NEW o \in Seq(Msg), NEW f \in SUBSET Msg,
           NEW h \in Msg, Has(p.queue, h),
           \A m : Less(p.queue, o, m),
           Single(p.queue, h) => ~Has(o, h)
    PROVE  LET q == DoSend([p EXCEPT !.queue = o, !.flushed = f], h) IN
           Steady(p, q) /\ \A m \in Msg : Tame(p, q, m)
<1> DEFINE a == [p EXCEPT !.queue = o, !.flushed = f]
           q == DoSend(a, h)
<1>0. p \in Page
  BY DEF Sound
<1>1. a \in Page
  BY <1>0 DEF Page
<1>2. /\ a.sock = p.sock /\ a.ws = p.ws /\ a.muted = p.muted /\ a.closedByUser = p.closedByUser
      /\ a.connected = p.connected /\ a.resyncing = p.resyncing /\ a.resyncs = p.resyncs
      /\ a.checks = p.checks /\ a.queue = o /\ a.eventQueue = p.eventQueue
      /\ a.reported = p.reported /\ a.turnActive = p.turnActive /\ a.out = p.out
      /\ a.ladder = p.ladder /\ a.revive = p.revive
  BY <1>0 DEF Page
<1> HIDE DEF a
<1>3. Steady(p, a) /\ Sound(a) /\ ~Left(a) /\ Spare(a)
  <2>1. Current(a) /\ ~Left(a) /\ Closing(a) = Closing(p)
    BY <1>2 DEF Sound, Current, Left, Closing
  <2>2. Linked(p) => Linked(a)
    BY <1>2 DEF Linked, Heard
  <2>3. Retries(p) => Retries(a)
    BY <1>2 DEF Retries, Alive
  <2> QED
    BY <1>1, <1>2, <2>1, <2>2, <2>3, SpareSame DEF Steady, Kept, Sound, Quiet
<1>4. \A m : Tame(p, a, m)
  <2> TAKE m
  <2>1. \A t \in Sock : Less(p.out[t], a.out[t], m)
    BY <1>2, LessSame
  <2> QED
    BY <1>2, <2>1, FewerTame, LessSame
<1>5. Once(p, h) => Nowhere(a, h)
  BY <1>2 DEF Once, Nowhere, Sent
<1>6. /\ Steady(a, q) /\ Places1(a, q, h)
      /\ \A k \in Msg \ {h} : Tame(a, q, k)
  BY <1>3, DoSendKeeps
<1>7. Steady(p, q)
  BY <1>3, <1>6, SteadyTrans
<1>8. Tame(p, q, h)
  BY <1>5, <1>6 DEF Tame, Places1, Nowhere
<1>9. \A k \in Msg \ {h} : Tame(p, q, k)
  BY <1>4, <1>6 DEF Tame
<1> QED
  BY <1>7, <1>8, <1>9 DEF a

LEMMA FlushKeeps ==
    ASSUME NEW p, Sound(p), ~Left(p), Spare(p)
    PROVE  Steady(p, Flush(p)) /\ \A m \in Msg : Tame(p, Flush(p), m)
<1>0. p \in Page /\ p.queue \in Seq(Msg)
  BY DEF Sound, Page
<1>1. CASE p.queue = <<>> \/ p.isStreaming \/ p.hold
  <2>1. Flush(p) = p /\ SameWires(p, p)
    BY <1>1 DEF Flush, SameWires
  <2> QED
    BY <1>0, <2>1, WiresSteady
<1>2. CASE ~(p.queue = <<>> \/ p.isStreaming \/ p.hold)
  <2>1. PICK h \in Msg, o \in Seq(Msg) : h = Head(p.queue) /\ o = Tail(p.queue)
    BY <1>0, <1>2, TailHas
  <2>2. PICK f \in SUBSET Msg : f = p.flushed \cup {h}
    BY <1>0 DEF Page
  <2>3. Flush(p) = DoSend([p EXCEPT !.queue = o, !.flushed = f], h)
    BY <1>2, <2>1, <2>2 DEF Flush
  <2>4. Has(p.queue, h) /\ (Single(p.queue, h) => ~Has(o, h))
    BY <1>0, <1>2, <2>1, TailHas
  <2>5. \A m : Less(p.queue, o, m)
    BY <1>0, <1>2, <2>1, TailHas DEF Less
  <2> QED
    BY <2>3, <2>4, <2>5, DequeueKeeps
<1> QED
  BY <1>1, <1>2

\* A terminal row ends the client's turn; the queue's next message may go.
LEMMA TerminalKeeps ==
    ASSUME NEW p, Sound(p), ~Left(p), Spare(p), NEW status
    PROVE  Steady(p, OnTerminal(p, status)) /\ \A m \in Msg : Tame(p, OnTerminal(p, status), m)
<1>0. p \in Page
  BY DEF Sound
<1>1. PICK n \in Nat : n = ReplayLeft(p)
  BY <1>0 DEF Page, ReplayLeft
<1> DEFINE a == [p EXCEPT !.turnActive = FALSE, !.isStreaming = FALSE, !.replay = n]
<1>2. /\ a \in Page /\ SameWires(p, a) /\ a.closedByUser = p.closedByUser /\ ~a.turnActive
  BY <1>0 DEF Page, SameWires
<1>3. Steady(p, a) /\ (\A k : Tame(p, a, k)) /\ Spare(a) /\ Sound(a) /\ ~Left(a)
  <2>1. Steady(p, a) /\ \A k : Tame(p, a, k)
    BY <1>2, WiresSteady DEF Retries
  <2> QED
    BY <1>2, <2>1, SpareSame DEF SameWires, Steady, Kept
<1>4. CASE status = "error"
  <2> DEFINE q == [a EXCEPT !.isStreaming = FALSE, !.hold = TRUE]
  <2>1. OnTerminal(p, status) = q
    BY <1>1, <1>4 DEF OnTerminal, PanelError
  <2> HIDE DEF a
  <2>2. /\ q \in Page /\ SameWires(a, q) /\ q.closedByUser = a.closedByUser /\ ~q.turnActive
    BY <1>2 DEF Page, SameWires
  <2> HIDE DEF q
  <2>3. Steady(a, q) /\ \A k : Tame(a, q, k)
    BY <1>3, <2>2, WiresSteady DEF Retries
  <2> QED
    BY <1>3, <2>1, <2>3, SteadyTrans, TameTrans
<1>5. CASE status # "error" /\ p.isStreaming /\ p.replay = 0
  <2>1. OnTerminal(p, status) = Flush(a)
    BY <1>1, <1>5 DEF OnTerminal
  <2> HIDE DEF a
  <2>2. Steady(a, Flush(a)) /\ \A k \in Msg : Tame(a, Flush(a), k)
    BY <1>3, FlushKeeps
  <2> QED
    BY <1>3, <2>1, <2>2, SteadyTrans, TameTrans
<1>6. CASE status # "error" /\ ~(p.isStreaming /\ p.replay = 0)
  <2>1. OnTerminal(p, status) = a
    BY <1>1, <1>6 DEF OnTerminal
  <2> QED
    BY <1>3, <2>1
<1> QED
  BY <1>4, <1>5, <1>6

-----------------------------------------------------------------------------
(* The invariants *)

\* Closing sockets and resync timers are paid for by the returns of the page;
\* a chat that was left may have one socket more.
Budget ==
    Cardinality(Closing(page)) + page.resyncs <= 2 * regains + (IF Left(page) THEN 1 ELSE 0)

SocketInv == TypeOK /\ Sound(page) /\ Budget

\* A message is in one place of the page, and in none before it is typed, after
\* it was reported, or when the engine has answered it.
OnceInv ==
    \A m \in Msg :
        /\ Once(page, m)
        /\ m \notin typed \/ m \in page.reported \/ answered[m] # "none" => Nowhere(page, m)
        /\ m \notin typed => m \notin page.reported /\ answered[m] = "none"
        /\ m \in page.reported => answered[m] = "none"

TryInv == Linked(page) /\ Retries(page)

LEMMA SockFinite ==
    IsFiniteSet(Sock) /\ Cardinality(Sock) = 2 * MaxRegains + 1
<1>1. 2 * MaxRegains + 1 \in Nat
  BY ClientAssumption
<1> QED
  BY <1>1, FS_Interval, ClientAssumption DEF Sock

LEMMA ClosingFinite ==
    ASSUME NEW p
    PROVE  IsFiniteSet(Closing(p)) /\ Cardinality(Closing(p)) \in Nat
  BY SockFinite, FS_Subset, FS_CardinalityType DEF Closing

LEMMA OneMore ==
    ASSUME NEW S, IsFiniteSet(S), NEW x
    PROVE  Cardinality(S \cup {x}) <= Cardinality(S) + 1
<1>1. Cardinality(S) \in Nat
  BY FS_CardinalityType
<1>2. Cardinality(S \cup {x}) = IF x \in S THEN Cardinality(S) ELSE Cardinality(S) + 1
  BY FS_AddElement
<1> QED
  BY <1>1, <1>2

\* There is a socket to spare whenever an open chat, or a resync timer, dials.
LEMMA SpareNow ==
    ASSUME SocketInv, ~Left(page) \/ page.resyncs > 0
    PROVE  Spare(page)
<1> SUFFICES ASSUME NeedsSocket(page), ~Free(page)
             PROVE  FALSE
  BY DEF Spare
<1>0. page \in Page /\ Current(page) /\ page.resyncs \in Nat /\ regains \in 0..MaxRegains
  BY DEF SocketInv, Sound, TypeOK, Page
<1>1. \A s \in Sock : page.sock[s] \notin Live
  <2> SUFFICES ASSUME NEW s \in Sock, page.sock[s] \in Live
               PROVE  FALSE
    OBVIOUS
  <2>1. page.ws = s /\ s # 0
    BY <1>0, SockIsNat DEF Current
  <2> QED
    BY <2>1 DEF NeedsSocket, Ready, Live
<1>2. Closing(page) = Sock
  BY <1>0, <1>1 DEF Free, Closing, Page, Live
<1>3. 2 * MaxRegains + 1 + page.resyncs <= 2 * regains + (IF Left(page) THEN 1 ELSE 0)
  BY <1>2, SockFinite DEF SocketInv, Budget
<1> QED
  BY <1>0, <1>3, ClientAssumption

LEMMA SteadyStep ==
    ASSUME SocketInv, ~Left(page), Steady(page, page'), regains' = regains
    PROVE  Sound(page') /\ Budget' /\ (TryInv => TryInv')
<1>1. Budget'
  BY DEF SocketInv, Budget, Steady, Kept
<1> QED
  BY <1>1 DEF Steady, Kept, TryInv

LEMMA TameStep ==
    ASSUME OnceInv, \A m \in Msg : Tame(page, page', m), page'.reported = page.reported,
           UNCHANGED <<typed, answered>>
    PROVE  OnceInv'
<1> SUFFICES ASSUME NEW m \in Msg
             PROVE  /\ Once(page', m)
                    /\ m \notin typed \/ m \in page.reported \/ answered[m] # "none"
                         => Nowhere(page', m)
                    /\ m \notin typed => m \notin page.reported /\ answered[m] = "none"
                    /\ m \in page.reported => answered[m] = "none"
  BY DEF OnceInv
<1> QED
  BY DEF OnceInv, Tame

\* What every action shows of the page.
StepHolds == Sound(page') /\ Budget' /\ (TryInv => TryInv') /\ (OnceInv => OnceInv')

LEMMA SteadyTame ==
    ASSUME SocketInv, ~Left(page), Steady(page, page'), \A m \in Msg : Tame(page, page', m),
           UNCHANGED <<typed, answered, regains>>
    PROVE  StepHolds
<1>1. page'.reported = page.reported
  BY DEF Steady, Kept
<1> QED
  BY <1>1, SteadyStep, TameStep DEF StepHolds

LEMMA StaysSame ==
    ASSUME SocketInv, page' = page, UNCHANGED <<typed, answered, regains>>
    PROVE  StepHolds
<1>1. OnceInv => OnceInv'
  BY DEF OnceInv
<1>2. Sound(page') /\ Budget' /\ (TryInv => TryInv')
  BY DEF SocketInv, Budget, TryInv
<1> QED
  BY <1>1, <1>2 DEF StepHolds

\* A page that is there was not left.
LEMMA HereNotLeft == Here => ~Left(page)
  BY DEF Here, Left

-----------------------------------------------------------------------------
(* The steps of the user *)

LEMMA OpenChatHolds == ASSUME SocketInv, OpenChat PROVE StepHolds
<1>1. ~Left(page)
  BY DEF OpenChat, NewPage, Left
<1>2. page' = Connect(page) /\ UNCHANGED <<typed, answered, regains>>
  BY DEF OpenChat, Become
<1>3. Spare(page) /\ Sound(page)
  BY <1>1, SpareNow DEF SocketInv
<1>4. Steady(page, page') /\ \A m : Tame(page, page', m)
  BY <1>2, <1>3, ConnectKeeps DEF Steady, Spare
<1> QED
  BY <1>1, <1>2, <1>4, SteadyTame

\* A message that is typed now was nowhere before.
LEMMA TypedHolds ==
    ASSUME SocketInv, NEW m \in Msg, NEW q, Typed(m, q),
           Steady(page, q), \A k \in Msg \ {m} : Tame(page, q, k), Places1(page, q, m)
    PROVE  StepHolds
<1>1. /\ page' = q /\ m \notin typed /\ typed' = typed \cup {m} /\ ~Left(page)
      /\ UNCHANGED <<answered, regains>>
  BY HereNotLeft DEF Typed, MayTap
<1>2. page'.reported = page.reported
  BY <1>1 DEF Steady, Kept
<1>3. ASSUME OnceInv, NEW k \in Msg
      PROVE  /\ Once(page', k)
             /\ k \notin typed' \/ k \in page'.reported \/ answered'[k] # "none" => Nowhere(page', k)
             /\ k \notin typed' => k \notin page'.reported /\ answered'[k] = "none"
             /\ k \in page'.reported => answered'[k] = "none"
  <2>1. CASE k = m
    BY <1>1, <1>2, <1>3, <2>1 DEF OnceInv, Places1
  <2>2. CASE k # m
    BY <1>1, <1>2, <1>3, <2>2 DEF OnceInv, Tame
  <2> QED
    BY <2>1, <2>2
<1>4. OnceInv => OnceInv'
  BY <1>3 DEF OnceInv
<1> QED
  BY <1>1, <1>4, SteadyStep DEF StepHolds

LEMMA TapSendHolds == ASSUME SocketInv, NEW m \in Msg, TapSend(m) PROVE StepHolds
<1>1. Typed(m, DoSend(page, m)) /\ ~Left(page)
  BY HereNotLeft DEF TapSend, Typed, MayTap
<1>2. Spare(page) /\ Sound(page)
  BY <1>1, SpareNow DEF SocketInv
<1> QED
  BY <1>1, <1>2, DoSendKeeps, TypedHolds

LEMMA TapQueueHolds == ASSUME SocketInv, NEW m \in Msg, TapQueue(m) PROVE StepHolds
<1>0. page \in Page /\ ~Left(page) /\ Sound(page)
  BY HereNotLeft DEF TapQueue, Typed, MayTap, SocketInv, Sound
<1>1. page.queue \in Seq(Msg)
  BY <1>0 DEF Page
<1>2. PICK o \in Seq(Msg) : o = Append(page.queue, m)
  <2>1. Append(page.queue, m) \in Seq(Msg)
    BY <1>1
  <2> QED
    BY <2>1
<1>3. PICK q : q = [page EXCEPT !.queue = o]
  OBVIOUS
<1>4. Typed(m, q)
  BY <1>2, <1>3 DEF TapQueue
<1>5. /\ q.sock = page.sock /\ q.ws = page.ws /\ q.muted = page.muted
      /\ q.closedByUser = page.closedByUser /\ q.connected = page.connected
      /\ q.resyncing = page.resyncing /\ q.resyncs = page.resyncs
      /\ q.checks = page.checks /\ q.queue = o /\ q.eventQueue = page.eventQueue
      /\ q.reported = page.reported /\ q.turnActive = page.turnActive /\ q.out = page.out
      /\ q.ladder = page.ladder /\ q.revive = page.revive
  BY <1>0, <1>3 DEF Page
<1>6. q \in Page
  BY <1>0, <1>3 DEF Page
<1>7. Steady(page, q)
  <2>1. Current(q) /\ ~Left(q) /\ Closing(q) = Closing(page)
    BY <1>0, <1>5 DEF Sound, Current, Left, Closing
  <2>2. Linked(page) => Linked(q)
    BY <1>5 DEF Linked, Heard
  <2>3. Retries(page) => Retries(q)
    BY <1>5 DEF Retries, Alive
  <2> QED
    BY <1>5, <1>6, <2>1, <2>2, <2>3 DEF Steady, Kept, Sound, Quiet
<1>8. \A k \in Msg \ {m} : Tame(page, q, k)
  <2> TAKE k \in Msg \ {m}
  <2>1. Less(page.queue, o, k)
    BY <1>1, <1>2, AppendHas DEF Less
  <2>2. \A t \in Sock : Less(page.out[t], q.out[t], k)
    BY <1>5, LessSame
  <2> QED
    BY <1>5, <2>1, <2>2, FewerTame, LessSame
<1>9. Places1(page, q, m)
  <2> SUFFICES ASSUME Nowhere(page, m)
               PROVE  Once(q, m)
    BY DEF Places1
  <2>1. Once(page, m)
    BY NowhereOnce
  <2>2. Single(o, m)
    BY <1>1, <1>2, <2>1, AppendHas DEF Nowhere, Once
  <2> QED
    BY <1>5, <2>1, <2>2 DEF Nowhere, Once, Sent
<1> QED
  BY <1>4, <1>7, <1>8, <1>9, TypedHolds

\* A tapped row of the queue goes to its front, or is sent.
LEMMA TapQueuedHolds ==
    ASSUME SocketInv, NEW i \in DOMAIN page.queue, TapQueued(i) PROVE StepHolds
<1>0. page \in Page /\ ~Left(page) /\ Sound(page) /\ page.queue \in Seq(Msg)
  BY HereNotLeft DEF TapQueued, MayTap, SocketInv, Sound, Page
<1>1. UNCHANGED <<typed, answered, regains>>
  BY DEF TapQueued, Become
<1>2. PICK m \in Msg, o \in Seq(Msg) : m = page.queue[i] /\ o = RemoveAt(page.queue, i)
  BY <1>0, RemoveAtHas
<1>3. Has(page.queue, m) /\ (Single(page.queue, m) => ~Has(o, m))
  BY <1>0, <1>2, RemoveAtHas
<1>4. \A k : Less(page.queue, o, k)
  BY <1>0, <1>2, RemoveAtHas DEF Less
<1>5. Spare(page)
  BY <1>0, SpareNow
<1>6. CASE page.isStreaming
  <2>1. PICK u \in Seq(Msg) : u = <<m>> \o o
    <3>1. <<m>> \o o \in Seq(Msg)
      OBVIOUS
    <3> QED
      BY <3>1
  <2>2. PICK a : a = [page EXCEPT !.queue = u, !.hold = FALSE]
    OBVIOUS
  <2>3. page' = ClientStop(a)
    BY <1>2, <1>6, <2>1, <2>2 DEF TapQueued, Become
  <2>4. /\ a.sock = page.sock /\ a.ws = page.ws /\ a.muted = page.muted
        /\ a.closedByUser = page.closedByUser /\ a.connected = page.connected
        /\ a.resyncing = page.resyncing /\ a.resyncs = page.resyncs
        /\ a.checks = page.checks /\ a.queue = u /\ a.eventQueue = page.eventQueue
        /\ a.reported = page.reported /\ a.turnActive = page.turnActive /\ a.out = page.out
        /\ a.ladder = page.ladder /\ a.revive = page.revive
    BY <1>0, <2>2 DEF Page
  <2>5. a \in Page
    BY <1>0, <2>2 DEF Page
  <2>6. Steady(page, a)
    <3>1. Current(a) /\ ~Left(a) /\ Closing(a) = Closing(page)
      BY <1>0, <2>4 DEF Sound, Current, Left, Closing
    <3>2. Linked(page) => Linked(a)
      BY <2>4 DEF Linked, Heard
    <3>3. Retries(page) => Retries(a)
      BY <2>4 DEF Retries, Alive
    <3> QED
      BY <2>4, <2>5, <3>1, <3>2, <3>3 DEF Steady, Kept, Sound, Quiet
  <2>7. \A k \in Msg : Tame(page, a, k)
    <3> TAKE k \in Msg
    <3>1. /\ Has(u, k) <=> m = k \/ Has(o, k)
          /\ Single(o, k) /\ ~(m = k /\ Has(o, k)) => Single(u, k)
      BY <2>1, OneHas, ConcatHas
    <3>2. Has(u, k) => Has(page.queue, k)
      BY <1>3, <1>4, <3>1 DEF Less
    <3>3. Single(page.queue, k) => Single(u, k)
      BY <1>3, <1>4, <3>1 DEF Less
    <3>4. \A t \in Sock : Less(page.out[t], a.out[t], k)
      BY <2>4, LessSame
    <3> QED
      BY <2>4, <3>2, <3>3, <3>4, FewerTame, LessSame DEF Less
  <2>8. Sound(a) /\ ~Left(a)
    BY <2>6 DEF Steady, Kept
  <2>9. Steady(a, page') /\ \A k \in Msg : Tame(a, page', k)
    BY <2>3, <2>8, StopKeeps
  <2>10. Steady(page, page') /\ \A k \in Msg : Tame(page, page', k)
    BY <2>6, <2>7, <2>9, SteadyTrans, TameTrans
  <2> QED
    BY <1>0, <1>1, <2>10, SteadyTame
<1>7. CASE ~page.isStreaming
  <2>1. PICK f \in SUBSET Msg : f = page.flushed
    BY <1>0 DEF Page
  <2>2. [page EXCEPT !.queue = o] = [page EXCEPT !.queue = o, !.flushed = f]
    BY <1>0, <2>1 DEF Page
  <2>3. page' = DoSend([page EXCEPT !.queue = o, !.flushed = f], m)
    BY <1>2, <1>7, <2>2 DEF TapQueued, Become
  <2>4. Steady(page, page') /\ \A k \in Msg : Tame(page, page', k)
    BY <1>0, <1>3, <1>4, <1>5, <2>3, DequeueKeeps
  <2> QED
    BY <1>0, <1>1, <2>4, SteadyTame
<1> QED
  BY <1>6, <1>7

\* The stop button and a change of the model both stop the turn and park the
\* queue.
LEMMA StopHolds == ASSUME SocketInv, TapStop \/ ChangeModel PROVE StepHolds
<1>0. page \in Page /\ ~Left(page) /\ Sound(page) /\ UNCHANGED <<typed, answered, regains>>
  BY HereNotLeft DEF TapStop, ChangeModel, Become, MayTap, SocketInv, Sound
<1>1. CASE TapStop
  <2>1. PICK a : a = [page EXCEPT !.hold = TRUE]
    OBVIOUS
  <2>2. page' = ClientStop(a)
    BY <1>1, <2>1 DEF TapStop, Become
  <2>3. /\ a \in Page /\ SameWires(page, a) /\ a.closedByUser = page.closedByUser
        /\ a.turnActive = page.turnActive /\ a.ladder = page.ladder /\ a.revive = page.revive
    BY <1>0, <2>1 DEF Page, SameWires
  <2>4. Retries(page) => Retries(a)
    BY <2>3 DEF Retries, Alive, SameWires
  <2>5. Steady(page, a) /\ \A k : Tame(page, a, k)
    BY <1>0, <2>3, <2>4, WiresSteady
  <2>6. Steady(a, page') /\ \A k \in Msg : Tame(a, page', k)
    BY <2>2, <2>5, StopKeeps DEF Steady, Kept
  <2>7. Steady(page, page') /\ \A k \in Msg : Tame(page, page', k)
    BY <2>5, <2>6, SteadyTrans, TameTrans
  <2> QED
    BY <1>0, <2>7, SteadyTame
<1>2. CASE ChangeModel
  <2>1. PICK a : a = ClientStop(page)
    OBVIOUS
  <2>2. page' = [a EXCEPT !.isStreaming = FALSE, !.hold = TRUE]
    BY <1>2, <2>1 DEF ChangeModel, Become
  <2>3. Steady(page, a) /\ \A k \in Msg : Tame(page, a, k)
    BY <1>0, <2>1, StopKeeps
  <2>4. a \in Page /\ Sound(a) /\ ~Left(a)
    BY <2>3 DEF Steady, Kept, Sound
  <2>5. PICK q : q = page'
    OBVIOUS
  <2>6. /\ q \in Page /\ SameWires(a, q) /\ q.closedByUser = a.closedByUser
        /\ q.turnActive = a.turnActive /\ q.ladder = a.ladder /\ q.revive = a.revive
    BY <2>2, <2>4, <2>5 DEF Page, SameWires
  <2>7. Retries(a) => Retries(q)
    BY <2>6 DEF Retries, Alive, SameWires
  <2>8. Steady(a, q) /\ \A k : Tame(a, q, k)
    BY <2>4, <2>6, <2>7, WiresSteady
  <2>9. Steady(page, page') /\ \A k \in Msg : Tame(page, page', k)
    BY <2>3, <2>5, <2>8, SteadyTrans, TameTrans
  <2> QED
    BY <1>0, <2>9, SteadyTame
<1> QED
  BY <1>1, <1>2

\* A return of the page pays for the socket it closes and for the timer.
LEMMA RegainHolds == ASSUME SocketInv, Regain PROVE StepHolds
<1>0. page \in Page /\ ~Left(page) /\ Sound(page) /\ page.resyncs \in Nat
  BY HereNotLeft DEF Regain, SocketInv, Sound, Page
<1>1. /\ page' = Sweep(page) /\ regains' = regains + 1 /\ regains \in Nat
      /\ UNCHANGED <<typed, answered>>
  BY DEF Regain, SocketInv, TypeOK
<1>2. Spare(page)
  BY <1>0, SpareNow
<1>3. Cardinality(Closing(page)) + page.resyncs <= 2 * regains
  BY <1>0, <1>1 DEF SocketInv, Budget
<1>4. Cardinality(Closing(page)) \in Nat /\ IsFiniteSet(Closing(page))
  BY ClosingFinite
<1>5. \A m \in Msg : Tame(page, page', m)
  BY <1>0, <1>1, <1>2, SweepKeeps
<1>6. CASE Steady(page, page')
  <2>1. Budget'
    BY <1>0, <1>1, <1>3, <1>4, <1>6 DEF Budget, Steady, Kept
  <2> QED
    BY <1>1, <1>5, <1>6, <2>1, TameStep DEF StepHolds, Steady, Kept, TryInv
<1>7. CASE /\ Sound(page') /\ ~Left(page') /\ page'.reported = page.reported
           /\ page.ws \in Sock /\ Closing(page') = Closing(page) \cup {page.ws}
           /\ page'.resyncs = page.resyncs + 1
           /\ Linked(page) => Linked(page')
           /\ Retries(page')
  <2>1. Cardinality(Closing(page')) <= Cardinality(Closing(page)) + 1
    BY <1>4, <1>7, OneMore
  <2>2. Cardinality(Closing(page')) \in Nat
    BY ClosingFinite
  <2>3. Budget'
    BY <1>0, <1>1, <1>3, <1>4, <1>7, <2>1, <2>2 DEF Budget
  <2> QED
    BY <1>1, <1>5, <1>7, <2>3, TameStep DEF StepHolds, TryInv
<1> QED
  BY <1>0, <1>1, <1>2, <1>6, <1>7, SweepKeeps

\* The socket that a leaving user closes is the one extra that Left allows.
LEMMA LeaveHolds == ASSUME SocketInv, Leave PROVE StepHolds
<1>0. page \in Page /\ ~Left(page) /\ Sound(page) /\ page.resyncs \in Nat /\ regains \in Nat
  BY HereNotLeft DEF Leave, SocketInv, Sound, Page, TypeOK
<1>1. /\ page' = [Close(page) EXCEPT !.checks = {}, !.revive = FALSE]
      /\ UNCHANGED <<typed, answered, regains>>
  BY DEF Leave, Become
<1>2. /\ Sound(page') /\ page'.resyncs = page.resyncs /\ page'.reported = page.reported
      /\ Left(page')
      /\ \/ Closing(page') = Closing(page)
         \/ page.ws \in Sock /\ Closing(page') = Closing(page) \cup {page.ws}
      /\ Linked(page) => Linked(page')
      /\ Retries(page')
      /\ \A m : Tame(page, page', m)
  BY <1>0, <1>1, LeaveDoes
<1>3. Cardinality(Closing(page)) + page.resyncs <= 2 * regains
  BY <1>0 DEF SocketInv, Budget
<1>4. /\ Cardinality(Closing(page)) \in Nat /\ Cardinality(Closing(page')) \in Nat
      /\ Cardinality(Closing(page')) <= Cardinality(Closing(page)) + 1
  <2>1. /\ Cardinality(Closing(page)) \in Nat /\ Cardinality(Closing(page')) \in Nat
        /\ IsFiniteSet(Closing(page))
    BY ClosingFinite
  <2>2. Cardinality(Closing(page) \cup {page.ws}) <= Cardinality(Closing(page)) + 1
    BY <2>1, OneMore
  <2>3. CASE Closing(page') = Closing(page)
    BY <2>1, <2>3
  <2>4. CASE Closing(page') = Closing(page) \cup {page.ws}
    BY <2>1, <2>2, <2>4
  <2> QED
    BY <1>2, <2>3, <2>4
<1>5. Budget'
  BY <1>0, <1>1, <1>2, <1>3, <1>4 DEF Budget
<1> QED
  BY <1>1, <1>2, <1>5, TameStep DEF StepHolds, TryInv

-----------------------------------------------------------------------------
(* The steps of the timers *)

LEMMA LadderHolds == ASSUME SocketInv, LadderFires PROVE StepHolds
<1>0. page \in Page /\ Sound(page) /\ page.ladder \in Nat /\ page.ladder > 0
  BY DEF LadderFires, SocketInv, Sound, Page
<1>1. PICK n \in Nat : n = page.ladder - 1
  BY <1>0
<1>2. PICK a : a = [page EXCEPT !.ladder = n]
  OBVIOUS
<1>3. /\ page' = IF page.closedByUser THEN a ELSE Connect(a)
      /\ UNCHANGED <<typed, answered, regains>>
  BY <1>1, <1>2 DEF LadderFires, Become
<1>4. /\ a \in Page /\ SameWires(page, a) /\ a.closedByUser = page.closedByUser
      /\ a.turnActive = page.turnActive /\ a.revive = page.revive
  BY <1>0, <1>2 DEF Page, SameWires
<1>5. \A m : Tame(page, a, m)
  BY <1>4, SameTame DEF SameWires
<1>6. Sound(a) /\ (Left(a) <=> Left(page)) /\ Closing(a) = Closing(page)
      /\ (Linked(page) => Linked(a))
  BY <1>0, <1>4 DEF Sound, Current, Quiet, Left, Closing, Linked, Heard, SameWires
<1>7. CASE page.closedByUser
  <2>1. page' = a
    BY <1>3, <1>7
  <2>2. Budget'
    BY <1>3, <1>4, <1>6, <2>1 DEF SocketInv, Budget, SameWires
  <2>3. Retries(a)
    BY <1>4, <1>7 DEF Retries
  <2>4. TryInv => TryInv'
    BY <1>6, <2>1, <2>3 DEF TryInv
  <2> QED
    BY <1>3, <1>4, <1>5, <1>6, <2>1, <2>2, <2>4, TameStep DEF StepHolds, SameWires
<1>8. CASE ~page.closedByUser
  <2>1. ~Left(page)
    BY <1>8 DEF Left
  <2>2. Spare(a)
    BY <1>4, <2>1, SpareNow, SpareSame DEF SameWires
  <2>3. page' = Connect(a)
    BY <1>3, <1>8
  <2>4. Kept(a, page') /\ Retries(page') /\ \A m : Tame(a, page', m)
    BY <1>6, <2>2, <2>3, ConnectKeeps DEF Spare
  <2>5. Steady(page, page')
    BY <1>4, <1>6, <2>4 DEF Steady, Kept, SameWires
  <2>6. \A m \in Msg : Tame(page, page', m)
    BY <1>5, <2>4, TameTrans
  <2> QED
    BY <1>3, <2>1, <2>5, <2>6, SteadyTame
<1> QED
  BY <1>7, <1>8

\* A resync timer gives back what its return paid; it may open a chat that was
\* left.
LEMMA ResyncFiresHolds == ASSUME SocketInv, ResyncFires PROVE StepHolds
<1>0. /\ page \in Page /\ Sound(page) /\ page.resyncs \in Nat /\ page.resyncs > 0
      /\ regains \in Nat
  BY DEF ResyncFires, SocketInv, Sound, Page, TypeOK
<1>1. PICK n \in Nat : n = page.resyncs - 1
  BY <1>0
<1>2. PICK a : a = [page EXCEPT !.resyncs = n, !.resyncing = FALSE]
  OBVIOUS
<1>3. page' = Connect(a) /\ UNCHANGED <<typed, answered, regains>>
  BY <1>1, <1>2 DEF ResyncFires, Become
<1>4. /\ a \in Page /\ a.resyncs = n /\ ~a.resyncing
      /\ a.sock = page.sock /\ a.out = page.out /\ a.ws = page.ws /\ a.muted = page.muted
      /\ a.connected = page.connected /\ a.eventQueue = page.eventQueue
      /\ a.checks = page.checks /\ a.queue = page.queue /\ a.reported = page.reported
      /\ a.closedByUser = page.closedByUser /\ a.revive = page.revive
  BY <1>0, <1>2 DEF Page
<1>5. Sound(a) /\ Closing(a) = Closing(page) /\ (Linked(page) => Linked(a))
  BY <1>0, <1>4 DEF Sound, Current, Quiet, Left, Closing, Linked, Heard
<1>6. \A m : Tame(page, a, m)
  BY <1>4, SameTame
<1>7. Spare(a)
  BY <1>0, <1>4, SpareNow, SpareSame
<1>8. Kept(a, page') /\ Retries(page') /\ \A m : Tame(a, page', m)
  BY <1>3, <1>5, <1>7, ConnectKeeps DEF Spare
<1>9. Budget'
  <2>1. /\ Cardinality(Closing(page')) = Cardinality(Closing(page))
        /\ page'.resyncs = page.resyncs - 1 /\ ~Left(page')
    BY <1>1, <1>4, <1>5, <1>8 DEF Kept
  <2>2. Cardinality(Closing(page)) \in Nat
    BY ClosingFinite
  <2>3. Cardinality(Closing(page)) + page.resyncs <= 2 * regains + 1
    BY <1>0, <2>2 DEF SocketInv, Budget
  <2> QED
    BY <1>0, <1>3, <2>1, <2>2, <2>3 DEF Budget
<1>10. \A m \in Msg : Tame(page, page', m)
  BY <1>6, <1>8, TameTrans
<1>11. page'.reported = page.reported
  BY <1>4, <1>8 DEF Kept
<1>12. OnceInv => OnceInv'
  BY <1>3, <1>10, <1>11, TameStep
<1> QED
  BY <1>5, <1>8, <1>9, <1>12 DEF StepHolds, Kept, TryInv

LEMMA ReviveHolds == ASSUME SocketInv, ReviveTicks PROVE StepHolds
<1>1. Sound(page) /\ ~Left(page)
  BY DEF ReviveTicks, SocketInv, Sound, Quiet
<1>2. page' = Connect(page) /\ UNCHANGED <<typed, answered, regains>>
  BY DEF ReviveTicks, Become
<1>3. Steady(page, page') /\ \A m : Tame(page, page', m)
  BY <1>1, <1>2, SpareNow, ConnectKeeps DEF Steady, Spare
<1> QED
  BY <1>1, <1>2, <1>3, SteadyTame

\* a is p, but that m is no longer polled for and may be reported.
Unchecked(p, a, m) ==
    /\ a.checks = p.checks \ {m}
    /\ a.sock = p.sock /\ a.out = p.out /\ a.ws = p.ws /\ a.muted = p.muted
    /\ a.connected = p.connected /\ a.resyncing = p.resyncing /\ a.resyncs = p.resyncs
    /\ a.eventQueue = p.eventQueue /\ a.queue = p.queue /\ a.closedByUser = p.closedByUser
    /\ a.turnActive = p.turnActive /\ a.ladder = p.ladder /\ a.revive = p.revive

LEMMA UncheckKeeps ==
    ASSUME Sound(page), ~Left(page), NEW m \in Msg, m \in page.checks,
           NEW a \in Page, Unchecked(page, a, m)
    PROVE  /\ Sound(a) /\ ~Left(a) /\ Closing(a) = Closing(page) /\ a.resyncs = page.resyncs
           /\ a.sock = page.sock /\ a.ws = page.ws
           /\ Linked(page) => Linked(a)
           /\ Retries(page) => Retries(a)
           /\ \A k : Tame(page, a, k)
           /\ Once(page, m) => Nowhere(a, m)
<1>1. /\ a.sock = page.sock /\ a.out = page.out /\ a.ws = page.ws /\ a.muted = page.muted
      /\ a.connected = page.connected /\ a.resyncing = page.resyncing
      /\ a.resyncs = page.resyncs /\ a.eventQueue = page.eventQueue /\ a.queue = page.queue
  BY DEF Unchecked
<1>2. ~Left(a)
  BY <1>1 DEF Left, Unchecked
<1>3. Sound(a) /\ Closing(a) = Closing(page)
  BY <1>1, <1>2 DEF Sound, Current, Quiet, Closing, Unchecked
<1>4. (Linked(page) => Linked(a)) /\ (Retries(page) => Retries(a))
  BY <1>1 DEF Linked, Heard, Retries, Alive, Unchecked
<1>5. \A k : Tame(page, a, k)
  <2> TAKE k
  <2>1. \A t \in Sock : Less(page.out[t], a.out[t], k)
    BY <1>1, LessSame
  <2> QED
    BY <1>1, <2>1, FewerTame, LessSame DEF Unchecked
<1>6. Once(page, m) => Nowhere(a, m)
  BY <1>1 DEF Once, Nowhere, Sent, Unchecked
<1> QED
  BY <1>1, <1>2, <1>3, <1>4, <1>5, <1>6

\* The poll finds the connection and hands its message over.
LEMMA CheckSendsHolds == ASSUME SocketInv, NEW m \in Msg, CheckSends(m) PROVE StepHolds
<1>0. /\ page \in Page /\ Sound(page) /\ ~Left(page) /\ m \in page.checks /\ page.connected
      /\ UNCHANGED <<typed, answered, regains>>
  BY DEF CheckSends, Become, SocketInv, Sound, Quiet
<1>1. PICK c \in SUBSET Msg : c = page.checks \ {m}
  BY <1>0 DEF Page
<1>2. PICK a : a = [page EXCEPT !.checks = c]
  OBVIOUS
<1>3. page' = ClientSend(a, m)
  BY <1>1, <1>2 DEF CheckSends, Become
<1>4. a \in Page /\ Unchecked(page, a, m) /\ a.connected /\ a.reported = page.reported
  BY <1>0, <1>1, <1>2 DEF Page, Unchecked
<1>5. /\ Sound(a) /\ ~Left(a) /\ Closing(a) = Closing(page) /\ a.resyncs = page.resyncs
      /\ a.sock = page.sock /\ a.ws = page.ws
      /\ Linked(page) => Linked(a)
      /\ Retries(page) => Retries(a)
      /\ \A k : Tame(page, a, k)
      /\ Once(page, m) => Nowhere(a, m)
  BY <1>0, <1>4, UncheckKeeps
<1>6. Spare(a)
  BY <1>0, <1>5, SpareNow, SpareSame
<1>7. Steady(a, page') /\ Places1(a, page', m) /\ \A k \in Msg \ {m} : Tame(a, page', k)
  BY <1>3, <1>4, <1>5, <1>6, SendKeeps
<1>8. Steady(page, page')
  BY <1>4, <1>5, <1>7 DEF Steady, Kept
<1>9. \A k \in Msg : Tame(page, page', k)
  <2>1. Tame(page, page', m)
    BY <1>0, <1>5, <1>7 DEF Tame, Places1, Nowhere
  <2>2. \A k \in Msg \ {m} : Tame(page, page', k)
    BY <1>5, <1>7, TameTrans
  <2> QED
    BY <2>1, <2>2
<1> QED
  BY <1>0, <1>8, <1>9, SteadyTame

\* The poll gives up: the message it reports is in no other place.
LEMMA GivesUpHolds == ASSUME SocketInv, NEW m \in Msg, CheckGivesUp(m) PROVE StepHolds
<1>0. /\ page \in Page /\ Sound(page) /\ ~Left(page) /\ m \in page.checks
      /\ UNCHANGED <<typed, answered, regains>>
  BY DEF CheckGivesUp, Become, SocketInv, Sound, Quiet
<1>1. PICK c \in SUBSET Msg, r \in SUBSET Msg : c = page.checks \ {m} /\ r = page.reported \cup {m}
  BY <1>0 DEF Page
<1>2. PICK a : a = [page EXCEPT !.checks = c, !.reported = r, !.isStreaming = FALSE]
  OBVIOUS
<1>3. page' = a
  BY <1>1, <1>2 DEF CheckGivesUp, Become
<1>4. a \in Page /\ Unchecked(page, a, m) /\ a.reported = r
  BY <1>0, <1>1, <1>2 DEF Page, Unchecked
<1>5. /\ Sound(a) /\ ~Left(a) /\ Closing(a) = Closing(page) /\ a.resyncs = page.resyncs
      /\ a.sock = page.sock /\ a.ws = page.ws
      /\ Linked(page) => Linked(a)
      /\ Retries(page) => Retries(a)
      /\ \A k : Tame(page, a, k)
      /\ Once(page, m) => Nowhere(a, m)
  BY <1>0, <1>4, UncheckKeeps
<1>6. Budget'
  BY <1>0, <1>3, <1>5 DEF SocketInv, Budget
<1>7. ASSUME OnceInv PROVE OnceInv'
  <2>1. m \in typed /\ answered[m] = "none"
    BY <1>0, <1>7 DEF OnceInv, Nowhere
  <2>2. ASSUME NEW k \in Msg
        PROVE  /\ Once(a, k)
               /\ k \notin typed \/ k \in r \/ answered[k] # "none" => Nowhere(a, k)
               /\ k \notin typed => k \notin r /\ answered[k] = "none"
               /\ k \in r => answered[k] = "none"
    <3>1. CASE k = m
      BY <1>1, <1>5, <1>7, <2>1, <3>1, NowhereOnce DEF OnceInv
    <3>2. CASE k # m
      BY <1>1, <1>5, <1>7, <3>2 DEF OnceInv, Tame
    <3> QED
      BY <3>1, <3>2
  <2> QED
    BY <1>0, <1>3, <1>4, <2>2 DEF OnceInv
<1> QED
  BY <1>3, <1>5, <1>6, <1>7 DEF StepHolds, TryInv

-----------------------------------------------------------------------------
(* The steps of the sockets and of the engine *)

LEMMA OpensHolds == ASSUME SocketInv, NEW s \in Sock, SocketOpens(s) PROVE StepHolds
<1>0. /\ Sound(page) /\ page.sock[s] = "connecting" /\ page' = OnOpen(page, s)
      /\ UNCHANGED <<typed, answered, regains>>
  BY DEF SocketOpens, Become, SocketInv
<1>1. ~Left(page)
  BY <1>0, SockIsNat DEF Left, Sound, Current, Live
<1>2. Kept(page, page') /\ Retries(page') /\ \A m \in Msg : Tame(page, page', m)
  BY <1>0, OpenKeeps DEF SocketInv
<1>3. Steady(page, page')
  BY <1>2 DEF Steady
<1> QED
  BY <1>0, <1>1, <1>2, <1>3, SteadyTame

\* Any close of a socket.
LEMMA ClosedHolds ==
    ASSUME SocketInv, NEW s \in Sock, page.sock[s] \in {"connecting", "open", "closing"},
           page' = OnClosed(page, s), UNCHANGED <<typed, answered, regains>>
    PROVE  StepHolds
<1>0. Sound(page) /\ regains \in Nat /\ page.resyncs \in Nat
  BY DEF SocketInv, TypeOK, Page
<1>1. /\ Sound(page') /\ (Left(page') <=> Left(page))
      /\ Closing(page') = Closing(page) \ {s} /\ page'.resyncs = page.resyncs
      /\ page'.reported = page.reported
      /\ Linked(page) => Linked(page') /\ (Retries(page) => Retries(page'))
      /\ \A m : Tame(page, page', m)
  BY <1>0, ClosedKeeps
<1>2. Cardinality(Closing(page')) <= Cardinality(Closing(page))
  BY <1>1, ClosingFinite, FS_Subset
<1>3. Cardinality(Closing(page)) \in Nat /\ Cardinality(Closing(page')) \in Nat
  BY ClosingFinite
<1>4. Budget'
  <2>1. Cardinality(Closing(page)) + page.resyncs <= 2 * regains + (IF Left(page) THEN 1 ELSE 0)
    BY DEF SocketInv, Budget
  <2>2. Cardinality(Closing(page')) + page'.resyncs
          <= 2 * regains + (IF Left(page) THEN 1 ELSE 0)
    BY <1>0, <1>1, <1>2, <1>3, <2>1
  <2> QED
    BY <1>1, <2>2 DEF Budget
<1>5. OnceInv => OnceInv'
  BY <1>1, TameStep
<1> QED
  BY <1>1, <1>4, <1>5 DEF StepHolds, TryInv

\* A frame leaves its socket for the engine, which accepts or rejects it.
LEMMA DeliverHolds == ASSUME SocketInv, NEW s \in Sock, Deliver(s) PROVE StepHolds
<1>0. /\ page \in Page /\ Sound(page) /\ page.out[s] # <<>> /\ page.out[s] \in Seq(Frame)
      /\ answered \in [Msg -> {"none", "accepted", "rejected"}]
      /\ UNCHANGED <<typed, regains>>
  BY DEF Deliver, SocketInv, TypeOK, Page
<1>1. PICK f \in Frame, o \in Seq(Frame) : f = Head(page.out[s]) /\ o = Tail(page.out[s])
  BY <1>0, TailHas
<1>2. page' = [page EXCEPT !.out[s] = o]
  BY <1>0, <1>1 DEF Deliver, Page
<1>3. \/ f = "stop" /\ answered' = answered
      \/ f \in Msg /\ \E v \in {"accepted", "rejected"} : answered' = [answered EXCEPT ![f] = v]
  BY <1>1 DEF Deliver, Frame
<1>4. PICK q : q = page'
  OBVIOUS
<1>5. /\ q.sock = page.sock /\ q.ws = page.ws /\ q.muted = page.muted
      /\ q.closedByUser = page.closedByUser
      /\ q.connected = page.connected /\ q.resyncing = page.resyncing /\ q.resyncs = page.resyncs
      /\ q.checks = page.checks /\ q.queue = page.queue /\ q.eventQueue = page.eventQueue
      /\ q.reported = page.reported /\ q.turnActive = page.turnActive
      /\ q.ladder = page.ladder /\ q.revive = page.revive
      /\ q.out = [page.out EXCEPT ![s] = o]
  BY <1>0, <1>2, <1>4 DEF Page
<1>6. \A t \in Sock : q.out[t] = IF t = s THEN o ELSE page.out[t]
  BY <1>0, <1>5 DEF Page
<1>7. q \in Page
  <2>1. page.out \in [Sock -> Seq(Frame)]
    BY <1>0 DEF Page
  <2> QED
    BY <1>0, <1>2, <1>4, <2>1 DEF Page
<1>8. Sound(q) /\ Closing(q) = Closing(page) /\ (Left(q) <=> Left(page))
  BY <1>0, <1>5, <1>7 DEF Sound, Current, Quiet, Closing, Left
<1>9. TryInv => TryInv'
  BY <1>4, <1>5 DEF TryInv, Linked, Heard, Retries, Alive
<1>10. Budget'
  BY <1>0, <1>4, <1>5, <1>8 DEF SocketInv, Budget
<1>11. \A m : Tame(page, q, m)
  <2> TAKE m
  <2>1. Less(page.out[s], o, m)
    BY <1>0, <1>1, TailHas DEF Less
  <2>2. \A t \in Sock : Less(page.out[t], q.out[t], m)
    BY <1>6, <2>1, LessSame
  <2> QED
    BY <1>5, <2>2, FewerTame, LessSame
<1>12. CASE f = "stop" /\ answered' = answered
  <2>1. OnceInv => OnceInv'
    BY <1>0, <1>4, <1>5, <1>11, <1>12, TameStep
  <2> QED
    BY <1>4, <1>8, <1>9, <1>10, <2>1 DEF StepHolds
<1>13. CASE f \in Msg /\ \E v \in {"accepted", "rejected"} : answered' = [answered EXCEPT ![f] = v]
  <2>1. Has(page.out[s], f) /\ (Single(page.out[s], f) => ~Has(o, f))
    BY <1>0, <1>1, TailHas
  <2>2. Once(page, f) => Nowhere(q, f)
    BY <1>5, <1>6, <2>1 DEF Once, Nowhere, Sent
  <2>3. ASSUME OnceInv, NEW k \in Msg
        PROVE  /\ Once(q, k)
               /\ k \notin typed \/ k \in q.reported \/ answered'[k] # "none" => Nowhere(q, k)
               /\ k \notin typed => k \notin q.reported /\ answered'[k] = "none"
               /\ k \in q.reported => answered'[k] = "none"
    <3>1. CASE k = f
      <4>1. ~Nowhere(page, f)
        BY <2>1 DEF Nowhere, Sent
      <4> QED
        BY <1>5, <2>2, <2>3, <3>1, <4>1, NowhereOnce DEF OnceInv
    <3>2. CASE k # f
      <4>1. answered'[k] = answered[k]
        BY <1>0, <1>13, <3>2
      <4> QED
        BY <1>5, <1>11, <2>3, <3>2, <4>1 DEF OnceInv, Tame
    <3> QED
      BY <3>1, <3>2
  <2>4. OnceInv => OnceInv'
    BY <1>0, <1>4, <2>3 DEF OnceInv
  <2> QED
    BY <1>4, <1>8, <1>9, <1>10, <2>4 DEF StepHolds
<1> QED
  BY <1>3, <1>12, <1>13

LEMMA ReceiveHolds == ASSUME SocketInv, Receive PROVE StepHolds
<1>0. Sound(page) /\ ~Left(page) /\ UNCHANGED <<typed, answered, regains>>
  BY DEF Receive, Ready, Left, SocketInv
<1>1. page' = OnTerminal(page, Head(feed))
  BY DEF Receive
<1>2. Steady(page, page') /\ \A m \in Msg : Tame(page, page', m)
  BY <1>0, <1>1, SpareNow, TerminalKeeps
<1> QED
  BY <1>0, <1>2, SteadyTame

LEMMA BreaksHolds == ASSUME SocketInv, NEW how, Breaks(how) PROVE StepHolds
<1>0. page \in Page /\ Sound(page) /\ UNCHANGED <<typed, answered, regains>>
  BY DEF Breaks, SocketInv, Sound
<1>1. CASE Ready(page, {"open"})
  <2>1. page.ws \in Sock /\ page.sock[page.ws] = "open"
    BY <1>0, <1>1 DEF Ready, Page
  <2>2. page' = OnClosed(page, page.ws)
    BY <1>1 DEF Breaks
  <2> QED
    BY <1>0, <2>1, <2>2, ClosedHolds
<1>2. CASE ~Ready(page, {"open"})
  BY <1>0, <1>2, StaysSame DEF Breaks
<1> QED
  BY <1>1, <1>2

-----------------------------------------------------------------------------
(* The theorems *)

\* Beside the page, the types of what a step may change.
LEMMA RestTyped ==
    ASSUME TypeOK, [Next]_vars, page' \in Page
    PROVE  TypeOK'
<1> USE ClientAssumption
<1>1. CASE UNCHANGED vars
  BY <1>1 DEF vars, TypeOK
<1>2. CASE User
  <2>1. CASE \E m \in Msg : TapSend(m) \/ TapQueue(m)
    <3>1. PICK m \in Msg : TapSend(m) \/ TapQueue(m)
      BY <2>1
    <3>2. m \in Msg /\ \E p : Typed(m, p)
      BY <3>1 DEF TapSend, TapQueue
    <3> QED
      BY <3>2 DEF Typed, TypeOK
  <2>2. CASE Regain
    BY <2>2 DEF Regain, TypeOK
  <2>3. CASE OpenChat \/ TapStop \/ ChangeModel \/ Leave \/ \E i \in DOMAIN page.queue : TapQueued(i)
    <3>1. UNCHANGED <<typed, turn, answered, feed, net, breaks, regains>>
      BY <2>3 DEF OpenChat, TapStop, ChangeModel, Leave, TapQueued, Become
    <3> QED
      BY <3>1 DEF TypeOK
  <2> QED
    BY <1>2, <2>1, <2>2, <2>3 DEF User
<1>3. CASE Timer
  BY <1>3 DEF Timer, LadderFires, ResyncFires, ReviveTicks, CheckSends, CheckGivesUp,
              Become, TypeOK
<1>4. CASE \E s \in Sock : Socket(s)
  BY <1>4 DEF Socket, SocketOpens, SocketFails, SocketCloses, Become, TypeOK
<1>5. CASE \E s \in Sock : Deliver(s)
  <2>1. PICK s \in Sock : Deliver(s)
    BY <1>5
  <2>2. PICK f : f = Head(page.out[s])
    OBVIOUS
  <2>3. /\ \/ feed' = feed
           \/ \E e \in {"idle", "error"} : feed' = Append(feed, e)
        /\ turn' = turn \/ turn' \in {"running", "ending"}
        /\ \/ answered' = answered
           \/ \E v \in {"accepted", "rejected"} : answered' = [answered EXCEPT ![f] = v]
    BY <2>1, <2>2 DEF Deliver, Tell
  <2>4. feed' \in Seq({"idle", "error"}) /\ turn' \in {"free", "running", "ending"}
    BY <2>3 DEF TypeOK
  <2>5. answered' \in [Msg -> {"none", "accepted", "rejected"}]
    BY <2>3 DEF TypeOK
  <2> QED
    BY <2>1, <2>4, <2>5 DEF Deliver, TypeOK
<1>6. CASE Release \/ \E status \in {"idle", "error"} : TurnEnds(status)
  BY <1>6 DEF Release, TurnEnds, Tell, TypeOK
<1>7. CASE Receive
  <2>1. feed' \in Seq({"idle", "error"})
    BY <1>7 DEF Receive, TypeOK
  <2> QED
    BY <1>7, <2>1 DEF Receive, TypeOK
<1>8. CASE (\E how \in {"down", "frozen"} : Breaks(how)) \/ NetBack
  BY <1>8 DEF Breaks, NetBack, TypeOK
<1> QED
  BY <1>1, <1>2, <1>3, <1>4, <1>5, <1>6, <1>7, <1>8 DEF Next, Engine

LEMMA NextHolds == ASSUME SocketInv, [Next]_vars PROVE StepHolds
<1>1. CASE UNCHANGED vars
  BY <1>1, StaysSame DEF vars
<1>2. CASE User
  BY <1>2, OpenChatHolds, StopHolds, RegainHolds, LeaveHolds, TapSendHolds, TapQueueHolds,
     TapQueuedHolds DEF User
<1>3. CASE Timer
  BY <1>3, LadderHolds, ResyncFiresHolds, ReviveHolds, CheckSendsHolds, GivesUpHolds DEF Timer
<1>4. CASE \E s \in Sock : Socket(s)
  <2>1. PICK s \in Sock : Socket(s)
    BY <1>4
  <2>2. CASE SocketOpens(s)
    BY <2>2, OpensHolds
  <2>3. CASE SocketFails(s)
    BY <2>3, ClosedHolds DEF SocketFails, Become
  <2>4. CASE SocketCloses(s)
    BY <2>4, ClosedHolds DEF SocketCloses, Become
  <2> QED
    BY <2>1, <2>2, <2>3, <2>4 DEF Socket
<1>5. CASE Engine
  <2>1. CASE \E s \in Sock : Deliver(s)
    BY <2>1, DeliverHolds
  <2>2. CASE Release \/ \E status \in {"idle", "error"} : TurnEnds(status)
    BY <2>2, StaysSame DEF Release, TurnEnds
  <2> QED
    BY <1>5, <2>1, <2>2 DEF Engine
<1>6. CASE Receive
  BY <1>6, ReceiveHolds
<1>7. CASE \E how \in {"down", "frozen"} : Breaks(how)
  BY <1>7, BreaksHolds
<1>8. CASE NetBack
  BY <1>8, StaysSame DEF NetBack
<1> QED
  BY <1>1, <1>2, <1>3, <1>4, <1>5, <1>6, <1>7, <1>8 DEF Next

LEMMA NewPageSound == NewPage \in Page /\ Sound(NewPage) /\ Closing(NewPage) = {}
<1>1. <<>> \in Seq(Frame) /\ <<>> \in Seq(Msg) /\ 0 \in Nat
  OBVIOUS
<1>2. 0 \in 0..LongRungs + ShortRungs
  BY ClientAssumption
<1>3. NewPage \in Page
  BY <1>1, <1>2 DEF NewPage, Page
<1> QED
  BY <1>3 DEF NewPage, Sound, Current, Quiet, Left, Closing, Live

LEMMA InitHolds == ASSUME Init PROVE SocketInv /\ OnceInv /\ TryInv
<1>1. TypeOK
  <2>1. <<>> \in Seq({"idle", "error"})
    OBVIOUS
  <2> QED
    BY <2>1, NewPageSound, ClientAssumption DEF Init, TypeOK
<1>2. Budget
  <2>1. page.resyncs = 0 /\ regains = 0 /\ ~Left(page)
    BY DEF Init, NewPage, Left
  <2>2. Cardinality(Closing(page)) = 0
    BY NewPageSound, FS_EmptySet DEF Init
  <2> QED
    BY <2>1, <2>2 DEF Budget
<1>3. OnceInv
  <2> SUFFICES ASSUME NEW m \in Msg
               PROVE  Nowhere(page, m) /\ m \notin page.reported /\ answered[m] = "none"
    BY NowhereOnce DEF OnceInv
  <2>1. page.queue = <<>> /\ page.eventQueue = <<>> /\ page.checks = {}
        /\ page.reported = {} /\ \A s \in Sock : page.out[s] = <<>>
    BY DEF Init, NewPage
  <2> QED
    BY <2>1, EmptyHas DEF Nowhere, Sent, Init
<1>4. TryInv
  BY DEF Init, NewPage, TryInv, Linked, Retries
<1> QED
  BY <1>1, <1>2, <1>3, <1>4, NewPageSound DEF SocketInv, Init

LEMMA SocketsHold == Spec => []SocketInv
<1>1. SocketInv /\ [Next]_vars => SocketInv'
  BY NextHolds, RestTyped DEF SocketInv, StepHolds, Sound
<1> QED
  BY <1>1, InitHolds, PTL DEF Spec

\* Every variable keeps its type for any messages, ladders and bounds: no rung
\* count runs over the longer ladder, no poll or report is of anything but a
\* message, and the sockets the page needs never run out.
THEOREM TypeCorrect == Spec => []TypeOK
<1>1. SocketInv => TypeOK
  BY DEF SocketInv
<1> QED
  BY <1>1, SocketsHold, PTL

\* connect, resync, close and the ladder never leave the chat with two sockets
\* that connect or are open, however many timers still run for it.
THEOREM OneSocketAtATime == Spec => []OneLiveSocket
<1>1. SocketInv => OneLiveSocket
  <2> SUFFICES ASSUME SocketInv PROVE OneLiveSocket
    OBVIOUS
  <2> DEFINE live == {s \in Sock : page.sock[s] \in {"connecting", "open"}}
  <2>1. live \subseteq {page.ws}
    BY DEF SocketInv, Sound, Current, Live
  <2>2. IsFiniteSet({page.ws}) /\ Cardinality({page.ws}) = 1
    BY FS_Singleton
  <2>3. Cardinality(live) <= Cardinality({page.ws})
    BY <2>1, <2>2, FS_Subset
  <2> QED
    BY <2>2, <2>3 DEF OneLiveSocket
<1> QED
  BY <1>1, SocketsHold, PTL

\* A client that counts a turn as active always has its next attempt to
\* connect, or the close of a socket, before it.
THEOREM AttemptAlwaysAhead == Spec => []NeverStranded
<1>1. Init => SocketInv /\ TryInv
  BY InitHolds
<1>2. SocketInv /\ TryInv /\ [Next]_vars => TryInv'
  BY NextHolds DEF StepHolds
<1>3. TryInv => NeverStranded
  BY DEF TryInv, Retries, Alive, NeverStranded
<1> QED
  BY <1>1, <1>2, <1>3, SocketsHold, PTL DEF Spec

LEMMA MessagesHold == Spec => []OnceInv
<1>1. SocketInv /\ OnceInv /\ [Next]_vars => OnceInv'
  BY NextHolds DEF StepHolds
<1>2. Init => OnceInv
  BY InitHolds
<1> QED
  BY <1>1, <1>2, SocketsHold, PTL DEF Spec

\* Nothing carries a message that is nowhere, and the engine has not got it.
LEMMA NowhereNoPlace ==
    ASSUME NEW m \in Msg, Nowhere(page, m), answered[m] = "none"
    PROVE  Places(m) = {}
  BY DEF Nowhere, Sent, Has, Places, At

\* Two places of a message are the same place.
LEMMA PlacesAgree ==
    ASSUME NEW m \in Msg, Once(page, m), answered[m] # "none" => Nowhere(page, m)
    PROVE  \A x, y \in Places(m) : x = y
<1> SUFFICES ASSUME NEW x \in Places(m), NEW y \in Places(m)
             PROVE  x = y
  OBVIOUS
<1> DEFINE In(z) ==
      \/ m \in page.checks /\ z = <<"poll">>
      \/ \E i \in DOMAIN page.queue : page.queue[i] = m /\ z = <<"queue", i>>
      \/ \E i \in DOMAIN page.eventQueue : page.eventQueue[i] = m /\ z = <<"frames", i>>
      \/ \E s \in Sock : \E i \in DOMAIN page.out[s] :
            page.out[s][i] = m /\ z = <<"socket", s, i>>
      \/ answered[m] # "none" /\ z = <<"engine">>
<1>1. \A z \in Places(m) : In(z)
  BY DEF Places, At
<1>2. In(x) /\ In(y)
  BY <1>1
<1>3. CASE answered[m] # "none"
  BY <1>2, <1>3 DEF Nowhere, Sent, Has
<1>4. CASE answered[m] = "none"
  <2>1. CASE m \in page.checks
    BY <1>2, <1>4, <2>1 DEF Once, Has, Sent
  <2>2. CASE Has(page.queue, m)
    BY <1>2, <1>4, <2>2 DEF Once, Has, Sent, Single
  <2>3. CASE Has(page.eventQueue, m)
    BY <1>2, <1>4, <2>3 DEF Once, Has, Sent, Single
  <2>4. CASE Sent(page, m)
    <3>1. PICK s \in Sock : Has(page.out[s], m)
      BY <2>4 DEF Sent
    <3>2. \A t \in Sock : Has(page.out[t], m) => t = s
      BY <3>1 DEF Once
    <3>3. m \notin page.checks /\ ~Has(page.queue, m) /\ ~Has(page.eventQueue, m)
      BY <2>4 DEF Once
    <3>4. \A z : In(z) => \E i \in DOMAIN page.out[s] : page.out[s][i] = m /\ z = <<"socket", s, i>>
      BY <1>4, <3>2, <3>3 DEF Has
    <3>5. Single(page.out[s], m)
      BY DEF Once
    <3> QED
      BY <1>2, <3>4, <3>5 DEF Single
  <2> QED
    BY <1>2, <1>4, <2>1, <2>2, <2>3, <2>4 DEF Has, Sent
<1> QED
  BY <1>3, <1>4

\* A message that the user typed once is in one place of the page, or with the
\* engine, and never in two: no resync, rung, poll or parked queue sends it a
\* second time.
THEOREM SentAtMostOnce == Spec => []SentOnce
<1>1. OnceInv => SentOnce
  <2> SUFFICES ASSUME OnceInv, NEW m \in Msg
               PROVE  Cardinality(Places(m)) <= 1
    BY DEF SentOnce
  <2>1. \A x, y \in Places(m) : x = y
    BY PlacesAgree DEF OnceInv
  <2>2. CASE Places(m) = {}
    BY <2>2, FS_EmptySet
  <2>3. CASE Places(m) # {}
    <3>1. PICK x \in Places(m) : Places(m) = {x}
      BY <2>1, <2>3
    <3> QED
      BY <3>1, FS_Singleton
  <2> QED
    BY <2>2, <2>3
<1> QED
  BY <1>1, MessagesHold, PTL

\* What the user was told had not been sent is not sent afterwards by anything
\* that still ran when he was told.
THEOREM ReportedNeverSent == Spec => []ReportedIsNotSent
<1>1. SocketInv /\ OnceInv => ReportedIsNotSent
  <2> SUFFICES ASSUME SocketInv, OnceInv, NEW m \in page.reported
               PROVE  Places(m) = {}
    BY DEF ReportedIsNotSent
  <2>1. m \in Msg
    BY DEF SocketInv, TypeOK, Page
  <2> QED
    BY <2>1, NowhereNoPlace DEF OnceInv
<1> QED
  BY <1>1, SocketsHold, MessagesHold, PTL

=============================================================================
