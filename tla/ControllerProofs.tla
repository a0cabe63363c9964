-------------------------- MODULE ControllerProofs --------------------------
(***************************************************************************)
(* Proofs about what the driver holds, for any number of IO queues, of     *)
(* interrupts granted and of queues asked for, whatever step fails and     *)
(* whenever the device is pulled.                                          *)
(*                                                                         *)
(* The steps of a call are a program.  A certificate of a program gives    *)
(* for each place of it a set of states: each step leads from the set of   *)
(* its place to that of the next one, a step that fails leads through its  *)
(* labels to a state between two calls, and all states on the way are      *)
(* safe, that is, closed under MadeFrom.  Certificates compose: the        *)
(* lemmas follow the functions of DriverCalls, from one resource to        *)
(* attachDevice.  The invariant says that the call under way has a         *)
(* certificate which holds the present state at the present place.         *)
(***************************************************************************)
EXTENDS Controller, FiniteSetTheorems, WellFoundedInduction, TLAPS

-----------------------------------------------------------------------------
(* Programs and their certificates.                                        *)

(* The steps, the names and the resources, as sets.                        *)
Dos == {"get", "ask", "add", "try", "put", "drop", "cookies", "grant", "refuse", "gate"}
BodyNames == {"cqInfo", "cqLock", "cqPages", "cqVa", "cqSgIn", "cqSgOut",
              "sqInfo", "sqLock", "sqPages", "sqVa", "sqSgIn", "sqSgOut",
              "cmdList", "cmdLock", "cmdArray", "stats"}
QueueNames == BodyNames \cup {"exists", "active", "isIntrEnabled", "pollEnabled", "vector",
                              "pollHandler", "counted"}
Names == QueueNames \cup
  {"heap", "log", "memPool", "lock", "mgmt", "driver", "ctrlr", "bar", "dmaEngine", "sgHandle",
   "lockDomain", "queueList", "cookies", "intrArray", "msiHandler", "listed", "IODmaEngine",
   "adapter", "device", "controller", "registered", "timerQueue", "timer", "kvMgmt", "none"}
Tokens == Names \X Nat
Cookies == <<"cookies", 0>>
Listed == <<"listed", 0>>
QueueList == <<"queueList", 0>>

(* The labels of a step give back and cannot fail.                         *)
Undos == [do : {"put", "drop"}, token : Tokens, undo : {<<>>}, if : {{}}, want : {0}]
StepRec == [do : Dos, token : Tokens, undo : Seq(Undos), if : SUBSET Tokens, want : Int]
Programs == Seq(StepRec)

(* What is held without the resources T, the queue list with its contents; *)
(* what the first i labels give back.                                      *)
Without(h, T) == {t \in h : t \notin T /\ ~(t[1] = "exists" /\ QueueList \in T)}
Given(u, i) == {u[j].token : j \in 1..i}
(* From h, the labels u give back what is held, pass through states of S   *)
(* and end in F.                                                           *)
Unwinds(S, u, h, F) ==
  /\ u \in Seq(Undos)
  /\ \A i \in 1..Len(u) :
       u[i].do = "put" => u[i].token \in Without(h, Given(u, i - 1))
  /\ \A i \in 0..Len(u) : Without(h, Given(u, i)) \in S
  /\ Without(h, Given(u, Len(u))) \in F

(* What a program of kind k may do: "lists" when it puts the controller on *)
(* the list, "grants" when it sets the number of queues, "tries" when some *)
(* failure is ignored.                                                     *)
Kind(k, s) ==
  /\ s.token = Cookies => s.do \in {"cookies", "put", "drop"}
  /\ s.do = "cookies" => s.token = Cookies
  /\ s.token = Listed /\ s.do \in {"get", "add", "try"} => "lists" \in k
  /\ s.do = "grant" => "grants" \in k
(* Step s, from h: a success leads to "next", a failure through the labels *)
(* to F.                                                                   *)
StepOK(S, k, s, h, next, F) ==
  /\ s.do \in {"get", "add", "cookies"} => h \cup {s.token} \in next
  /\ s.do \in {"ask", "gate", "grant"} => h \in next
  /\ s.do \in {"get", "cookies", "ask", "gate", "refuse", "grant"} => Unwinds(S, s.undo, h, F)
  /\ s.do \in {"put", "drop"} => Without(h, {s.token}) \in next
  /\ s.do = "put" => s.token \in h
  /\ s.do = "cookies" => Cookies \notin h \/ Listed \notin h
  /\ s.do = "try" =>
       IF s.token \in h \/ ~(s.if \subseteq h) THEN h \in next
       ELSE "tries" \in k /\ h \cup {s.token} \in next /\ Unwinds(S, s.undo, h, next)
(* C gives, for each place of p, the states it may be reached in.          *)
Certified(S, k, p, C, F) ==
  /\ C \in [1..Len(p) + 1 -> SUBSET S]
  /\ \A i \in 1..Len(p) :
       Kind(k, p[i]) /\ \A h \in C[i] : StepOK(S, k, p[i], h, C[i + 1], F)
(* From P, the program p ends in Q, or fails in F, through states of S; it *)
(* gives back only what is held.                                           *)
Does(S, k, p, P, Q, F) ==
  /\ p \in Programs
  /\ \E C : Certified(S, k, p, C, F) /\ P \subseteq C[1] /\ C[Len(p) + 1] \subseteq Q

(* Labels that end in F end in what contains F.                            *)
LEMMA UnwindsMore ==
  ASSUME NEW S, NEW u, NEW h, NEW F, NEW G, F \subseteq G, Unwinds(S, u, h, F)
  PROVE  Unwinds(S, u, h, G)
BY DEF Unwinds

(* A step that is certified stays so when more is allowed after it.        *)
LEMMA StepOKMore ==
  ASSUME NEW S, NEW k, NEW l, k \subseteq l, NEW s, NEW h, NEW M, NEW N, M \subseteq N,
         NEW F, NEW G, F \subseteq G, StepOK(S, k, s, h, M, F)
  PROVE  StepOK(S, l, s, h, N, G)
BY UnwindsMore DEF StepOK

(* The empty program: an IF of the code that is not taken.                 *)
LEMMA DoesNothing ==
  ASSUME NEW S, NEW k, NEW P, P \subseteq S, NEW F
  PROVE  Does(S, k, <<>>, P, P, F)
<1>1. Certified(S, k, <<>>, [i \in 1..1 |-> P], F)
  BY DEF Certified
<1> QED BY <1>1 DEF Does, Programs

(* The program of one certified step.                                      *)
LEMMA DoesStep ==
  ASSUME NEW S, NEW k, NEW s \in StepRec, NEW P, NEW Q, NEW F,
         P \subseteq S, Q \subseteq S, Kind(k, s),
         \A h \in P : StepOK(S, k, s, h, Q, F)
  PROVE  Does(S, k, <<s>>, P, Q, F)
<1> DEFINE C == [i \in 1..2 |-> IF i = 1 THEN P ELSE Q]
<1>0. Len(<<s>>) = 1 /\ <<s>>[1] = s /\ <<s>> \in Programs BY DEF Programs
<1>1. C[1] = P /\ C[2] = Q  OBVIOUS
<1>2. Certified(S, k, <<s>>, C, F)
  BY <1>0, <1>1 DEF Certified
<1> QED BY <1>0, <1>1, <1>2 DEF Does

(* A program may begin in fewer states, and end and fail in more.          *)
LEMMA DoesMore ==
  ASSUME NEW S, NEW k, NEW l, k \subseteq l, NEW p, NEW P, NEW O, O \subseteq P,
         NEW Q, NEW R, Q \subseteq R, NEW F, NEW G, F \subseteq G, Does(S, k, p, P, Q, F)
  PROVE  Does(S, l, p, O, R, G)
<1>1. PICK C : Certified(S, k, p, C, F) /\ P \subseteq C[1] /\ C[Len(p) + 1] \subseteq Q
  BY DEF Does
<1>2. \A i \in 1..Len(p) : Kind(l, p[i])
  BY <1>1 DEF Certified, Kind
<1>3. Certified(S, l, p, C, G)
  BY <1>1, <1>2, StepOKMore DEF Certified
<1> QED BY <1>1, <1>3 DEF Does

(* One program after the other: the certificates are joined.               *)
LEMMA DoesBoth ==
  ASSUME NEW S, NEW k, NEW p, NEW q, NEW P, NEW Q, NEW R, NEW F,
         Does(S, k, p, P, Q, F), Does(S, k, q, Q, R, F)
  PROVE  Does(S, k, p \o q, P, R, F)
<1>1. PICK C : Certified(S, k, p, C, F) /\ P \subseteq C[1] /\ C[Len(p) + 1] \subseteq Q
  BY DEF Does
<1>2. PICK D : Certified(S, k, q, D, F) /\ Q \subseteq D[1] /\ D[Len(q) + 1] \subseteq R
  BY DEF Does
<1>3. /\ p \in Programs /\ q \in Programs /\ p \o q \in Programs
      /\ Len(p) \in Nat /\ Len(q) \in Nat /\ Len(p \o q) = Len(p) + Len(q)
      /\ \A i \in 1..Len(p) : (p \o q)[i] = p[i]
      /\ \A i \in 1..Len(q) : (p \o q)[Len(p) + i] = q[i]
  BY DEF Does, Programs
<1> DEFINE E == [i \in 1..Len(p \o q) + 1 |-> IF i <= Len(p) THEN C[i] ELSE D[i - Len(p)]]
<1>4. /\ \A i \in 1..Len(p) : E[i] = C[i]
      /\ \A i \in 1..Len(q) + 1 : E[Len(p) + i] = D[i]
      /\ \A i \in 1..Len(p) + 1 : C[i] \in SUBSET S
      /\ \A i \in 1..Len(q) + 1 : D[i] \in SUBSET S
  <2>1. \A i \in 1..Len(p) : E[i] = C[i]
    BY <1>3
  <2>2. \A i \in 1..Len(q) + 1 : E[Len(p) + i] = D[i]
    BY <1>3
  <2>3. /\ \A i \in 1..Len(p) + 1 : C[i] \in SUBSET S
        /\ \A i \in 1..Len(q) + 1 : D[i] \in SUBSET S
    BY <1>1, <1>2 DEF Certified
  <2> QED
    BY <2>1, <2>2, <2>3
<1>5. E \in [1..Len(p \o q) + 1 -> SUBSET S]
  BY <1>3, <1>4
<1>6. ASSUME NEW i \in 1..Len(p)
      PROVE  Kind(k, (p \o q)[i]) /\ \A h \in E[i] : StepOK(S, k, (p \o q)[i], h, E[i + 1], F)
  <2>1. C[i + 1] \subseteq E[i + 1]
    <3> HIDE DEF E
    <3>0. Len(p) \in Nat  BY <1>3
    <3>1. CASE i < Len(p)  BY <3>0, <3>1, <1>4
    <3>2. CASE i = Len(p)
      <4>1. E[Len(p) + 1] = D[1]  BY <1>3, <1>4
      <4> QED BY <4>1, <3>2, <1>1, <1>2
    <3> QED BY <3>0, <3>1, <3>2
  <2>2. Kind(k, p[i]) /\ \A h \in C[i] : StepOK(S, k, p[i], h, C[i + 1], F)
    BY <1>1 DEF Certified
  <2> HIDE DEF E
  <2> QED BY <2>1, <2>2, <1>3, <1>4, StepOKMore
<1>7. ASSUME NEW i \in 1..Len(q)
      PROVE  /\ Kind(k, (p \o q)[Len(p) + i])
             /\ \A h \in E[Len(p) + i] :
                  StepOK(S, k, (p \o q)[Len(p) + i], h, E[(Len(p) + i) + 1], F)
  <2>1. E[(Len(p) + i) + 1] = D[i + 1]
    <3>1. (Len(p) + i) + 1 = Len(p) + (i + 1) /\ i + 1 \in 1..Len(q) + 1
      BY <1>3
    <3> HIDE DEF E
    <3> QED BY <3>1, <1>4
  <2>2. Kind(k, q[i]) /\ \A h \in D[i] : StepOK(S, k, q[i], h, D[i + 1], F)
    BY <1>2 DEF Certified
  <2>3. E[Len(p) + i] = D[i]  
    <3> HIDE DEF E
    <3> QED BY <1>3, <1>4
  <2> HIDE DEF E
  <2> QED BY <2>1, <2>2, <2>3, <1>3
<1> HIDE DEF E
<1>8. ASSUME NEW i \in 1..Len(p \o q)
      PROVE  Kind(k, (p \o q)[i]) /\ \A h \in E[i] : StepOK(S, k, (p \o q)[i], h, E[i + 1], F)
  <2>1. CASE i <= Len(p)  BY <2>1, <1>6, <1>3
  <2>2. CASE i > Len(p)
    <3>1. i - Len(p) \in 1..Len(q) /\ Len(p) + (i - Len(p)) = i  BY <2>2, <1>3
    <3>2. PICK j \in 1..Len(q) : Len(p) + j = i  BY <3>1
    <3> QED BY <3>2, <1>7
  <2> QED BY <2>1, <2>2, <1>3
<1>9. Certified(S, k, p \o q, E, F)
  BY <1>5, <1>8 DEF Certified
<1>10. P \subseteq E[1]
  <2>1. CASE Len(p) = 0
    <3>1. E[Len(p) + 1] = D[1]  BY <1>3, <1>4
    <3> QED BY <3>1, <2>1, <1>1, <1>2
  <2>2. CASE Len(p) > 0  BY <2>2, <1>1, <1>3, <1>4
  <2> QED BY <2>1, <2>2, <1>3
<1>11. E[Len(p \o q) + 1] \subseteq R
  <2>1. Len(p \o q) + 1 = Len(p) + (Len(q) + 1) /\ Len(q) + 1 \in 1..Len(q) + 1
    BY <1>3
  <2> QED BY <2>1, <1>2, <1>4
<1> QED BY <1>3, <1>9, <1>10, <1>11 DEF Does

(* What a program does from each state it does from all of them: the union *)
(* of the certificates.                                                    *)
LEMMA DoesEach ==
  ASSUME NEW S, NEW k, NEW p, NEW P, P # {}, NEW Q, NEW F,
         \A h \in P : Does(S, k, p, {h}, Q, F)
  PROVE  Does(S, k, p, P, Q, F)
<1> DEFINE Good(C) == Certified(S, k, p, C, F) /\ C[Len(p) + 1] \subseteq Q
           E == [i \in 1..Len(p) + 1 |-> {h \in S : \E C : Good(C) /\ h \in C[i]}]
<1>0. p \in Programs /\ Len(p) \in Nat /\ 1 \in 1..Len(p) + 1 /\ Len(p) + 1 \in 1..Len(p) + 1
  BY DEF Programs, Does
<1>1. \A C : Good(C) => \A i \in 1..Len(p) + 1 : C[i] \subseteq E[i]
  BY DEF Certified
<1>2. ASSUME NEW i \in 1..Len(p), NEW h \in E[i]
      PROVE  StepOK(S, k, p[i], h, E[i + 1], F)
  <2>1. PICK C : Good(C) /\ h \in C[i]
    BY <1>0
  <2>2. StepOK(S, k, p[i], h, C[i + 1], F)
    BY <2>1 DEF Certified
  <2>3. C[i + 1] \subseteq E[i + 1]
    <3>1. i + 1 \in 1..Len(p) + 1  BY <1>0
    <3> HIDE DEF E, Good
    <3> QED BY <3>1, <2>1, <1>1
  <2> HIDE DEF E
  <2> QED BY <2>2, <2>3, StepOKMore
<1>3. PICK h0 \in P : TRUE
  OBVIOUS
<1>4. PICK C0 : Good(C0)
  BY <1>3 DEF Does
<1>5. Certified(S, k, p, E, F)
  <2>1. \A i \in 1..Len(p) : Kind(k, p[i])
    BY <1>4 DEF Certified
  <2>2. E \in [1..Len(p) + 1 -> SUBSET S]
    OBVIOUS
  <2> HIDE DEF E
  <2> QED BY <1>2, <2>1, <2>2 DEF Certified
<1>6. P \subseteq E[1]
  <2>1. ASSUME NEW h \in P PROVE h \in E[1]
    <3>1. PICK C : Good(C) /\ {h} \subseteq C[1]
      BY DEF Does
    <3> HIDE DEF E, Good
    <3> QED BY <3>1, <1>0, <1>1
  <2> QED BY <2>1
<1>7. E[Len(p) + 1] \subseteq Q
  BY <1>0
<1> HIDE DEF E
<1> QED BY <1>0, <1>5, <1>6, <1>7 DEF Does

(* The labels are steps.                                                   *)
LEMMA UndosAreSteps == Undos \subseteq StepRec
<1>1. {"put", "drop"} \subseteq Dos
  BY DEF Dos
<1>2. <<>> \in Seq(Undos)
  OBVIOUS
<1>3. ASSUME NEW x \in Undos PROVE x \in StepRec
  <2>1. x.do \in {"put", "drop"} /\ x.token \in Tokens /\ x.undo = <<>> /\ x.if = {} /\ x.want = 0
    BY DEF Undos
  <2>2. x = [do |-> x.do, token |-> x.token, undo |-> x.undo, if |-> x.if, want |-> x.want]
    BY DEF Undos
  <2>3. x.do \in Dos /\ x.undo \in Seq(Undos) /\ x.if \in SUBSET Tokens /\ x.want \in Int
    BY <2>1, <1>1, <1>2
  <2> QED BY <2>1, <2>2, <2>3 DEF StepRec
<1> QED BY <1>3

(* Giving back twice is giving back the union.                             *)
LEMMA WithoutTwice ==
  ASSUME NEW h, NEW A, NEW B
  PROVE  Without(Without(h, A), B) = Without(h, A \cup B)
BY DEF Without

(* What is given back by a prefix of two sequences of labels.              *)
LEMMA GivenBoth ==
  ASSUME NEW u \in Seq(Undos), NEW v \in Seq(Undos)
  PROVE  /\ \A i \in 0..Len(u) : Given(u \o v, i) = Given(u, i)
         /\ \A i \in 0..Len(v) : Given(u \o v, Len(u) + i) = Given(u, Len(u)) \cup Given(v, i)
<1>1. /\ Len(u) \in Nat /\ Len(v) \in Nat
      /\ \A i \in 1..Len(u) : (u \o v)[i] = u[i]
      /\ \A i \in 1..Len(v) : (u \o v)[Len(u) + i] = v[i]
  OBVIOUS
<1>2. ASSUME NEW i \in 0..Len(u) PROVE Given(u \o v, i) = Given(u, i)
  BY <1>1 DEF Given
<1>3. ASSUME NEW i \in 0..Len(v)
      PROVE  Given(u \o v, Len(u) + i) = Given(u, Len(u)) \cup Given(v, i)
  <2>1. ASSUME NEW t \in Given(u \o v, Len(u) + i)
        PROVE  t \in Given(u, Len(u)) \cup Given(v, i)
    <3>1. PICK j \in 1..(Len(u) + i) : t = (u \o v)[j].token
      BY DEF Given
    <3>2. CASE j <= Len(u)  BY <3>1, <3>2, <1>1 DEF Given
    <3>3. CASE j > Len(u)
      <4>1. PICK n \in 1..i : j = Len(u) + n
        <5>1. j - Len(u) \in 1..i /\ j = Len(u) + (j - Len(u))  BY <3>3, <1>1
        <5> QED BY <5>1
      <4>2. t = v[n].token  BY <4>1, <3>1, <1>1
      <4> QED BY <4>2 DEF Given
    <3> QED BY <3>2, <3>3, <1>1
  <2>2. Given(u, Len(u)) \subseteq Given(u \o v, Len(u) + i)
    BY <1>1 DEF Given
  <2>3. ASSUME NEW n \in 1..i PROVE v[n].token \in Given(u \o v, Len(u) + i)
    <3>1. Len(u) + n \in 1..(Len(u) + i) /\ (u \o v)[Len(u) + n] = v[n]
      BY <1>1
    <3> QED BY <3>1 DEF Given
  <2>4. Given(v, i) \subseteq Given(u \o v, Len(u) + i)
    BY <2>3 DEF Given
  <2> QED BY <2>1, <2>2, <2>4
<1> QED BY <1>2, <1>3

(* A function's labels, then those of its caller.                          *)
LEMMA UnwindsBoth ==
  ASSUME NEW S, NEW u \in Seq(Undos), NEW v \in Seq(Undos), NEW h, NEW F, NEW G,
         Unwinds(S, u, h, G), \A g \in G : Unwinds(S, v, g, F)
  PROVE  Unwinds(S, u \o v, h, F)
<1> DEFINE g == Without(h, Given(u, Len(u)))
<1>1. /\ Len(u) \in Nat /\ Len(v) \in Nat /\ Len(u \o v) = Len(u) + Len(v)
      /\ \A i \in 1..Len(u) : (u \o v)[i] = u[i]
      /\ \A i \in 1..Len(v) : (u \o v)[Len(u) + i] = v[i]
  <2>1. Len(u) \in Nat /\ Len(v) \in Nat /\ Len(u \o v) = Len(u) + Len(v)
    OBVIOUS
  <2>2. ASSUME NEW i \in 1..Len(u) PROVE (u \o v)[i] = u[i]
    BY <2>1
  <2>3. ASSUME NEW i \in 1..Len(v) PROVE (u \o v)[Len(u) + i] = v[i]
    BY <2>1
  <2> QED BY <2>1, <2>2, <2>3
<1>2. Unwinds(S, v, g, F)
  BY DEF Unwinds
<1>3. \A i \in 0..Len(v) :
        Without(g, Given(v, i)) = Without(h, Given(u \o v, Len(u) + i))
  BY WithoutTwice, GivenBoth
<1> HIDE DEF g
<1>4. ASSUME NEW i \in 1..Len(u \o v), (u \o v)[i].do = "put"
      PROVE  (u \o v)[i].token \in Without(h, Given(u \o v, i - 1))
  <2>1. CASE i <= Len(u)
    <3>1. i \in 1..Len(u) /\ i - 1 \in 0..Len(u)  BY <2>1, <1>1
    <3>2. (u \o v)[i] = u[i] /\ Given(u \o v, i - 1) = Given(u, i - 1)
      BY <3>1, <1>1, GivenBoth
    <3> QED BY <3>1, <3>2, <1>4 DEF Unwinds
  <2>2. CASE i > Len(u)
    <3>1. PICK n \in 1..Len(v) : i = Len(u) + n
      <4>1. i - Len(u) \in 1..Len(v) /\ i = Len(u) + (i - Len(u))  BY <2>2, <1>1
      <4> QED BY <4>1
    <3>2. (u \o v)[i] = v[n]  BY <3>1, <1>1
    <3>3. n - 1 \in 0..Len(v) /\ i - 1 = Len(u) + (n - 1)  BY <3>1, <1>1
    <3>4. v[n].token \in Without(g, Given(v, n - 1))
      BY <3>2, <1>2, <1>4 DEF Unwinds
    <3> QED BY <3>2, <3>3, <3>4, <1>3
  <2> QED BY <2>1, <2>2, <1>1
<1>5. ASSUME NEW i \in 0..Len(u \o v)
      PROVE  Without(h, Given(u \o v, i)) \in S
  <2>1. CASE i <= Len(u)
    <3>1. i \in 0..Len(u)  BY <2>1, <1>1
    <3>2. Given(u \o v, i) = Given(u, i)  BY <3>1, GivenBoth
    <3> QED BY <3>1, <3>2 DEF Unwinds
  <2>2. CASE i > Len(u)
    <3>1. PICK n \in 0..Len(v) : i = Len(u) + n
      <4>1. i - Len(u) \in 0..Len(v) /\ i = Len(u) + (i - Len(u))  BY <2>2, <1>1
      <4> QED BY <4>1
    <3> QED BY <3>1, <1>2, <1>3 DEF Unwinds
  <2> QED BY <2>1, <2>2, <1>1
<1>6. Without(h, Given(u \o v, Len(u \o v))) \in F
  BY <1>1, <1>2, <1>3 DEF Unwinds
<1>7. /\ u \in Seq(Undos) => u \o v \in Seq(Undos)
      /\ u \in Seq(Undos)
  OBVIOUS
<1>8. u \o v \in Seq(Undos)
  BY <1>7
<1> HIDE DEF g
<1> QED BY <1>4, <1>5, <1>6, <1>8 DEF Unwinds

(* A destructor that is called is a program as well as a label.            *)
LEMMA UnwindsDoes ==
  ASSUME NEW S, NEW k, NEW u \in Seq(Undos), NEW h, NEW Q, NEW F, Unwinds(S, u, h, Q)
  PROVE  Does(S, k, u, {h}, Q, F)
<1> DEFINE C == [i \in 1..Len(u) + 1 |-> {Without(h, Given(u, i - 1))}]
<1>0. Len(u) \in Nat
  OBVIOUS
<1>1. ASSUME NEW i \in 1..Len(u)
      PROVE  /\ u[i] \in Undos /\ Kind(k, u[i])
             /\ StepOK(S, k, u[i], Without(h, Given(u, i - 1)),
                       {Without(h, Given(u, i))}, F)
  <2>1. u[i].do \in {"put", "drop"} /\ u[i] \in Undos
    <3>1. u[i] \in Undos  OBVIOUS
    <3> QED BY <3>1 DEF Undos
  <2>2. u[i].do = "put" => u[i].token \in Without(h, Given(u, i - 1))
    BY DEF Unwinds
  <2>3. Given(u, i - 1) \cup {u[i].token} = Given(u, i)
    BY DEF Given
  <2>4. Without(Without(h, Given(u, i - 1)), {u[i].token}) = Without(h, Given(u, i))
    BY <2>3, WithoutTwice
  <2>5. u[i].do = "put" \/ u[i].do = "drop"
    BY <2>1
  <2>6. Kind(k, u[i])
    BY <2>5 DEF Kind
  <2> QED BY <2>1, <2>2, <2>4, <2>5, <2>6 DEF StepOK
<1>2. C \in [1..Len(u) + 1 -> SUBSET S]
  BY <1>0 DEF Unwinds
<1>3. \A i \in 1..Len(u) : C[i] = {Without(h, Given(u, i - 1))} /\ C[i + 1] = {Without(h, Given(u, i))}
  BY <1>0
<1>4. Certified(S, k, u, C, F)
  <2> HIDE DEF C
  <2> QED BY <1>1, <1>2, <1>3 DEF Certified
<1>5. u \in Programs
  BY UndosAreSteps DEF Programs
<1>6. h \in C[1]
  BY <1>0 DEF Given, Without
<1>7. C[Len(u) + 1] \subseteq Q
  BY <1>0 DEF Unwinds
<1> HIDE DEF C
<1> QED BY <1>4, <1>5, <1>6, <1>7 DEF Does

(* The caller's labels are appended to those of the callee's steps: a step *)
(* of the callee that fails ends where the caller's labels end.            *)
LEMMA DoesWithin ==
  ASSUME NEW S, NEW k, "tries" \notin k, NEW p, NEW P, NEW Q, NEW F, NEW G,
         NEW u \in Seq(Undos), Does(S, k, p, P, Q, G), \A g \in G : Unwinds(S, u, g, F)
  PROVE  Does(S, k, Within(p, u), P, Q, F)
<1>1. PICK C : Certified(S, k, p, C, G) /\ P \subseteq C[1] /\ C[Len(p) + 1] \subseteq Q
  BY DEF Does
<1>2. p \in Seq(StepRec) /\ DOMAIN p = 1..Len(p) /\ Len(p) \in Nat
  BY DEF Does, Programs
<1>3. ASSUME NEW i \in 1..Len(p)
      PROVE  /\ Within(p, u)[i] \in StepRec
             /\ Within(p, u)[i].undo = p[i].undo \o u
             /\ Within(p, u)[i].do = p[i].do
             /\ Within(p, u)[i].token = p[i].token
             /\ Within(p, u)[i].if = p[i].if
  <2>1. p[i] \in StepRec  BY <1>2
  <2>2. Within(p, u)[i] = [p[i] EXCEPT !.undo = p[i].undo \o u]
    BY <1>2 DEF Within
  <2>3. p[i].undo \o u \in Seq(Undos)
    BY <2>1 DEF StepRec
  <2> QED BY <2>1, <2>2, <2>3 DEF StepRec
<1>4. Within(p, u) \in Programs /\ Len(Within(p, u)) = Len(p)
  <2>1. Within(p, u) = [i \in 1..Len(p) |-> Within(p, u)[i]]
    BY <1>2 DEF Within
  <2>2. Within(p, u) \in [1..Len(p) -> StepRec]
    BY <2>1, <1>3
  <2> QED BY <2>2, <1>2 DEF Programs
<1>5. ASSUME NEW i \in 1..Len(p)
      PROVE  Kind(k, Within(p, u)[i])
             /\ \A h \in C[i] : StepOK(S, k, Within(p, u)[i], h, C[i + 1], F)
  <2>1. Kind(k, p[i]) /\ \A h \in C[i] : StepOK(S, k, p[i], h, C[i + 1], G)
    BY <1>1 DEF Certified
  <2>2. Kind(k, Within(p, u)[i])
    BY <2>1, <1>3 DEF Kind
  <2>3. ASSUME NEW h \in C[i], Unwinds(S, p[i].undo, h, G)
        PROVE  Unwinds(S, p[i].undo \o u, h, F)
    <3>1. p[i] \in StepRec  BY <1>2
    <3>2. p[i].undo \in Seq(Undos)  BY <3>1 DEF StepRec
    <3> QED BY <3>2, <2>3, UnwindsBoth
  <2>4. ASSUME NEW h \in C[i] PROVE StepOK(S, k, Within(p, u)[i], h, C[i + 1], F)
    BY <2>1, <2>3, <1>3 DEF StepOK
  <2> QED BY <2>2, <2>4
<1>6. Certified(S, k, Within(p, u), C, F)
  BY <1>1, <1>4, <1>5 DEF Certified
<1> QED BY <1>1, <1>4, <1>6 DEF Does

-----------------------------------------------------------------------------
(* What is held, and orders to take it in.                                 *)

(* What may be left behind; what is held is closed under MadeFrom; a       *)
(* listed controller has its interrupts, but when "d" says that it may     *)
(* have lost them.                                                         *)
Left(m) ==
  {<<"bar", 0>>, <<"mgmt", 0>>}
  \cup IF m THEN {<<"msiHandler", 0>>, <<"cookies", 0>>, <<"intrArray", 0>>} ELSE {}
Closed(m, h) == \A t \in h \ Left(m) : MadeFrom(t) \subseteq h
Safe(m, d) ==
  {h \in SUBSET Tokens : Closed(m, h) /\ (~m /\ ~d /\ Listed \in h => Cookies \in h)}

(* The first resources of a list, and an order to take them in.            *)
Taken(ts, i) == {ts[j] : j \in 1..i}
Elems(ts) == Taken(ts, Len(ts))
Stacked(S, b, ts) ==
  /\ ts \in Seq(Tokens)
  /\ \A i, j \in 1..Len(ts) : i # j => ts[i] # ts[j]
  /\ \A i \in 1..Len(ts) : ts[i] \notin b \cup {Cookies, Listed, QueueList}
  /\ \A i \in 0..Len(ts) : b \cup Taken(ts, i) \in S

(* A sequence of returned resources is a sequence of labels.               *)
LEMMA PutsTyped ==
  ASSUME NEW ts \in Seq(Tokens), NEW do \in {"put", "drop"}
  PROVE  /\ Each(do, ts) \in Seq(Undos) /\ Len(Each(do, ts)) = Len(ts)
         /\ \A i \in 1..Len(ts) : Each(do, ts)[i].do = do /\ Each(do, ts)[i].token = ts[i]
<1>1. DOMAIN ts = 1..Len(ts) /\ Len(ts) \in Nat
  OBVIOUS
<1>2. \A i \in 1..Len(ts) : Step(do, ts[i]) \in Undos
  BY DEF Step, Undos
<1>3. Each(do, ts) = [i \in 1..Len(ts) |-> Step(do, ts[i])]
  BY <1>1 DEF Each
<1>4. \A i \in 1..Len(ts) : Each(do, ts)[i] = Step(do, ts[i])
  BY <1>3
<1> QED BY <1>1, <1>2, <1>3, <1>4 DEF Step

(* One resource is given back.                                             *)
LEMMA DropOne ==
  ASSUME NEW S, NEW do \in {"put", "drop"}, NEW t \in Tokens \ {QueueList}, NEW h \in S,
         h \ {t} \in S, do = "put" => t \in h
  PROVE  Unwinds(S, Each(do, <<t>>), h, {h \ {t}})
<1> DEFINE u == Each(do, <<t>>)
<1>1. u \in Seq(Undos) /\ Len(u) = 1 /\ u[1].do = do /\ u[1].token = t
  <2> DEFINE ts == <<t>>
  <2>1. ts \in Seq(Tokens) /\ Len(ts) = 1 /\ ts[1] = t /\ 1 \in 1..1
    OBVIOUS
  <2> HIDE DEF ts
  <2>2. /\ Each(do, ts) \in Seq(Undos) /\ Len(Each(do, ts)) = 1
        /\ Each(do, ts)[1].do = do /\ Each(do, ts)[1].token = t
    BY <2>1, PutsTyped
  <2> QED BY <2>2 DEF ts
<1> HIDE DEF u
<1>2. Given(u, 0) = {} /\ Given(u, 1) = {t}
  BY <1>1 DEF Given
<1>3. Without(h, {}) = h /\ Without(h, {t}) = h \ {t}
  BY DEF Without
<1>4. \A i \in 1..1 : i = 1 /\ i - 1 = 0
  OBVIOUS
<1>5. \A i \in 0..1 : i = 0 \/ i = 1
  OBVIOUS
<1>6. Unwinds(S, u, h, {h \ {t}})
  BY <1>1, <1>2, <1>3, <1>4, <1>5 DEF Unwinds
<1> QED BY <1>6 DEF u

(* Reverse, on sequences of resources.                                     *)
LEMMA ReverseIs ==
  ASSUME NEW ts \in Seq(Tokens)
  PROVE  /\ Reverse(ts) \in Seq(Tokens) /\ Len(Reverse(ts)) = Len(ts)
         /\ \A i \in 1..Len(ts) : Reverse(ts)[i] = ts[(Len(ts) - i) + 1]
BY DEF Reverse

(* What was taken in an order in which every prefix is safe can be given   *)
(* back in the reverse one.                                                *)
LEMMA StackUnwinds ==
  ASSUME NEW S, NEW b, NEW ts, Stacked(S, b, ts)
  PROVE  Unwinds(S, Each("put", Reverse(ts)), b \cup Elems(ts), {b})
<1> DEFINE n == Len(ts)
           u == Each("put", Reverse(ts))
           h == b \cup Elems(ts)
<1>0. ts \in Seq(Tokens) /\ n \in Nat
  BY DEF Stacked
<1>1. /\ u \in Seq(Undos) /\ Len(u) = n
      /\ \A i \in 1..n : u[i].do = "put" /\ u[i].token = ts[(n - i) + 1]
  BY <1>0, ReverseIs, PutsTyped
<1> HIDE DEF u
<1>2. ASSUME NEW i \in 0..n PROVE Without(h, Given(u, i)) = b \cup Taken(ts, n - i)
  <2>0. /\ \A t \in Given(u, i) : \E j \in 1..n : t = ts[j] /\ j > n - i
        /\ \A j \in 1..n : j > n - i => ts[j] \in Given(u, i)
    <3>1. ASSUME NEW l \in 1..i
          PROVE  (n - l) + 1 \in 1..n /\ (n - l) + 1 > n - i /\ u[l].token = ts[(n - l) + 1]
      BY <1>0, <1>1
    <3>2. ASSUME NEW j \in 1..n, j > n - i PROVE \E l \in 1..i : u[l].token = ts[j]
      <4>1. (n - j) + 1 \in 1..i /\ (n - ((n - j) + 1)) + 1 = j /\ (n - j) + 1 \in 1..n
        BY <3>2, <1>0
      <4>2. u[(n - j) + 1].token = ts[(n - ((n - j) + 1)) + 1]
        BY <4>1, <1>1
      <4> QED BY <4>1, <4>2
    <3> HIDE DEF n
    <3> QED BY <3>1, <3>2 DEF Given
  <2>1. QueueList \notin Given(u, i)
    BY <2>0 DEF Stacked
  <2>2. \A t \in b : t \notin Given(u, i)
    BY <2>0 DEF Stacked
  <2>3. ASSUME NEW j \in 1..n PROVE ts[j] \in Given(u, i) <=> j > n - i
    BY <2>0 DEF Stacked
  <2>4. Without(h, Given(u, i)) = {t \in h : t \notin Given(u, i)}
    BY <2>1 DEF Without
  <2>5. Taken(ts, n - i) = {t \in Elems(ts) : t \notin Given(u, i)}
    <3>1. \A j \in 1..n : ts[j] \in Elems(ts)
      BY DEF Elems, Taken
    <3>2. \A t \in Elems(ts) : \E j \in 1..n : t = ts[j]
      BY DEF Elems, Taken
    <3>3. \A j \in 1..(n - i) : j \in 1..n /\ ~(j > n - i)
      BY <1>0
    <3>4. \A j \in 1..n : ~(j > n - i) => j \in 1..(n - i)
      BY <1>0
    <3> HIDE DEF n
    <3> QED BY <2>3, <3>1, <3>2, <3>3, <3>4 DEF Taken
  <2> QED BY <2>2, <2>4, <2>5
<1> HIDE DEF h
<1>3. ASSUME NEW i \in 1..n
      PROVE  u[i].token \in Without(h, Given(u, i - 1))
  <2>1. (n - i) + 1 = n - (i - 1) /\ i - 1 \in 0..n /\ (n - i) + 1 \in 1..(n - (i - 1))
    BY <1>0
  <2>2. ts[(n - i) + 1] \in Taken(ts, n - (i - 1))
    BY <2>1 DEF Taken
  <2> HIDE DEF n
  <2> QED BY <1>1, <1>2, <2>1, <2>2
<1>4. \A i \in 0..n : n - i \in 0..n
  BY <1>0
<1>5. \A i \in 0..n : Without(h, Given(u, i)) \in S
  BY <1>2, <1>4 DEF Stacked
<1>6. Without(h, Given(u, n)) = b
  <2>1. n - n = 0 /\ n \in 0..n BY <1>0
  <2>2. Taken(ts, 0) = {} BY DEF Taken
  <2> HIDE DEF n
  <2> QED BY <1>2, <2>1, <2>2
<1>7. Unwinds(S, u, h, {b})
  BY <1>1, <1>3, <1>5, <1>6 DEF Unwinds
<1> QED BY <1>7 DEF u, h

(* A prefix of such an order is one.                                       *)
LEMMA PrefixStacked ==
  ASSUME NEW S, NEW b, NEW ts, Stacked(S, b, ts), NEW i \in 0..Len(ts)
  PROVE  /\ Stacked(S, b, SubSeq(ts, 1, i)) /\ SubSeq(ts, 1, i) \in Seq(Tokens)
         /\ Elems(SubSeq(ts, 1, i)) = Taken(ts, i)
<1> DEFINE p == SubSeq(ts, 1, i)
<1>1. ts \in Seq(Tokens) /\ Len(ts) \in Nat
  BY DEF Stacked
<1>2. p \in Seq(Tokens) /\ Len(p) = i /\ \A j \in 1..i : p[j] = ts[j]
  BY <1>1
<1> HIDE DEF p
<1>3. \A j \in 0..i : Taken(p, j) = Taken(ts, j)
  BY <1>1, <1>2 DEF Taken
<1>4. \A j \in 0..i : b \cup Taken(p, j) \in S
  BY <1>1, <1>3 DEF Stacked
<1>5. i \in 0..i BY <1>1
<1>6. /\ \A j, l \in 1..i : j # l => p[j] # p[l]
      /\ \A j \in 1..i : p[j] \notin b \cup {Cookies, Listed, QueueList}
  BY <1>1, <1>2 DEF Stacked
<1>7. Stacked(S, b, p) /\ Elems(p) = Taken(ts, i)
  BY <1>2, <1>3, <1>4, <1>5, <1>6 DEF Stacked, Elems
<1> QED BY <1>2, <1>7 DEF p

(* A function whose labels give back what it took takes everything or      *)
(* nothing.                                                                *)
LEMMA ChainDoes ==
  ASSUME NEW S, NEW k, NEW b, NEW ts, Stacked(S, b, ts)
  PROVE  Does(S, k, Chain(ts), {b}, {b \cup Elems(ts)}, {b})
<1> DEFINE n == Len(ts)
           C == [i \in 1..n + 1 |-> {b \cup Taken(ts, i - 1)}]
           c == Chain(ts)
           U(i) == Each("put", Reverse(SubSeq(ts, 1, i - 1)))
<1>0. ts \in Seq(Tokens) /\ n \in Nat /\ DOMAIN ts = 1..n
  BY DEF Stacked
<1>1. c = [i \in 1..n |-> [Step("get", ts[i]) EXCEPT !.undo = U(i)]]
  BY <1>0 DEF Chain
<1>2. ASSUME NEW i \in 1..n
      PROVE  U(i) \in Seq(Undos) /\ Unwinds(S, U(i), b \cup Taken(ts, i - 1), {b})
  <2>1. i - 1 \in 0..Len(ts)
    BY <1>0
  <2>2. /\ Stacked(S, b, SubSeq(ts, 1, i - 1)) /\ SubSeq(ts, 1, i - 1) \in Seq(Tokens)
        /\ Elems(SubSeq(ts, 1, i - 1)) = Taken(ts, i - 1)
    BY <2>1, PrefixStacked
  <2>3. Reverse(SubSeq(ts, 1, i - 1)) \in Seq(Tokens)
    BY <2>2, ReverseIs
  <2>4. U(i) \in Seq(Undos)
    BY <2>3, PutsTyped
  <2>5. Unwinds(S, U(i), b \cup Elems(SubSeq(ts, 1, i - 1)), {b})
    BY <2>2, StackUnwinds
  <2> QED BY <2>2, <2>4, <2>5
<1> HIDE DEF U
<1>3. ASSUME NEW i \in 1..n
      PROVE  /\ c[i] \in StepRec /\ c[i].do = "get" /\ c[i].token = ts[i] /\ c[i].undo = U(i)
  <2>1. c[i] = [Step("get", ts[i]) EXCEPT !.undo = U(i)]
    BY <1>1
  <2>2. c[i] = [do |-> "get", token |-> ts[i], undo |-> U(i), if |-> {}, want |-> 0]
    BY <2>1 DEF Step
  <2>3. "get" \in Dos /\ ts[i] \in Tokens /\ {} \in SUBSET Tokens /\ 0 \in Int
    BY <1>0 DEF Dos
  <2>4. U(i) \in Seq(Undos)
    BY <1>2
  <2> QED BY <2>2, <2>3, <2>4 DEF StepRec
<1>4. c \in Programs /\ Len(c) = n
  <2>1. c = [i \in 1..n |-> c[i]]
    BY <1>1
  <2> HIDE DEF c, n
  <2>2. c \in [1..n -> StepRec]
    BY <2>1, <1>3
  <2> QED BY <2>2, <1>0 DEF Programs
<1> HIDE DEF c
<1>5. ASSUME NEW i \in 1..n
      PROVE  /\ Kind(k, c[i])
             /\ StepOK(S, k, c[i], b \cup Taken(ts, i - 1), {b \cup Taken(ts, i)}, {b})
  <2>1. Taken(ts, i) = Taken(ts, i - 1) \cup {ts[i]}
    BY <1>0 DEF Taken
  <2>2. Kind(k, c[i])
    BY <1>3 DEF Kind, Stacked
  <2>3. Unwinds(S, c[i].undo, b \cup Taken(ts, i - 1), {b})
    BY <1>2, <1>3
  <2> QED BY <2>1, <2>2, <2>3, <1>3 DEF StepOK
<1>6. \A i \in 1..n : C[i] = {b \cup Taken(ts, i - 1)} /\ C[i + 1] = {b \cup Taken(ts, i)}
  BY <1>0
<1>7. C \in [1..n + 1 -> SUBSET S]
  BY <1>0 DEF Stacked
<1>8. Taken(ts, 0) = {}
  BY DEF Taken
<1>9. b \in C[1] /\ C[n + 1] = {b \cup Elems(ts)}
  BY <1>0, <1>8 DEF Elems
<1> HIDE DEF C, n
<1>10. Certified(S, k, c, C, {b})
  <2>1. C \in [1..Len(c) + 1 -> SUBSET S]
    BY <1>4, <1>7
  <2>2. ASSUME NEW i \in 1..n
        PROVE  Kind(k, c[i]) /\ \A h \in C[i] : StepOK(S, k, c[i], h, C[i + 1], {b})
    <3>1. C[i] = {b \cup Taken(ts, i - 1)} /\ C[i + 1] = {b \cup Taken(ts, i)}
      BY <1>6
    <3> QED BY <3>1, <1>5
  <2>3. \A i \in 1..Len(c) :
          Kind(k, c[i]) /\ \A h \in C[i] : StepOK(S, k, c[i], h, C[i + 1], {b})
    BY <2>2, <1>4
  <2> QED BY <2>1, <2>3 DEF Certified
<1>11. Does(S, k, c, {b}, {b \cup Elems(ts)}, {b})
  BY <1>4, <1>9, <1>10 DEF Does
<1> QED BY <1>11 DEF c

(* The program of one step, for one resource.                              *)
LEMMA TokenStep ==
  ASSUME NEW do \in Dos, NEW t \in Tokens
  PROVE  /\ Each(do, <<t>>) = <<Step(do, t)>> /\ Step(do, t) \in StepRec
         /\ Step(do, t).do = do /\ Step(do, t).token = t /\ Step(do, t).undo = <<>>
         /\ Step(do, t).if = {}
<1>1. <<>> \in Seq(Undos) /\ {} \in SUBSET Tokens /\ 0 \in Int
  OBVIOUS
<1>2. DOMAIN <<t>> = 1..1 /\ <<t>>[1] = t
  OBVIOUS
<1>3. Each(do, <<t>>) = <<Step(do, t)>>
  BY <1>2 DEF Each
<1> QED BY <1>1, <1>3 DEF Step, StepRec

(* A step without labels leaves what was held.                             *)
LEMMA NothingUndone ==
  ASSUME NEW S, NEW h \in S, NEW F, h \in F
  PROVE  Unwinds(S, <<>>, h, F)
<1>1. Given(<<>>, 0) = {} /\ Without(h, {}) = h
  BY DEF Given, Without
<1>2. Len(<<>>) = 0 /\ <<>> \in Seq(Undos) OBVIOUS
<1>3. \A i \in 0..0 : i = 0 OBVIOUS
<1>4. 1..0 = {} OBVIOUS
<1> QED BY <1>1, <1>2, <1>3, <1>4 DEF Unwinds

(* One resource is taken, or the call fails with nothing taken.            *)
LEMMA ChainOne ==
  ASSUME NEW S, NEW k, NEW b \in S, NEW t \in Tokens \ {Cookies, Listed}, b \cup {t} \in S
  PROVE  Does(S, k, Chain(<<t>>), {b}, {b \cup {t}}, {b})
<1>1. Chain(<<t>>) = <<Step("get", t)>>
  <2>1. DOMAIN <<t>> = 1..1 /\ <<t>>[1] = t /\ SubSeq(<<t>>, 1, 0) = <<>>
    OBVIOUS
  <2>2. Len(<<>>) = 0 /\ 1..0 = {}  OBVIOUS
  <2>3. Reverse(<<>>) = <<>>  BY <2>2 DEF Reverse
  <2>4. Each("put", <<>>) = <<>>  BY DEF Each
  <2>5. [Step("get", t) EXCEPT !.undo = <<>>] = Step("get", t)
    <3>1. \A a, e : [[do |-> a, token |-> t, undo |-> e, if |-> {}, want |-> 0] EXCEPT !.undo = e]
                    = [do |-> a, token |-> t, undo |-> e, if |-> {}, want |-> 0]
      OBVIOUS
    <3> QED BY <3>1 DEF Step
  <2>6. \A i \in 1..1 : i = 1 /\ i - 1 = 0 OBVIOUS
  <2>7. Chain(<<t>>) = [i \in 1..1 |-> Step("get", t)]
    BY <2>1, <2>3, <2>4, <2>5, <2>6 DEF Chain
  <2> QED BY <2>7
<1> DEFINE s == Step("get", t)
<1>2. s \in StepRec /\ s.do = "get" /\ s.token = t /\ s.undo = <<>>
  <2>1. "get" \in Dos BY DEF Dos
  <2> QED BY <2>1, TokenStep
<1> HIDE DEF s
<1>3. Kind(k, s)
  BY <1>2 DEF Kind
<1>4. StepOK(S, k, s, b, {b \cup {t}}, {b})
  <2>1. Unwinds(S, <<>>, b, {b})  BY NothingUndone
  <2> QED BY <1>2, <2>1 DEF StepOK
<1>5. Does(S, k, <<s>>, {b}, {b \cup {t}}, {b})
  BY <1>2, <1>3, <1>4, DoesStep
<1> QED BY <1>1, <1>5 DEF s

(* One resource is taken and cannot fail to be.                            *)
LEMMA AddOne ==
  ASSUME NEW S, NEW k, NEW b \in S, NEW t \in Tokens \ {Cookies}, b \cup {t} \in S,
         t = Listed => "lists" \in k
  PROVE  Does(S, k, Each("add", <<t>>), {b}, {b \cup {t}}, {})
<1> DEFINE s == Step("add", t)
<1>2. s \in StepRec /\ s.do = "add" /\ s.token = t /\ s.undo = <<>> /\ Each("add", <<t>>) = <<s>>
  <2>1. "add" \in Dos BY DEF Dos
  <2> QED BY <2>1, TokenStep
<1> HIDE DEF s
<1>3. Kind(k, s)
  BY <1>2 DEF Kind
<1>4. StepOK(S, k, s, b, {b \cup {t}}, {})
  BY <1>2 DEF StepOK
<1> QED BY <1>2, <1>3, <1>4, DoesStep

(* A step that takes nothing.                                              *)
LEMMA AskDoes ==
  ASSUME NEW S, NEW k, NEW b \in S, NEW do \in {"ask", "gate"}
  PROVE  Does(S, k, Each(do, Of(<<"none">>)), {b}, {b}, {b})
<1> DEFINE t == <<"none", 0>>
           s == Step(do, t)
<1>1. Of(<<"none">>) = <<t>>
  BY DEF Of, At
<1>2. s \in StepRec /\ s.do = do /\ s.token = t /\ s.undo = <<>> /\ Each(do, <<t>>) = <<s>>
  <2>1. do \in Dos BY DEF Dos
  <2>2. t \in Tokens BY DEF Tokens, Names
  <2> QED BY <2>1, <2>2, TokenStep
<1>3. t # Cookies /\ t # Listed
  BY DEF Cookies, Listed
<1> HIDE DEF s
<1>4. Kind(k, s)
  BY <1>2, <1>3 DEF Kind
<1>5. StepOK(S, k, s, b, {b}, {b})
  <2>1. Unwinds(S, <<>>, b, {b})  BY NothingUndone
  <2> QED BY <1>2, <2>1 DEF StepOK
<1>6. Does(S, k, <<s>>, {b}, {b}, {b})
  BY <1>2, <1>4, <1>5, DoesStep
<1> QED BY <1>1, <1>2, <1>6

(* Names of no queue, and of one.                                          *)
Zero(names) == {<<n, 0>> : n \in names}
OfQueue(q) == {<<n, q>> : n \in QueueNames}

(* The parts of a queue, by name.                                          *)
LEMMA BodiesAre ==
  ASSUME NEW q PROVE Bodies(q) = {<<n, q>> : n \in BodyNames}
<1>1. /\ DmaParts["cq"] = <<"cqPages", "cqVa", "cqSgIn", "cqSgOut">>
      /\ DmaParts["sq"] = <<"sqPages", "sqVa", "sqSgIn", "sqSgOut">>
  BY DEF DmaParts
<1>2. ASSUME NEW names, NEW a, NEW b, NEW c, NEW e, names = <<a, b, c, e>>
      PROVE  /\ Chain(At(q, names))[1].token = <<a, q>> /\ Chain(At(q, names))[2].token = <<b, q>>
             /\ Chain(At(q, names))[3].token = <<c, q>> /\ Chain(At(q, names))[4].token = <<e, q>>
  <2>1. /\ DOMAIN names = 1..4 /\ names[1] = a /\ names[2] = b /\ names[3] = c /\ names[4] = e
    BY <1>2
  <2>2. DOMAIN At(q, names) = 1..4 /\ \A i \in 1..4 : At(q, names)[i] = <<names[i], q>>
    BY <2>1 DEF At
  <2> DEFINE ts == At(q, names)
  <2> HIDE DEF ts
  <2>3. \A i \in 1..4 : Chain(ts)[i] = [Step("get", ts[i]) EXCEPT
                          !.undo = Each("put", Reverse(SubSeq(ts, 1, i - 1)))]
    BY <2>2 DEF Chain, ts
  <2>4. \A i \in 1..4 : Chain(ts)[i].token = ts[i]
    BY <2>3 DEF Step
  <2> QED BY <2>1, <2>2, <2>4 DEF ts
<1>3. /\ DmaAlloc("cq", q)[1].token = <<"cqPages", q>> /\ DmaAlloc("cq", q)[2].token = <<"cqVa", q>>
      /\ DmaAlloc("cq", q)[3].token = <<"cqSgIn", q>> /\ DmaAlloc("cq", q)[4].token = <<"cqSgOut", q>>
  BY <1>1, <1>2 DEF DmaAlloc
<1>4. /\ DmaAlloc("sq", q)[1].token = <<"sqPages", q>> /\ DmaAlloc("sq", q)[2].token = <<"sqVa", q>>
      /\ DmaAlloc("sq", q)[3].token = <<"sqSgIn", q>> /\ DmaAlloc("sq", q)[4].token = <<"sqSgOut", q>>
  BY <1>1, <1>2 DEF DmaAlloc
<1>5. ASSUME NEW part \in {"cq", "sq"}, NEW i \in 1..4
      PROVE  DmaAlloc(part, q)[i].token \in
               {<<n, q>> : n \in {"cqPages", "cqVa", "cqSgIn", "cqSgOut",
                                  "sqPages", "sqVa", "sqSgIn", "sqSgOut"}}
  <2>1. i = 1 \/ i = 2 \/ i = 3 \/ i = 4
    OBVIOUS
  <2>2. CASE part = "cq"  BY <2>1, <2>2, <1>3
  <2>3. CASE part = "sq"  BY <2>1, <2>3, <1>4
  <2> QED BY <2>2, <2>3
<1>6. Bodies(q) \subseteq {<<n, q>> : n \in BodyNames}
  BY <1>5 DEF Bodies, BodyNames
<1>7. 1 \in 1..4 /\ 2 \in 1..4 /\ 3 \in 1..4 /\ 4 \in 1..4
  OBVIOUS
<1>8. \A n \in BodyNames : <<n, q>> \in Bodies(q)
  BY <1>3, <1>4, <1>7 DEF Bodies, BodyNames
<1> QED BY <1>6, <1>8

(* MadeFrom, name by name: what belongs to a queue.                        *)
LEMMA MadeOfQueue ==
  ASSUME NEW q
  PROVE  /\ \A n \in {"cqInfo", "cqVa", "sqInfo", "sqVa", "cmdList", "cmdArray", "stats", "counted"} :
              MadeFrom(<<n, q>>) = {}
         /\ \A n \in {"cqLock", "sqLock", "cmdLock"} : MadeFrom(<<n, q>>) = Zero({"lockDomain"})
         /\ \A n \in {"cqPages", "sqPages"} : MadeFrom(<<n, q>>) = Zero({"memPool"})
         /\ \A n \in {"cqSgIn", "sqSgIn"} : MadeFrom(<<n, q>>) = Zero({"sgHandle"})
         /\ \A n \in {"cqSgOut", "sqSgOut"} : MadeFrom(<<n, q>>) = Zero({"dmaEngine", "sgHandle"})
         /\ MadeFrom(<<"exists", q>>) = Zero({"queueList"})
         /\ MadeFrom(<<"vector", q>>) = {<<"cqInfo", q>>} \cup Zero({"cookies"})
         /\ MadeFrom(<<"isIntrEnabled", q>>) = {<<"vector", q>>} \cup Bodies(q)
         /\ MadeFrom(<<"pollEnabled", q>>) = {<<"pollHandler", q>>} \cup Bodies(q)
         /\ MadeFrom(<<"pollHandler", q>>) =
              {<<n, q>> : n \in {"cqInfo", "sqInfo", "cmdList"}} \cup Zero({"adapter"})
         /\ MadeFrom(<<"active", q>>) = {<<"exists", q>>} \cup Bodies(q) \cup Zero({"bar"})
BY DEF MadeFrom, Zero

(* MadeFrom, name by name: what belongs to no queue.                       *)
LEMMA MadeOfCommon ==
  /\ \A n \in {"log", "memPool", "lock", "mgmt", "ctrlr"} : MadeFrom(<<n, 0>>) = Zero({"heap"})
  /\ MadeFrom(<<"driver", 0>>) = Zero({"heap", "log", "memPool", "lock", "mgmt"})
  /\ \A n \in {"dmaEngine", "lockDomain", "queueList", "intrArray"} :
       MadeFrom(<<n, 0>>) = Zero({"ctrlr"})
  /\ MadeFrom(<<"sgHandle", 0>>) = Zero({"dmaEngine"})
  /\ MadeFrom(<<"cookies", 0>>) = Zero({"intrArray"})
  /\ MadeFrom(<<"listed", 0>>) = Zero({"ctrlr", "bar", "queueList"})
  /\ MadeFrom(<<"adapter", 0>>) = Zero({"IODmaEngine", "ctrlr"})
  /\ MadeFrom(<<"device", 0>>) = Zero({"adapter", "listed"})
  /\ MadeFrom(<<"controller", 0>>) = Zero({"adapter"})
  /\ MadeFrom(<<"registered", 0>>) = Zero({"controller"})
  /\ MadeFrom(<<"timer", 0>>) = Zero({"timerQueue", "controller", "queueList"})
  /\ MadeFrom(<<"kvMgmt", 0>>) = Zero({"ctrlr", "controller", "adapter"})
  /\ \A n \in {"heap", "bar", "msiHandler", "IODmaEngine", "timerQueue"} : MadeFrom(<<n, 0>>) = {}
BY DEF MadeFrom, Zero

(* Nothing but what belongs to a queue refers to it. *)
LEMMA QueueUsers ==
  ASSUME NEW q \in Nat, NEW t \in Tokens \ OfQueue(q)
  PROVE  MadeFrom(t) \cap OfQueue(q) = {}
<1>1. PICK n \in Names, p \in Nat : t = <<n, p>>
  BY DEF Tokens
<1>2. CASE n \in {"vector", "isIntrEnabled", "pollEnabled", "pollHandler", "active"}
  <2>1. p # q
    BY <1>1, <1>2 DEF OfQueue, QueueNames
  <2>2. \A u \in MadeFrom(t) : u[2] = p \/ u \in Zero({"cookies", "adapter", "bar"})
    <3>1. \A n1 \in BodyNames : <<n1, p>>[2] = p
      OBVIOUS
    <3>2. \A u \in Bodies(p) : u[2] = p
      BY BodiesAre
    <3>3. CASE n = "vector"
      BY <1>1, <3>3 DEF MadeFrom, Zero
    <3>4. CASE n = "isIntrEnabled"
      BY <1>1, <3>2, <3>4 DEF MadeFrom, Zero
    <3>5. CASE n = "pollEnabled"
      BY <1>1, <3>2, <3>5 DEF MadeFrom, Zero
    <3>6. CASE n = "pollHandler"
      BY <1>1, <3>2, <3>6 DEF MadeFrom, Zero
    <3>7. CASE n = "active"
      BY <1>1, <3>2, <3>7 DEF MadeFrom, Zero
    <3> QED BY <1>2, <3>3, <3>4, <3>5, <3>6, <3>7
  <2> QED BY <2>1, <2>2 DEF OfQueue, QueueNames, BodyNames, Zero
<1>3. CASE n \notin {"vector", "isIntrEnabled", "pollEnabled", "pollHandler", "active"}
  <2>1. \A u \in MadeFrom(t) : u[1] \notin QueueNames
    <3>1. CASE n \in {"cqInfo", "cqVa", "sqInfo", "sqVa", "cmdList", "cmdArray", "stats", "counted",
                      "cqLock", "sqLock", "cmdLock", "cqPages", "sqPages", "cqSgIn", "sqSgIn",
                      "cqSgOut", "sqSgOut", "exists"}
      BY <1>1, <3>1 DEF MadeFrom, QueueNames, BodyNames
    <3>2. CASE n \in {"heap", "log", "memPool", "lock", "mgmt", "driver", "ctrlr", "bar", "dmaEngine",
                      "sgHandle", "lockDomain", "queueList"}
      BY <1>1, <3>2 DEF MadeFrom, QueueNames, BodyNames
    <3>3. CASE n \in {"cookies", "intrArray", "msiHandler", "listed",
                      "IODmaEngine", "adapter", "device", "controller", "registered"}
      BY <1>1, <3>3 DEF MadeFrom, QueueNames, BodyNames
    <3>4. CASE n \in {"timerQueue", "timer", "kvMgmt", "none"}
      BY <1>1, <3>4 DEF MadeFrom, QueueNames, BodyNames
    <3> QED BY <1>3, <3>1, <3>2, <3>3, <3>4 DEF Names, QueueNames, BodyNames
  <2> QED BY <2>1 DEF OfQueue
<1> QED BY <1>2, <1>3

(* A resource may be taken when what it is made from is held.              *)
LEMMA SafeAdd ==
  ASSUME NEW m, NEW d, NEW h \in Safe(m, d), NEW t \in Tokens,
         t \in Left(m) \/ MadeFrom(t) \subseteq h, t = Listed => m \/ d \/ Cookies \in h
  PROVE  h \cup {t} \in Safe(m, d)
BY DEF Safe, Closed

(* Resources may be given back when nothing that stays was made from them. *)
LEMMA SafeMinus ==
  ASSUME NEW m, NEW d, NEW h \in Safe(m, d), NEW X,
         \A t \in h \ X : t \in Left(m) \/ MadeFrom(t) \cap X = {},
         Cookies \in X => m \/ d \/ Listed \notin h \ X
  PROVE  h \ X \in Safe(m, d)
BY DEF Safe, Closed

(* An order in which each resource comes after what it is made from.       *)
LEMMA SafeStacked ==
  ASSUME NEW m, NEW d, NEW b \in Safe(m, d), NEW ts \in Seq(Tokens),
         \A i, j \in 1..Len(ts) : i # j => ts[i] # ts[j],
         \A i \in 1..Len(ts) :
           /\ ts[i] \notin b \cup {Cookies, Listed, QueueList}
           /\ \A t \in MadeFrom(ts[i]) : t \in b \/ \E j \in 1..(i - 1) : t = ts[j]
  PROVE  Stacked(Safe(m, d), b, ts)
<1>1. ASSUME NEW i \in 0..Len(ts) PROVE b \cup Taken(ts, i) \in Safe(m, d)
  <2>1. \A t \in Taken(ts, i) : t \in Tokens /\ t # Cookies /\ t # Listed
    BY DEF Taken
  <2>2. ASSUME NEW t \in Taken(ts, i) PROVE MadeFrom(t) \subseteq b \cup Taken(ts, i)
    <3>1. PICK j \in 1..i : t = ts[j]
      BY DEF Taken
    <3>2. j \in 1..Len(ts) /\ \A l \in 1..(j - 1) : l \in 1..i
      OBVIOUS
    <3> QED BY <3>1, <3>2 DEF Taken
  <2> QED BY <2>1, <2>2 DEF Safe, Closed
<1> QED BY <1>1 DEF Stacked

(* A sequence of returns, each after the resources that were made from it. *)
LEMMA SafePuts ==
  ASSUME NEW m, NEW d, NEW h \in Safe(m, d), NEW ts \in Seq(Tokens), NEW do \in {"put", "drop"},
         \A i \in 1..Len(ts) :
           /\ ts[i] # QueueList
           /\ \A t \in h \ Left(m) : ts[i] \in MadeFrom(t) => t \in Taken(ts, i - 1)
           /\ ts[i] = Cookies => m \/ d \/ Listed \notin h \/ Listed \in Taken(ts, i - 1)
           /\ do = "put" => ts[i] \in h \ Taken(ts, i - 1)
  PROVE  /\ Unwinds(Safe(m, d), Each(do, ts), h, {h \ Elems(ts)})
         /\ h \ Elems(ts) \in Safe(m, d)
<1> DEFINE u == Each(do, ts)
           n == Len(ts)
<1>1. u \in Seq(Undos) /\ Len(u) = n /\ \A i \in 1..n : u[i].do = do /\ u[i].token = ts[i]
  BY PutsTyped
<1> HIDE DEF u
<1>2. ASSUME NEW i \in 0..n
      PROVE  Given(u, i) = Taken(ts, i) /\ Without(h, Given(u, i)) = h \ Taken(ts, i)
  <2>1. Given(u, i) = Taken(ts, i)
    BY <1>1 DEF Given, Taken
  <2>2. QueueList \notin Taken(ts, i)
    BY DEF Taken
  <2> QED BY <2>1, <2>2 DEF Without
<1>3. ASSUME NEW i \in 0..n PROVE h \ Taken(ts, i) \in Safe(m, d)
  <2> DEFINE X == Taken(ts, i)
  <2>1. ASSUME NEW j \in 1..i
        PROVE  /\ \A t \in h \ Left(m) : ts[j] \in MadeFrom(t) => t \in X
               /\ ts[j] = Cookies => m \/ d \/ Listed \notin h \/ Listed \in X
    <3>1. Taken(ts, j - 1) \subseteq X
      BY DEF Taken
    <3> HIDE DEF X
    <3> QED BY <3>1
  <2>2. \A x \in X : \E j \in 1..i : x = ts[j]
    BY DEF Taken
  <2> HIDE DEF X
  <2>3. \A t \in h \ X : t \in Left(m) \/ MadeFrom(t) \cap X = {}
    BY <2>1, <2>2
  <2>4. Cookies \in X => m \/ d \/ Listed \notin h \ X
    BY <2>1, <2>2
  <2>5. h \ X \in Safe(m, d)
    BY <2>3, <2>4, SafeMinus
  <2> QED BY <2>5 DEF X
<1>4. ASSUME NEW i \in 1..n, u[i].do = "put"
      PROVE  u[i].token \in Without(h, Given(u, i - 1))
  BY <1>1, <1>2, <1>4
<1>5. n \in 0..n
  OBVIOUS
<1>6. Without(h, Given(u, n)) = h \ Elems(ts)
  BY <1>2, <1>5 DEF Elems
<1>7. \A i \in 0..n : Without(h, Given(u, i)) \in Safe(m, d)
  BY <1>2, <1>3
<1> HIDE DEF n
<1>8. Unwinds(Safe(m, d), u, h, {h \ Elems(ts)})
  BY <1>1, <1>4, <1>6, <1>7 DEF Unwinds
<1> QED BY <1>5, <1>7, <1>6, <1>8 DEF u

(* MadeFrom the other way round: what was made from a resource of no       *)
(* queue.                                                                  *)
LEMMA UsersOf ==
  ASSUME NEW t \in Tokens
  PROVE  /\ <<"heap", 0>> \in MadeFrom(t) =>
              t[1] \in {"log", "memPool", "lock", "mgmt", "ctrlr", "driver"}
         /\ <<"log", 0>> \in MadeFrom(t) => t[1] = "driver"
         /\ <<"lock", 0>> \in MadeFrom(t) => t[1] = "driver"
         /\ <<"mgmt", 0>> \in MadeFrom(t) => t[1] = "driver"
         /\ <<"memPool", 0>> \in MadeFrom(t) => t[1] \in {"driver", "cqPages", "sqPages"}
         /\ <<"driver", 0>> \notin MadeFrom(t)
         /\ <<"ctrlr", 0>> \in MadeFrom(t) =>
              t[1] \in {"dmaEngine", "lockDomain", "queueList", "intrArray", "listed", "adapter",
                        "kvMgmt"}
         /\ <<"dmaEngine", 0>> \in MadeFrom(t) => t[1] \in {"sgHandle", "cqSgOut", "sqSgOut"}
         /\ <<"sgHandle", 0>> \in MadeFrom(t) =>
              t[1] \in {"cqSgIn", "sqSgIn", "cqSgOut", "sqSgOut"}
         /\ <<"lockDomain", 0>> \in MadeFrom(t) => t[1] \in {"cqLock", "sqLock", "cmdLock"}
         /\ <<"queueList", 0>> \in MadeFrom(t) => t[1] \in {"exists", "listed", "timer"}
         /\ <<"bar", 0>> \in MadeFrom(t) => t[1] \in {"listed", "active"}
         /\ <<"intrArray", 0>> \in MadeFrom(t) => t[1] = "cookies"
         /\ <<"cookies", 0>> \in MadeFrom(t) => t[1] = "vector"
         /\ <<"listed", 0>> \in MadeFrom(t) => t[1] = "device"
         /\ <<"IODmaEngine", 0>> \in MadeFrom(t) => t[1] = "adapter"
         /\ <<"adapter", 0>> \in MadeFrom(t) =>
              t[1] \in {"device", "controller", "kvMgmt", "pollHandler"}
         /\ <<"device", 0>> \notin MadeFrom(t)
         /\ <<"controller", 0>> \in MadeFrom(t) => t[1] \in {"registered", "timer", "kvMgmt"}
         /\ <<"registered", 0>> \notin MadeFrom(t)
         /\ <<"timerQueue", 0>> \in MadeFrom(t) => t[1] = "timer"
         /\ <<"timer", 0>> \notin MadeFrom(t)
         /\ <<"kvMgmt", 0>> \notin MadeFrom(t)
<1>1. PICK n \in Names, p \in Nat : t = <<n, p>>
  BY DEF Tokens
<1>2. t[1] = n /\ t[2] = p
  BY <1>1
<1>3. \A u \in Bodies(p) : u[1] \in BodyNames
  BY BodiesAre
<1> USE <1>1, <1>2, <1>3 DEF MadeFrom, BodyNames
<1>4. <<"heap", 0>> \in MadeFrom(t) => t[1] \in {"log", "memPool", "lock", "mgmt", "ctrlr", "driver"}
  OBVIOUS
<1>5. <<"log", 0>> \in MadeFrom(t) => t[1] = "driver"
  OBVIOUS
<1>6. <<"lock", 0>> \in MadeFrom(t) => t[1] = "driver"
  OBVIOUS
<1>7. <<"mgmt", 0>> \in MadeFrom(t) => t[1] = "driver"
  OBVIOUS
<1>8. <<"memPool", 0>> \in MadeFrom(t) => t[1] \in {"driver", "cqPages", "sqPages"}
  OBVIOUS
<1>9. <<"driver", 0>> \notin MadeFrom(t)
  OBVIOUS
<1>10. <<"ctrlr", 0>> \in MadeFrom(t) => t[1] \in {"dmaEngine", "lockDomain", "queueList", "intrArray", "listed", "adapter", "kvMgmt"}
  OBVIOUS
<1>11. <<"dmaEngine", 0>> \in MadeFrom(t) => t[1] \in {"sgHandle", "cqSgOut", "sqSgOut"}
  OBVIOUS
<1>12. <<"sgHandle", 0>> \in MadeFrom(t) => t[1] \in {"cqSgIn", "sqSgIn", "cqSgOut", "sqSgOut"}
  OBVIOUS
<1>13. <<"lockDomain", 0>> \in MadeFrom(t) => t[1] \in {"cqLock", "sqLock", "cmdLock"}
  OBVIOUS
<1>14. <<"queueList", 0>> \in MadeFrom(t) => t[1] \in {"exists", "listed", "timer"}
  OBVIOUS
<1>15. <<"bar", 0>> \in MadeFrom(t) => t[1] \in {"listed", "active"}
  OBVIOUS
<1>16. <<"intrArray", 0>> \in MadeFrom(t) => t[1] = "cookies"
  OBVIOUS
<1>17. <<"cookies", 0>> \in MadeFrom(t) => t[1] = "vector"
  OBVIOUS
<1>18. <<"listed", 0>> \in MadeFrom(t) => t[1] = "device"
  OBVIOUS
<1>19. <<"IODmaEngine", 0>> \in MadeFrom(t) => t[1] = "adapter"
  OBVIOUS
<1>20. <<"adapter", 0>> \in MadeFrom(t) => t[1] \in {"device", "controller", "kvMgmt", "pollHandler"}
  OBVIOUS
<1>21. <<"device", 0>> \notin MadeFrom(t)
  OBVIOUS
<1>22. <<"controller", 0>> \in MadeFrom(t) => t[1] \in {"registered", "timer", "kvMgmt"}
  OBVIOUS
<1>23. <<"registered", 0>> \notin MadeFrom(t)
  OBVIOUS
<1>24. <<"timerQueue", 0>> \in MadeFrom(t) => t[1] = "timer"
  OBVIOUS
<1>25. <<"timer", 0>> \notin MadeFrom(t)
  OBVIOUS
<1>26. <<"kvMgmt", 0>> \notin MadeFrom(t)
  OBVIOUS
<1> QED BY <1>4, <1>5, <1>6, <1>7, <1>8, <1>9, <1>10, <1>11, <1>12, <1>13, <1>14, <1>15, <1>16, <1>17, <1>18, <1>19, <1>20, <1>21, <1>22, <1>23, <1>24, <1>25, <1>26

-----------------------------------------------------------------------------
(* The parts of a queue.                                                   *)

Named(q, names) == {<<n, q>> : n \in names}

(* What the memory and the locks of a queue are made from.                 *)
QueueBase == Zero({"lockDomain", "memPool", "sgHandle", "dmaEngine"})

(* The names of a queue are names, and not the three that have rules of    *)
(* their own.                                                              *)
LEMMA QueueNamesAre ==
  /\ BodyNames \subseteq QueueNames /\ QueueNames \subseteq Names
  /\ \A n \in QueueNames, q \in Nat :
       <<n, q>> \in Tokens /\ <<n, q>> \notin {Cookies, Listed, QueueList}
BY DEF BodyNames, QueueNames, Names, Tokens, Cookies, Listed, QueueList

(* The parts of a queue are made from what belongs to no queue.            *)
LEMMA BodyMade ==
  ASSUME NEW q, NEW n \in BodyNames
  PROVE  MadeFrom(<<n, q>>) \subseteq QueueBase
BY DEF MadeFrom, QueueBase, BodyNames, Zero

(* The names of a queue, as a sequence of its resources.                   *)
LEMMA AtIs ==
  ASSUME NEW q, NEW names, NEW N, names \in Seq(N)
  PROVE  /\ At(q, names) \in Seq(Named(q, N)) /\ Len(At(q, names)) = Len(names)
         /\ \A i \in 1..Len(names) : At(q, names)[i] = <<names[i], q>>
BY DEF At, Named

(* A group of parts of a queue, taken together and given back together.    *)
LEMMA PartTakes ==
  ASSUME NEW m, NEW d, NEW g \in Safe(m, d), QueueBase \subseteq g, NEW q \in Nat, NEW k,
         NEW N \in SUBSET BodyNames, NEW names \in Seq(N),
         \A i, j \in 1..Len(names) : i # j => names[i] # names[j],
         \A n \in N : <<n, q>> \notin g /\ \E i \in 1..Len(names) : n = names[i]
  PROVE  /\ Does(Safe(m, d), k, Chain(At(q, names)), {g}, {g \cup Named(q, N)}, {g})
         /\ Unwinds(Safe(m, d), Each("put", Reverse(At(q, names))), g \cup Named(q, N), {g})
         /\ g \cup Named(q, N) \in Safe(m, d)
<1> DEFINE ts == At(q, names)
<1>1. /\ ts \in Seq(Named(q, N)) /\ Len(ts) = Len(names) /\ Len(names) \in Nat
      /\ \A i \in 1..Len(names) : ts[i] = <<names[i], q>> /\ names[i] \in N
  BY AtIs
<1>2. Named(q, N) \subseteq Tokens
  BY QueueNamesAre DEF Named
<1> HIDE DEF ts
<1>3. ts \in Seq(Tokens)
  BY <1>1, <1>2
<1>4. \A i, j \in 1..Len(ts) : i # j => ts[i] # ts[j]
  BY <1>1
<1>5. ASSUME NEW i \in 1..Len(ts)
      PROVE  /\ ts[i] \notin g \cup {Cookies, Listed, QueueList}
             /\ \A t \in MadeFrom(ts[i]) : t \in g \/ \E j \in 1..(i - 1) : t = ts[j]
  <2>1. ts[i] = <<names[i], q>> /\ names[i] \in N /\ names[i] \in BodyNames
    BY <1>1
  <2>2. ts[i] \notin {Cookies, Listed, QueueList}
    BY <2>1, QueueNamesAre
  <2>3. MadeFrom(ts[i]) \subseteq QueueBase
    BY <2>1, BodyMade
  <2> QED BY <2>1, <2>2, <2>3
<1>6. Stacked(Safe(m, d), g, ts)
  BY <1>3, <1>4, <1>5, SafeStacked
<1>7. Elems(ts) = Named(q, N)
  <2>1. \A i \in 1..Len(ts) : ts[i] = <<names[i], q>> /\ names[i] \in N
    BY <1>1
  <2>2. \A n \in N : \E i \in 1..Len(ts) : ts[i] = <<n, q>>
    BY <1>1
  <2>3. ASSUME NEW t \in Elems(ts) PROVE t \in Named(q, N)
    <3>1. PICK i \in 1..Len(ts) : t = ts[i]
      BY DEF Elems, Taken
    <3> QED BY <3>1, <2>1 DEF Named
  <2>4. ASSUME NEW t \in Named(q, N) PROVE t \in Elems(ts)
    <3>1. PICK n \in N : t = <<n, q>>
      BY DEF Named
    <3>2. PICK i \in 1..Len(ts) : ts[i] = <<n, q>>
      BY <2>2
    <3> QED BY <3>1, <3>2 DEF Elems, Taken
  <2> QED BY <2>3, <2>4
<1>8. /\ Does(Safe(m, d), k, Chain(ts), {g}, {g \cup Elems(ts)}, {g})
      /\ Unwinds(Safe(m, d), Each("put", Reverse(ts)), g \cup Elems(ts), {g})
  BY <1>6, ChainDoes, StackUnwinds
<1>9. Len(ts) \in 0..Len(ts)
  BY <1>1
<1>10. g \cup Elems(ts) \in Safe(m, d)
  BY <1>6, <1>9 DEF Stacked, Elems
<1> QED BY <1>7, <1>8, <1>10 DEF ts

(* Reverse of a list of one name.                                          *)
LEMMA ReverseOne ==
  ASSUME NEW q, NEW a PROVE Reverse(At(q, <<a>>)) = At(q, <<a>>)
<1>1. At(q, <<a>>) = <<<<a, q>>>>
  BY DEF At
<1> QED BY <1>1 DEF Reverse

(* Reverse of a list of two names.                                         *)
LEMMA ReverseTwo ==
  ASSUME NEW q, NEW a, NEW b PROVE Reverse(At(q, <<a, b>>)) = At(q, <<b, a>>)
<1>1. At(q, <<a, b>>) = <<<<a, q>>, <<b, q>>>> /\ At(q, <<b, a>>) = <<<<b, q>>, <<a, q>>>>
  BY DEF At
<1>2. ASSUME NEW x, NEW y PROVE Reverse(<<x, y>>) = <<y, x>>
  BY DEF Reverse
<1> QED BY <1>1, <1>2

(* Reverse of a list of three names.                                       *)
LEMMA ReverseThree ==
  ASSUME NEW q, NEW a, NEW b, NEW c PROVE Reverse(At(q, <<a, b, c>>)) = At(q, <<c, b, a>>)
<1>1. At(q, <<a, b, c>>) = <<<<a, q>>, <<b, q>>, <<c, q>>>>
      /\ At(q, <<c, b, a>>) = <<<<c, q>>, <<b, q>>, <<a, q>>>>
  BY DEF At
<1>2. ASSUME NEW x, NEW y, NEW z PROVE Reverse(<<x, y, z>>) = <<z, y, x>>
  BY DEF Reverse
<1> QED BY <1>1, <1>2

CqLockNames == {"cqInfo", "cqLock"}
CqDmaNames == {"cqPages", "cqVa", "cqSgIn", "cqSgOut"}
SqLockNames == {"sqInfo", "sqLock"}
SqDmaNames == {"sqPages", "sqVa", "sqSgIn", "sqSgOut"}
CmdNames == {"cmdList", "cmdLock", "cmdArray"}

(* p takes all that leads from g to h, or nothing, and u gives it back.     *)
Built(S, k, p, u, g, h) ==
  Does(S, k, p, {g}, {h}, {g}) /\ Unwinds(S, u, h, {g}) /\ h \in S

Adds(m, d, k, q, p, u, g, N) ==
  Named(q, N) \cap g = {} => Built(Safe(m, d), k, p, u, g, g \cup Named(q, N))

(* The constructors and destructors of the parts of a queue are such       *)
(* groups.                                                                 *)
LEMMA Parts ==
  ASSUME NEW m, NEW d, NEW g \in Safe(m, d), QueueBase \subseteq g, NEW q \in Nat, NEW k
  PROVE  /\ Adds(m, d, k, q, LockedStruct(q, "cqInfo", "cqLock"), Each("put", At(q, <<"cqLock", "cqInfo">>)),
                 g, CqLockNames)
         /\ Adds(m, d, k, q, DmaAlloc("cq", q), DmaFree("cq", q),
                 g, CqDmaNames)
         /\ Adds(m, d, k, q, LockedStruct(q, "sqInfo", "sqLock"), Each("put", At(q, <<"sqLock", "sqInfo">>)),
                 g, SqLockNames)
         /\ Adds(m, d, k, q, DmaAlloc("sq", q), DmaFree("sq", q),
                 g, SqDmaNames)
         /\ Adds(m, d, k, q, CmdInfoListConstruct(q), CmdInfoListDestroy(q),
                 g, CmdNames)
         /\ Adds(m, d, k, q, QueueStatsConstruct(q), QueueStatsDestroy(q),
                 g, {"stats"})
<1> DEFINE Fits(names, N) ==
      /\ N \in SUBSET BodyNames /\ names \in Seq(N)
      /\ \A i, j \in 1..Len(names) : i # j => names[i] # names[j]
      /\ \A n \in N : \E i \in 1..Len(names) : n = names[i]
<1>1. ASSUME NEW N, NEW names, Fits(names, N)
      PROVE  Adds(m, d, k, q, Chain(At(q, names)), Each("put", Reverse(At(q, names))), g, N)
  <2>1. SUFFICES ASSUME Named(q, N) \cap g = {}
                 PROVE  Built(Safe(m, d), k, Chain(At(q, names)),
                              Each("put", Reverse(At(q, names))), g, g \cup Named(q, N))
    BY DEF Adds
  <2>2. \A n \in N : <<n, q>> \notin g /\ \E i \in 1..Len(names) : n = names[i]
    BY <1>1, <2>1 DEF Named
  <2> QED
    BY <1>1, <2>2, PartTakes DEF Built
<1>2. Adds(m, d, k, q, LockedStruct(q, "cqInfo", "cqLock"), Each("put", At(q, <<"cqLock", "cqInfo">>)), g, CqLockNames)
  <2>1. Fits(<<"cqInfo", "cqLock">>, CqLockNames)
    BY DEF CqLockNames, BodyNames
  <2> HIDE DEF Fits
  <2>2. Adds(m, d, k, q, Chain(At(q, <<"cqInfo", "cqLock">>)), Each("put", Reverse(At(q, <<"cqInfo", "cqLock">>))),
             g, CqLockNames)
    BY <1>1, <2>1
  <2> QED
    BY <2>2, ReverseTwo DEF LockedStruct
<1>3. Adds(m, d, k, q, DmaAlloc("cq", q), DmaFree("cq", q), g, CqDmaNames)
  <2>1. Fits(<<"cqPages", "cqVa", "cqSgIn", "cqSgOut">>, CqDmaNames)
    BY DEF CqDmaNames, BodyNames
  <2> HIDE DEF Fits
  <2>2. Adds(m, d, k, q, Chain(At(q, <<"cqPages", "cqVa", "cqSgIn", "cqSgOut">>)), Each("put", Reverse(At(q, <<"cqPages", "cqVa", "cqSgIn", "cqSgOut">>))),
             g, CqDmaNames)
    BY <1>1, <2>1
  <2> QED
    BY <2>2 DEF DmaAlloc, DmaFree, DmaParts
<1>4. Adds(m, d, k, q, LockedStruct(q, "sqInfo", "sqLock"), Each("put", At(q, <<"sqLock", "sqInfo">>)), g, SqLockNames)
  <2>1. Fits(<<"sqInfo", "sqLock">>, SqLockNames)
    BY DEF SqLockNames, BodyNames
  <2> HIDE DEF Fits
  <2>2. Adds(m, d, k, q, Chain(At(q, <<"sqInfo", "sqLock">>)), Each("put", Reverse(At(q, <<"sqInfo", "sqLock">>))),
             g, SqLockNames)
    BY <1>1, <2>1
  <2> QED
    BY <2>2, ReverseTwo DEF LockedStruct
<1>5. Adds(m, d, k, q, DmaAlloc("sq", q), DmaFree("sq", q), g, SqDmaNames)
  <2>1. Fits(<<"sqPages", "sqVa", "sqSgIn", "sqSgOut">>, SqDmaNames)
    BY DEF SqDmaNames, BodyNames
  <2> HIDE DEF Fits
  <2>2. Adds(m, d, k, q, Chain(At(q, <<"sqPages", "sqVa", "sqSgIn", "sqSgOut">>)), Each("put", Reverse(At(q, <<"sqPages", "sqVa", "sqSgIn", "sqSgOut">>))),
             g, SqDmaNames)
    BY <1>1, <2>1
  <2> QED
    BY <2>2 DEF DmaAlloc, DmaFree, DmaParts
<1>6. Adds(m, d, k, q, CmdInfoListConstruct(q), CmdInfoListDestroy(q), g, CmdNames)
  <2>1. Fits(<<"cmdList", "cmdLock", "cmdArray">>, CmdNames)
    BY DEF CmdNames, BodyNames
  <2> HIDE DEF Fits
  <2>2. Adds(m, d, k, q, Chain(At(q, <<"cmdList", "cmdLock", "cmdArray">>)), Each("put", Reverse(At(q, <<"cmdList", "cmdLock", "cmdArray">>))),
             g, CmdNames)
    BY <1>1, <2>1
  <2> QED
    BY <2>2, ReverseThree DEF CmdInfoListConstruct, CmdInfoListDestroy
<1>7. Adds(m, d, k, q, QueueStatsConstruct(q), QueueStatsDestroy(q), g, {"stats"})
  <2>1. Fits(<<"stats">>, {"stats"})
    BY DEF BodyNames
  <2> HIDE DEF Fits
  <2>2. Adds(m, d, k, q, Chain(At(q, <<"stats">>)), Each("put", Reverse(At(q, <<"stats">>))),
             g, {"stats"})
    BY <1>1, <2>1
  <2> QED
    BY <2>2, ReverseOne DEF QueueStatsConstruct, QueueStatsDestroy
<1> QED
  BY <1>2, <1>3, <1>4, <1>5, <1>6, <1>7

(* Two sequences of labels that meet in one state.                         *)
LEMMA UnwindsTwo ==
  ASSUME NEW S, NEW u, NEW v, NEW h, NEW g, NEW F,
         Unwinds(S, u, h, {g}), Unwinds(S, v, g, F)
  PROVE  Unwinds(S, u \o v, h, F)
<1>1. u \in Seq(Undos) /\ v \in Seq(Undos)
  BY DEF Unwinds
<1> QED BY <1>1, UnwindsBoth

(* A function after another, whose failure gives back what the first took. *)
LEMMA ThenWithin ==
  ASSUME NEW S, NEW k, "tries" \notin k, NEW p, NEW q, NEW u, NEW P, NEW Q, NEW R, NEW F, NEW G,
         Does(S, k, p, P, Q, F), Does(S, k, q, Q, R, G), u \in Seq(Undos),
         \A g \in G : Unwinds(S, u, g, F)
  PROVE  Does(S, k, p \o Within(q, u), P, R, F)
<1>1. Does(S, k, Within(q, u), Q, R, F)
  BY DoesWithin
<1> QED BY <1>1, DoesBoth

(* The same when both take everything or nothing.                          *)
LEMMA Takes ==
  ASSUME NEW S, NEW k, "tries" \notin k, NEW p, NEW q, NEW u, NEW b, NEW g, NEW h,
         Does(S, k, p, {b}, {g}, {b}), Does(S, k, q, {g}, {h}, {g}), Unwinds(S, u, g, {b})
  PROVE  Does(S, k, p \o Within(q, u), {b}, {h}, {b})
<1>1. u \in Seq(Undos)  BY DEF Unwinds
<1> QED BY <1>1, ThenWithin

(* The queue q has the names N, and b is the rest; nothing of it is there  *)
(* and what it is made from is.                                            *)
With(b, q, N) == b \cup Named(q, N)
Ready(m, d, q, x, b) ==
  /\ b \in Safe(m, d) /\ b \cap OfQueue(q) = {} /\ QueueBase \cup {QueueList} \subseteq b
  /\ q \in Nat /\ x \in BOOLEAN /\ (x => Cookies \in b)

(* The states in which a queue has some of its names.                      *)
LEMMA WithIs ==
  ASSUME NEW m, NEW d, NEW q, NEW x, NEW b, Ready(m, d, q, x, b),
         NEW N \in SUBSET QueueNames, NEW O \in SUBSET QueueNames
  PROVE  /\ With(b, q, N) \cup Named(q, O) = With(b, q, N \cup O)
         /\ N \cap O = {} => Named(q, O) \cap With(b, q, N) = {}
         /\ QueueBase \subseteq With(b, q, N) /\ QueueList \in With(b, q, N)
         /\ N \cap O = {} => With(b, q, N \cup O) \ Named(q, O) = With(b, q, N)
         /\ \A n \in QueueNames : n \in N <=> <<n, q>> \in With(b, q, N)
<1>1. \A n \in QueueNames : <<n, q>> \notin b
  BY DEF Ready, OfQueue
<1>2. With(b, q, N) \cup Named(q, O) = With(b, q, N \cup O)
  BY DEF With, Named
<1>3. \A n : <<n, q>> \in Named(q, N) <=> n \in N
  BY DEF Named
<1>4. \A n : <<n, q>> \in Named(q, O) <=> n \in O
  BY DEF Named
<1>5. \A t \in Named(q, O) : \E n \in O : t = <<n, q>>
  BY DEF Named
<1>6. \A n \in QueueNames : n \in N <=> <<n, q>> \in With(b, q, N)
  BY <1>1, <1>3 DEF With
<1>7. N \cap O = {} => Named(q, O) \cap With(b, q, N) = {}
  BY <1>5, <1>6
<1>8. N \cap O = {} => With(b, q, N \cup O) \ Named(q, O) = With(b, q, N)
  BY <1>2, <1>7
<1>9. QueueBase \subseteq With(b, q, N) /\ QueueList \in With(b, q, N)
  BY DEF With, Ready
<1> QED
  BY <1>2, <1>6, <1>7, <1>8, <1>9

(* The groups are all the parts of a queue.                                *)
LEMMA NamesAre ==
  CqLockNames \cup CqDmaNames \cup SqLockNames \cup SqDmaNames \cup CmdNames \cup {"stats"} = BodyNames
BY DEF CqLockNames, CqDmaNames, SqLockNames, SqDmaNames, CmdNames, BodyNames

(* p takes all the names O of the queue or none, and u gives them back.    *)
Grows(m, d, k, p, u, b, q, N, O) ==
  N \cap O = {} => Built(Safe(m, d), k, p, u, With(b, q, N), With(b, q, N \cup O))

(* Parts, for a queue that is being built.                                 *)
LEMMA PartsOf ==
  ASSUME NEW m, NEW d, NEW q, NEW x, NEW b, Ready(m, d, q, x, b), NEW k,
         NEW N \in SUBSET QueueNames, With(b, q, N) \in Safe(m, d)
  PROVE  /\ Grows(m, d, k, LockedStruct(q, "cqInfo", "cqLock"), Each("put", At(q, <<"cqLock", "cqInfo">>)),
                 b, q, N, CqLockNames)
         /\ Grows(m, d, k, DmaAlloc("cq", q), DmaFree("cq", q),
                 b, q, N, CqDmaNames)
         /\ Grows(m, d, k, LockedStruct(q, "sqInfo", "sqLock"), Each("put", At(q, <<"sqLock", "sqInfo">>)),
                 b, q, N, SqLockNames)
         /\ Grows(m, d, k, DmaAlloc("sq", q), DmaFree("sq", q),
                 b, q, N, SqDmaNames)
         /\ Grows(m, d, k, CmdInfoListConstruct(q), CmdInfoListDestroy(q),
                 b, q, N, CmdNames)
         /\ Grows(m, d, k, QueueStatsConstruct(q), QueueStatsDestroy(q),
                 b, q, N, {"stats"})
<1> DEFINE g == With(b, q, N)
<1>1. g \in Safe(m, d) /\ QueueBase \subseteq g /\ q \in Nat
  <2>1. QueueBase \subseteq b /\ q \in Nat
    BY DEF Ready
  <2>2. QueueBase \subseteq g
    BY <2>1 DEF With
  <2> QED
    BY <2>1, <2>2
<1>2. ASSUME NEW O \in SUBSET QueueNames, NEW p, NEW u, Adds(m, d, k, q, p, u, g, O)
      PROVE  Grows(m, d, k, p, u, b, q, N, O)
  <2>1. SUFFICES ASSUME N \cap O = {}
                 PROVE  Built(Safe(m, d), k, p, u, g, With(b, q, N \cup O))
    BY DEF Grows
  <2>2. Named(q, O) \cap g = {}
    BY <2>1, WithIs
  <2>3. With(b, q, N \cup O) = g \cup Named(q, O)
    BY DEF With, Named
  <2> QED
    BY <1>2, <2>2, <2>3 DEF Adds
<1>3. /\ CqLockNames \in SUBSET QueueNames /\ SqLockNames \in SUBSET QueueNames
      /\ CqDmaNames \in SUBSET QueueNames /\ SqDmaNames \in SUBSET QueueNames
      /\ CmdNames \in SUBSET QueueNames /\ {"stats"} \in SUBSET QueueNames
  <2>1. BodyNames \subseteq QueueNames
    BY QueueNamesAre
  <2> QED
    BY <2>1, NamesAre
<1> HIDE DEF g
<1>4. Grows(m, d, k, LockedStruct(q, "cqInfo", "cqLock"), Each("put", At(q, <<"cqLock", "cqInfo">>)), b, q, N, CqLockNames)
  <2>1. Adds(m, d, k, q, LockedStruct(q, "cqInfo", "cqLock"), Each("put", At(q, <<"cqLock", "cqInfo">>)), g, CqLockNames)
    BY <1>1, Parts
  <2> QED
    BY <1>2, <1>3, <2>1
<1>5. Grows(m, d, k, DmaAlloc("cq", q), DmaFree("cq", q), b, q, N, CqDmaNames)
  <2>1. Adds(m, d, k, q, DmaAlloc("cq", q), DmaFree("cq", q), g, CqDmaNames)
    BY <1>1, Parts
  <2> QED
    BY <1>2, <1>3, <2>1
<1>6. Grows(m, d, k, LockedStruct(q, "sqInfo", "sqLock"), Each("put", At(q, <<"sqLock", "sqInfo">>)), b, q, N, SqLockNames)
  <2>1. Adds(m, d, k, q, LockedStruct(q, "sqInfo", "sqLock"), Each("put", At(q, <<"sqLock", "sqInfo">>)), g, SqLockNames)
    BY <1>1, Parts
  <2> QED
    BY <1>2, <1>3, <2>1
<1>7. Grows(m, d, k, DmaAlloc("sq", q), DmaFree("sq", q), b, q, N, SqDmaNames)
  <2>1. Adds(m, d, k, q, DmaAlloc("sq", q), DmaFree("sq", q), g, SqDmaNames)
    BY <1>1, Parts
  <2> QED
    BY <1>2, <1>3, <2>1
<1>8. Grows(m, d, k, CmdInfoListConstruct(q), CmdInfoListDestroy(q), b, q, N, CmdNames)
  <2>1. Adds(m, d, k, q, CmdInfoListConstruct(q), CmdInfoListDestroy(q), g, CmdNames)
    BY <1>1, Parts
  <2> QED
    BY <1>2, <1>3, <2>1
<1>9. Grows(m, d, k, QueueStatsConstruct(q), QueueStatsDestroy(q), b, q, N, {"stats"})
  <2>1. Adds(m, d, k, q, QueueStatsConstruct(q), QueueStatsDestroy(q), g, {"stats"})
    BY <1>1, Parts
  <2> QED
    BY <1>2, <1>3, <2>1
<1> QED
  BY <1>4, <1>5, <1>6, <1>7, <1>8, <1>9

(* Two constructors in sequence, the labels of the second before those of  *)
(* the first.                                                              *)
LEMMA BuiltTwo ==
  ASSUME NEW S, NEW k, "tries" \notin k, NEW p, NEW q, NEW u, NEW v, NEW f, NEW g, NEW h,
         Built(S, k, p, u, f, g), Built(S, k, q, v, g, h)
  PROVE  Built(S, k, p \o Within(q, u), v \o u, f, h)
<1>1. Does(S, k, p \o Within(q, u), {f}, {h}, {f})
  BY Takes DEF Built
<1>2. Unwinds(S, v \o u, h, {f})
  BY UnwindsTwo DEF Built
<1> QED BY <1>1, <1>2 DEF Built

(* The same for the names of a queue.                                      *)
LEMMA GrowsTwo ==
  ASSUME NEW m, NEW d, NEW k, "tries" \notin k, NEW p, NEW r, NEW u, NEW v, NEW b, NEW q,
         NEW N, NEW O, NEW M,
         Built(Safe(m, d), k, p, u, With(b, q, N), With(b, q, O)),
         Grows(m, d, k, r, v, b, q, O, M), O \cap M = {}
  PROVE  Built(Safe(m, d), k, p \o Within(r, u), v \o u, With(b, q, N), With(b, q, O \cup M))
BY BuiltTwo DEF Grows

(* The names of the completion queue and of the submission queue.          *)
CqNames(x) == CqLockNames \cup CqDmaNames \cup (IF x THEN {"vector"} ELSE {})
SqNames == SqLockNames \cup SqDmaNames

(* The groups are names of a queue.                                        *)
LEMMA NamesIn ==
  ASSUME NEW x \in BOOLEAN
  PROVE  /\ CqLockNames \in SUBSET QueueNames /\ SqLockNames \in SUBSET QueueNames
         /\ CqDmaNames \in SUBSET QueueNames /\ SqDmaNames \in SUBSET QueueNames
         /\ CmdNames \in SUBSET QueueNames /\ {"stats"} \in SUBSET QueueNames
         /\ CqNames(x) \in SUBSET QueueNames /\ SqNames \in SUBSET QueueNames
BY DEF CqLockNames, SqLockNames, CqDmaNames, SqDmaNames, CmdNames, CqNames, SqNames,
       QueueNames, BodyNames

(* CompQueueConstruct and CompQueueDestroy are each other's inverse when   *)
(* "vectored" and "msix" agree.                                            *)
LEMMA CompQueue ==
  ASSUME NEW m, NEW d, NEW q, NEW x, NEW b, Ready(m, d, q, x, b), NEW k, "tries" \notin k,
         NEW N \in SUBSET QueueNames, With(b, q, N) \in Safe(m, d), N \cap CqNames(TRUE) = {}
  PROVE  Built(Safe(m, d), k, CompQueueConstruct(q, x), CompQueueDestroy(q, x),
               With(b, q, N), With(b, q, N \cup CqNames(x)))
<1> DEFINE S == Safe(m, d)
           freeLock == Each("put", At(q, <<"cqLock", "cqInfo">>))
           A == N \cup CqLockNames
           B == A \cup CqDmaNames
<1>0. q \in Nat /\ x \in BOOLEAN /\ (x => Cookies \in b)
  BY DEF Ready
<1>1. /\ A \in SUBSET QueueNames /\ N \cap CqLockNames = {}
      /\ B \in SUBSET QueueNames /\ A \cap CqDmaNames = {}
      /\ "vector" \notin B /\ "cqInfo" \in B
  BY NamesIn DEF CqNames, CqLockNames, CqDmaNames
<1> HIDE DEF A, B
<1>2. Built(S, k, LockedStruct(q, "cqInfo", "cqLock"), freeLock, With(b, q, N), With(b, q, A))
  <2>1. Grows(m, d, k, LockedStruct(q, "cqInfo", "cqLock"), freeLock, b, q, N, CqLockNames)
    BY PartsOf
  <2> QED BY <1>1, <2>1 DEF Grows, A
<1>3. /\ Built(S, k, LockedStruct(q, "cqInfo", "cqLock") \o Within(DmaAlloc("cq", q), freeLock),
               DmaFree("cq", q) \o freeLock, With(b, q, N), With(b, q, B))
      /\ Unwinds(S, DmaFree("cq", q), With(b, q, B), {With(b, q, A)})
  <2>1. With(b, q, A) \in Safe(m, d)
    BY <1>2 DEF Built
  <2>2. Grows(m, d, k, DmaAlloc("cq", q), DmaFree("cq", q), b, q, A, CqDmaNames)
    BY <1>1, <2>1, PartsOf
  <2>3. Built(S, k, DmaAlloc("cq", q), DmaFree("cq", q), With(b, q, A), With(b, q, B))
    BY <1>1, <2>2 DEF Grows, B
  <2> QED BY <1>2, <2>3, BuiltTwo DEF Built
<1>4. CASE ~x
  <2>1. CompQueueConstruct(q, x) =
          LockedStruct(q, "cqInfo", "cqLock") \o Within(DmaAlloc("cq", q), freeLock) \o <<>>
    BY <1>4 DEF CompQueueConstruct
  <2>2. CompQueueDestroy(q, x) = <<>> \o DmaFree("cq", q) \o freeLock
    BY <1>4 DEF CompQueueDestroy
  <2>3. N \cup CqNames(x) = B
    BY <1>4 DEF CqNames, A, B
  <2>4. With(b, q, B) \in S
    BY <1>3 DEF Built
  <2>5. Does(S, k, <<>>, {With(b, q, B)}, {With(b, q, B)}, {With(b, q, N)})
    BY <2>4, DoesNothing
  <2>6. Does(S, k, CompQueueConstruct(q, x), {With(b, q, N)}, {With(b, q, B)}, {With(b, q, N)})
    BY <1>3, <2>1, <2>5, DoesBoth DEF Built
  <2>7. Unwinds(S, <<>>, With(b, q, B), {With(b, q, B)})
    BY <2>4, NothingUndone
  <2>8. Unwinds(S, <<>> \o DmaFree("cq", q), With(b, q, B), {With(b, q, A)})
    BY <1>3, <2>7, UnwindsTwo
  <2>9. Unwinds(S, CompQueueDestroy(q, x), With(b, q, B), {With(b, q, N)})
    BY <1>2, <2>2, <2>8, UnwindsTwo DEF Built
  <2> QED BY <2>3, <2>4, <2>6, <2>9 DEF Built
<1>5. CASE x
  <2> DEFINE v == <<"vector", q>>
             C == B \cup {"vector"}
             free == Each("put", At(q, <<"vector">>))
  <2>1. CompQueueConstruct(q, x) =
          LockedStruct(q, "cqInfo", "cqLock") \o Within(DmaAlloc("cq", q), freeLock)
          \o Within(Chain(At(q, <<"vector">>)), DmaFree("cq", q) \o freeLock)
    BY <1>5 DEF CompQueueConstruct
  <2>2. CompQueueDestroy(q, x) = free \o DmaFree("cq", q) \o freeLock
    BY <1>5 DEF CompQueueDestroy
  <2>3. N \cup CqNames(x) = C /\ C \in SUBSET QueueNames
    BY <1>1, <1>5 DEF CqNames, A, B, QueueNames
  <2>4. At(q, <<"vector">>) = <<v>>
    BY DEF At
  <2>5. /\ v \in Tokens \ {Cookies, Listed, QueueList}
        /\ v \notin With(b, q, B) /\ With(b, q, C) = With(b, q, B) \cup {v}
    <3>1. "vector" \in QueueNames BY DEF QueueNames
    <3>2. v \notin With(b, q, B)
      <4>1. v \notin b
        BY <3>1 DEF Ready, OfQueue
      <4> QED BY <4>1, <1>1 DEF With, Named
    <3>3. v \in Tokens \ {Cookies, Listed, QueueList}
      BY <3>1, <1>0, QueueNamesAre
    <3>4. With(b, q, C) = With(b, q, B) \cup {v}
      BY DEF With, Named
    <3> QED BY <3>2, <3>3, <3>4
  <2>6. With(b, q, B) \in S
    BY <1>3 DEF Built
  <2>7. With(b, q, C) \in S
    <3>1. <<"cqInfo", q>> \in With(b, q, B) /\ Cookies \in With(b, q, B)
      BY <1>0, <1>1, <1>5 DEF With, Named
    <3>2. MadeFrom(v) \subseteq With(b, q, B)
      <4>1. MadeFrom(<<"vector", q>>) = {<<"cqInfo", q>>} \cup Zero({"cookies"})
        BY MadeOfQueue
      <4> QED BY <4>1, <3>1 DEF Zero, Cookies
    <3>3. With(b, q, B) \cup {v} \in Safe(m, d)
      BY <2>5, <2>6, <3>1, <3>2, SafeAdd
    <3> QED BY <3>3, <2>5
  <2> HIDE DEF v, C
  <2>8. Does(S, k, Chain(<<v>>), {With(b, q, B)}, {With(b, q, C)}, {With(b, q, B)})
    <3>1. With(b, q, B) \cup {v} \in S
      BY <2>5, <2>7
    <3> QED BY <2>5, <2>6, <3>1, ChainOne
  <2>9. Unwinds(S, free, With(b, q, C), {With(b, q, B)})
    <3>1. With(b, q, C) \ {v} = With(b, q, B) /\ v \in With(b, q, C)
      BY <2>5
    <3>2. With(b, q, C) \ {v} \in S
      BY <3>1, <2>6
    <3>3. Unwinds(S, Each("put", <<v>>), With(b, q, C), {With(b, q, C) \ {v}})
      BY <2>5, <2>7, <3>1, <3>2, DropOne
    <3> QED BY <3>3, <3>1, <2>4
  <2>10. Built(S, k, Chain(<<v>>), free, With(b, q, B), With(b, q, C))
    BY <2>7, <2>8, <2>9 DEF Built
  <2>11. Does(S, k, CompQueueConstruct(q, x), {With(b, q, N)}, {With(b, q, C)}, {With(b, q, N)})
    <3>1. Built(S, k, LockedStruct(q, "cqInfo", "cqLock") \o Within(DmaAlloc("cq", q), freeLock),
                DmaFree("cq", q) \o freeLock, With(b, q, N), With(b, q, B))
      BY <1>3
    <3>2. Built(S, k, (LockedStruct(q, "cqInfo", "cqLock") \o Within(DmaAlloc("cq", q), freeLock))
                      \o Within(Chain(<<v>>), DmaFree("cq", q) \o freeLock),
                free \o (DmaFree("cq", q) \o freeLock), With(b, q, N), With(b, q, C))
      BY <3>1, <2>10, BuiltTwo
    <3> QED BY <3>2, <2>1, <2>4 DEF Built
  <2>12. Unwinds(S, free \o DmaFree("cq", q), With(b, q, C), {With(b, q, A)})
    BY <1>3, <2>9, UnwindsTwo
  <2>13. Unwinds(S, CompQueueDestroy(q, x), With(b, q, C), {With(b, q, N)})
    BY <1>2, <2>2, <2>12, UnwindsTwo DEF Built
  <2> QED BY <2>3, <2>7, <2>11, <2>13 DEF Built
<1> QED BY <1>0, <1>4, <1>5

(* SubQueueConstruct and SubQueueDestroy are each other's inverse.         *)
LEMMA SubQueue ==
  ASSUME NEW m, NEW d, NEW q, NEW x, NEW b, Ready(m, d, q, x, b), NEW k, "tries" \notin k,
         NEW N \in SUBSET QueueNames, With(b, q, N) \in Safe(m, d), N \cap SqNames = {}
  PROVE  Built(Safe(m, d), k, SubQueueConstruct(q), SubQueueDestroy(q),
               With(b, q, N), With(b, q, N \cup SqNames))
<1> DEFINE S == Safe(m, d)
           freeLock == Each("put", At(q, <<"sqLock", "sqInfo">>))
           A == N \cup SqLockNames
           B == A \cup SqDmaNames
<1>0. q \in Nat /\ x \in BOOLEAN
  BY DEF Ready
<1>1. /\ A \in SUBSET QueueNames /\ N \cap SqLockNames = {} /\ A \cap SqDmaNames = {}
      /\ N \cup SqNames = B
  BY NamesIn DEF SqNames, SqLockNames, SqDmaNames
<1> HIDE DEF A, B
<1>2. Built(S, k, LockedStruct(q, "sqInfo", "sqLock"), freeLock, With(b, q, N), With(b, q, A))
  <2>1. Grows(m, d, k, LockedStruct(q, "sqInfo", "sqLock"), freeLock, b, q, N, SqLockNames)
    BY PartsOf
  <2> QED BY <1>1, <2>1 DEF Grows, A
<1>3. Built(S, k, LockedStruct(q, "sqInfo", "sqLock") \o Within(DmaAlloc("sq", q), freeLock),
            DmaFree("sq", q) \o freeLock, With(b, q, N), With(b, q, B))
  <2>1. With(b, q, A) \in Safe(m, d)
    BY <1>2 DEF Built
  <2>2. Grows(m, d, k, DmaAlloc("sq", q), DmaFree("sq", q), b, q, A, SqDmaNames)
    BY <1>1, <2>1, PartsOf
  <2>3. Built(S, k, DmaAlloc("sq", q), DmaFree("sq", q), With(b, q, A), With(b, q, B))
    BY <1>1, <2>2 DEF Grows, B
  <2> QED BY <1>2, <2>3, BuiltTwo
<1> QED BY <1>1, <1>3 DEF SubQueueConstruct, SubQueueDestroy

-----------------------------------------------------------------------------
(* A queue is stopped and destroyed.                                       *)

SwitchNames == {"active", "isIntrEnabled", "pollEnabled"}

(* What of the same queue may refer to it.                                 *)
Users(n) ==
  IF n \in SwitchNames \cup {"counted"} THEN {}
  ELSE IF n = "pollHandler" THEN {"pollEnabled"}
  ELSE IF n = "vector" THEN {"isIntrEnabled"}
  ELSE IF n = "exists" THEN {"active"}
  ELSE SwitchNames \cup (IF n \in BodyNames \ {"stats"} THEN {"pollHandler"} ELSE {})
       \cup (IF n \in CqNames(FALSE) THEN {"vector"} ELSE {})

(* Users, of the same queue, are all that is made from a name of a queue.  *)
LEMMA UsersAre ==
  ASSUME NEW q \in Nat, NEW n \in QueueNames, NEW t \in Tokens, <<n, q>> \in MadeFrom(t)
  PROVE  \E u \in Users(n) : t = <<u, q>>
<1>1. PICK u \in QueueNames : t = <<u, q>>
  <2>1. <<n, q>> \in OfQueue(q)
    BY DEF OfQueue
  <2>2. t \in OfQueue(q)
    BY <2>1, QueueUsers
  <2> QED BY <2>2 DEF OfQueue
<1>2. ASSUME NEW N, <<n, q>> \in Zero(N) PROVE n \in N
  BY <1>2 DEF Zero
<1>3. ASSUME NEW N, <<n, q>> \in {<<i, q>> : i \in N} PROVE n \in N
  BY <1>3
<1>4. Bodies(q) = {<<i, q>> : i \in BodyNames}
  BY BodiesAre
<1>5. CASE u \in BodyNames \cup {"counted", "exists"}
  <2>1. MadeFrom(<<u, q>>) \subseteq Zero({"lockDomain", "memPool", "sgHandle", "dmaEngine", "queueList"})
    <3>1. CASE u \in {"cqInfo", "cqVa", "sqInfo", "sqVa", "cmdList", "cmdArray", "stats", "counted"}
      BY <3>1, MadeOfQueue
    <3>2. CASE u \in {"cqLock", "sqLock", "cmdLock"}
      <4>1. MadeFrom(<<u, q>>) = Zero({"lockDomain"})
        BY <3>2, MadeOfQueue
      <4> QED BY <4>1 DEF Zero
    <3>3. CASE u \in {"cqPages", "sqPages"}
      <4>1. MadeFrom(<<u, q>>) = Zero({"memPool"})
        BY <3>3, MadeOfQueue
      <4> QED BY <4>1 DEF Zero
    <3>4. CASE u \in {"cqSgIn", "sqSgIn"}
      <4>1. MadeFrom(<<u, q>>) = Zero({"sgHandle"})
        BY <3>4, MadeOfQueue
      <4> QED BY <4>1 DEF Zero
    <3>5. CASE u \in {"cqSgOut", "sqSgOut"}
      <4>1. MadeFrom(<<u, q>>) = Zero({"dmaEngine", "sgHandle"})
        BY <3>5, MadeOfQueue
      <4> QED BY <4>1 DEF Zero
    <3>6. CASE u = "exists"
      <4>1. MadeFrom(<<u, q>>) = Zero({"queueList"})
        BY <3>6, MadeOfQueue
      <4> QED BY <4>1 DEF Zero
    <3> QED BY <1>5, <3>1, <3>2, <3>3, <3>4, <3>5, <3>6 DEF BodyNames
  <2>2. n \in {"lockDomain", "memPool", "sgHandle", "dmaEngine", "queueList"}
    BY <1>1, <1>2, <2>1
  <2> QED BY <2>2 DEF QueueNames, BodyNames
<1>6. CASE u = "vector"
  <2>1. MadeFrom(<<u, q>>) = {<<"cqInfo", q>>} \cup Zero({"cookies"})
    BY <1>6, MadeOfQueue
  <2>2. n = "cqInfo" \/ n \in {"cookies"}
    BY <1>1, <1>2, <2>1
  <2>3. n = "cqInfo"
    BY <2>2 DEF QueueNames, BodyNames
  <2> QED BY <1>1, <1>6, <2>3 DEF Users, CqNames, CqLockNames, SwitchNames
<1>7. CASE u = "pollHandler"
  <2>1. MadeFrom(<<u, q>>) = {<<i, q>> : i \in {"cqInfo", "sqInfo", "cmdList"}} \cup Zero({"adapter"})
    BY <1>7, MadeOfQueue
  <2>2. n \in {"cqInfo", "sqInfo", "cmdList"} \/ n \in {"adapter"}
    BY <1>1, <1>2, <1>3, <2>1
  <2>3. n \in {"cqInfo", "sqInfo", "cmdList"}
    BY <2>2 DEF QueueNames, BodyNames
  <2> QED BY <1>1, <1>7, <2>3 DEF Users, BodyNames, SwitchNames
<1>8. CASE u \in SwitchNames
  <2>0. u = "isIntrEnabled" \/ u = "pollEnabled" \/ u = "active"
    BY <1>8 DEF SwitchNames
  <2>1. /\ u = "isIntrEnabled" => MadeFrom(<<u, q>>) = {<<"vector", q>>} \cup Bodies(q)
        /\ u = "pollEnabled" => MadeFrom(<<u, q>>) = {<<"pollHandler", q>>} \cup Bodies(q)
        /\ u = "active" => MadeFrom(<<u, q>>) = {<<"exists", q>>} \cup Bodies(q) \cup Zero({"bar"})
    BY MadeOfQueue
  <2>2. \/ n \in BodyNames
        \/ n \in {"bar"}
        \/ n = "vector" /\ u = "isIntrEnabled"
        \/ n = "pollHandler" /\ u = "pollEnabled"
        \/ n = "exists" /\ u = "active"
    <3>1. <<n, q>> \in Bodies(q) => n \in BodyNames
      BY <1>3, <1>4
    <3>2. <<n, q>> \in Zero({"bar"}) => n \in {"bar"}
      BY <1>2
    <3>3. \A e : <<n, q>> = <<e, q>> => n = e
      OBVIOUS
    <3>4. CASE u = "isIntrEnabled"
      <4>1. MadeFrom(t) = {<<"vector", q>>} \cup Bodies(q)
        BY <1>1, <2>1, <3>4
      <4>2. <<n, q>> = <<"vector", q>> \/ <<n, q>> \in Bodies(q)
        BY <4>1
      <4>3. n = "vector" \/ n \in BodyNames
        BY <4>2, <3>1, <3>3
      <4> QED BY <4>3, <3>4
    <3>5. CASE u = "pollEnabled"
      <4>1. MadeFrom(t) = {<<"pollHandler", q>>} \cup Bodies(q)
        BY <1>1, <2>1, <3>5
      <4>2. <<n, q>> = <<"pollHandler", q>> \/ <<n, q>> \in Bodies(q)
        BY <4>1
      <4>3. n = "pollHandler" \/ n \in BodyNames
        BY <4>2, <3>1, <3>3
      <4> QED BY <4>3, <3>5
    <3>6. CASE u = "active"
      BY <1>1, <2>1, <3>1, <3>2, <3>3, <3>6
    <3> QED BY <2>0, <3>4, <3>5, <3>6
  <2>3. n # "bar"
    BY DEF QueueNames, BodyNames
  <2>4. n \in BodyNames => n \notin SwitchNames \cup {"counted", "pollHandler", "vector", "exists"}
    BY DEF SwitchNames, BodyNames
  <2>5. n \in {"pollHandler", "vector", "exists"} => n \notin SwitchNames \cup {"counted"}
    BY DEF SwitchNames
  <2>6. CASE n \in BodyNames
    <3>0. /\ n \notin SwitchNames \cup {"counted"}
          /\ n # "pollHandler" /\ n # "vector" /\ n # "exists"
      BY <2>4, <2>6
    <3>1. u \in Users(n)
      BY <1>8, <3>0 DEF Users
    <3> QED BY <1>1, <3>1
  <2>7. CASE n = "vector" /\ u = "isIntrEnabled"
    BY <1>1, <2>7 DEF Users, SwitchNames
  <2>8. CASE n = "pollHandler" /\ u = "pollEnabled"
    BY <1>1, <2>8 DEF Users, SwitchNames
  <2>9. CASE n = "exists" /\ u = "active"
    BY <1>1, <2>9 DEF Users, SwitchNames
  <2> QED BY <2>2, <2>3, <2>6, <2>7, <2>8, <2>9
<1> QED BY <1>5, <1>6, <1>7, <1>8 DEF QueueNames, SwitchNames

(* Names of a queue are given back when their users have been.             *)
LEMMA DropMore ==
  ASSUME NEW m, NEW d, NEW h, NEW q \in Nat, NEW N \in SUBSET QueueNames,
         NEW O \in SUBSET QueueNames, h \ Named(q, N) \in Safe(m, d), NEW names \in Seq(O),
         \A i, j \in 1..Len(names) : i # j => names[i] # names[j],
         \A n \in O : \E i \in 1..Len(names) : n = names[i],
         NEW do \in {"put", "drop"},
         do = "put" => O \cap N = {} /\ Named(q, O) \subseteq h,
         \A n \in O : \A u \in Users(n) : u \in N \/ <<u, q>> \notin h
  PROVE  Unwinds(Safe(m, d), Each(do, At(q, names)), h \ Named(q, N), {h \ Named(q, N \cup O)})
<1> DEFINE ts == At(q, names)
           g == h \ Named(q, N)
<1>1. /\ ts \in Seq(Named(q, O)) /\ Len(ts) = Len(names) /\ Len(names) \in Nat
      /\ \A i \in 1..Len(names) : ts[i] = <<names[i], q>> /\ names[i] \in O
  <2>1. Len(names) \in Nat /\ \A i \in 1..Len(names) : names[i] \in O
    OBVIOUS
  <2>2. /\ ts \in Seq(Named(q, O)) /\ Len(ts) = Len(names)
        /\ \A i \in 1..Len(names) : ts[i] = <<names[i], q>>
    BY AtIs
  <2> HIDE DEF ts
  <2> QED BY <2>1, <2>2
<1>2. Named(q, O) \subseteq Tokens
  BY QueueNamesAre DEF Named
<1> HIDE DEF ts
<1>3. ts \in Seq(Tokens)
  BY <1>1, <1>2
<1>4. ASSUME NEW i \in 1..Len(ts)
      PROVE  /\ ts[i] # QueueList /\ ts[i] # Cookies
             /\ \A t \in g \ Left(m) : ts[i] \notin MadeFrom(t)
             /\ do = "put" => ts[i] \in g \ Taken(ts, i - 1)
  <2>1. ts[i] = <<names[i], q>> /\ names[i] \in O /\ names[i] \in QueueNames
    BY <1>1
  <2>2. ts[i] # QueueList /\ ts[i] # Cookies
    BY <2>1, QueueNamesAre
  <2>3. ASSUME NEW t \in g, ts[i] \in MadeFrom(t) PROVE FALSE
    <3>1. t \in Tokens
      BY DEF Safe
    <3>2. PICK u \in Users(names[i]) : t = <<u, q>>
      BY <2>1, <2>3, <3>1, UsersAre
    <3> QED BY <2>1, <3>2 DEF Named
  <2>4. ASSUME do = "put" PROVE ts[i] \in g \ Taken(ts, i - 1)
    <3>1. ts[i] \in h /\ ts[i] \notin Named(q, N)
      BY <2>1, <2>4 DEF Named
    <3>2. \A j \in 1..(i - 1) : ts[j] # ts[i]
      BY <1>1
    <3> QED BY <3>1, <3>2 DEF Taken
  <2> QED BY <2>2, <2>3, <2>4
<1>5. Elems(ts) = Named(q, O)
  <2>1. \A i \in 1..Len(ts) : ts[i] = <<names[i], q>> /\ names[i] \in O
    BY <1>1
  <2>2. \A n \in O : \E i \in 1..Len(ts) : ts[i] = <<n, q>>
    BY <1>1
  <2>3. ASSUME NEW t \in Elems(ts) PROVE t \in Named(q, O)
    <3>1. PICK i \in 1..Len(ts) : t = ts[i]
      BY DEF Elems, Taken
    <3> QED BY <3>1, <2>1 DEF Named
  <2>4. ASSUME NEW t \in Named(q, O) PROVE t \in Elems(ts)
    <3>1. PICK n \in O : t = <<n, q>>
      BY DEF Named
    <3>2. PICK i \in 1..Len(ts) : ts[i] = <<n, q>>
      BY <2>2
    <3> QED BY <3>1, <3>2 DEF Elems, Taken
  <2> QED BY <2>3, <2>4
<1>6. g \ Elems(ts) = h \ Named(q, N \cup O)
  BY <1>5 DEF Named
<1> HIDE DEF g
<1>7. g \in Safe(m, d)
  BY DEF g
<1>8. Unwinds(Safe(m, d), Each(do, ts), g, {g \ Elems(ts)})
  BY <1>3, <1>4, <1>7, SafePuts
<1> QED BY <1>6, <1>8 DEF g, ts

(* Reverse of a list of four names.                                        *)
LEMMA ReverseFour ==
  ASSUME NEW q, NEW a, NEW b, NEW c, NEW e
  PROVE  Reverse(At(q, <<a, b, c, e>>)) = At(q, <<e, c, b, a>>)
<1>1. At(q, <<a, b, c, e>>) = <<<<a, q>>, <<b, q>>, <<c, q>>, <<e, q>>>>
      /\ At(q, <<e, c, b, a>>) = <<<<e, q>>, <<c, q>>, <<b, q>>, <<a, q>>>>
  BY DEF At
<1>2. ASSUME NEW x, NEW y, NEW z, NEW w PROVE Reverse(<<x, y, z, w>>) = <<w, z, y, x>>
  BY DEF Reverse
<1> QED BY <1>1, <1>2

(* Labels end in a safe state.                                             *)
LEMMA UnwindsEnd ==
  ASSUME NEW S, NEW u, NEW h, NEW g, Unwinds(S, u, h, {g})
  PROVE  g \in S
<1>1. Len(u) \in 0..Len(u)
  BY DEF Unwinds
<1> QED BY <1>1 DEF Unwinds

(* The names of a queue that its destruction removes.                      *)
GoneNames == SwitchNames \cup BodyNames \cup {"exists", "pollHandler", "vector"}

(* NVMEPCIESuspendQueue clears the switches of a queue.                    *)
LEMMA Suspended ==
  ASSUME NEW m, NEW d, NEW h \in Safe(m, d), NEW q \in Nat
  PROVE  Unwinds(Safe(m, d), SuspendQueue(q), h, {h \ Named(q, SwitchNames)})
<1>1. h \ Named(q, {}) = h /\ {} \cup SwitchNames = SwitchNames
  BY DEF Named
<1> DEFINE names == <<"active", "pollEnabled", "isIntrEnabled">>
<1>2. /\ names \in Seq(SwitchNames) /\ SwitchNames \in SUBSET QueueNames
      /\ \A i, j \in 1..Len(names) : i # j => names[i] # names[j]
      /\ \A n \in SwitchNames : \E i \in 1..Len(names) : n = names[i]
  BY DEF SwitchNames, QueueNames
<1>3. \A n \in SwitchNames : Users(n) = {}
  BY DEF Users
<1> HIDE DEF names
<1>4. "drop" \in {"put", "drop"} /\ "drop" # "put"
  OBVIOUS
<1>5. Unwinds(Safe(m, d), Each("drop", At(q, names)), h \ Named(q, {}),
              {h \ Named(q, {} \cup SwitchNames)})
  BY <1>1, <1>2, <1>3, <1>4, DropMore
<1> QED BY <1>1, <1>5 DEF SuspendQueue, names

(* NVMEPCIEQueueDestroy of a queue that is suspended and has all its       *)
(* parts.                                                                  *)
LEMMA Destroyed ==
  ASSUME NEW m, NEW d, NEW h, NEW q \in Nat, NEW x \in BOOLEAN,
         h \ Named(q, SwitchNames) \in Safe(m, d), Named(q, BodyNames \cup {"exists"}) \subseteq h,
         x <=> <<"vector", q>> \in h
  PROVE  Unwinds(Safe(m, d), QueueDestroy(q, x), h \ Named(q, SwitchNames),
                 {h \ Named(q, GoneNames)})
<1> DEFINE S == Safe(m, d)
           G(N) == h \ Named(q, N)
           N1 == SwitchNames \cup {"exists"}
           N2 == N1 \cup {"stats"}
           N3 == N2 \cup {"pollHandler"}
           N4 == N3 \cup CmdNames
           N5 == N4 \cup SqDmaNames
           N6 == N5 \cup SqLockNames
           N7 == N6 \cup {"vector"}
           N8 == N7 \cup CqDmaNames
           N9 == N8 \cup CqLockNames
           Fits(names, O) ==
             /\ O \in SUBSET QueueNames /\ names \in Seq(O)
             /\ \A i, j \in 1..Len(names) : i # j => names[i] # names[j]
             /\ \A n \in O : \E i \in 1..Len(names) : n = names[i]
           Fresh(O, N) ==
             /\ SwitchNames \subseteq N /\ N \in SUBSET QueueNames
             /\ O \cap N = {}
             /\ O \cap BodyNames \subseteq {"stats"} \/ "pollHandler" \in N
             /\ O \cap CqNames(FALSE) = {} \/ "vector" \in N
<1>0. /\ BodyNames \subseteq QueueNames
      /\ \A n \in BodyNames \cup {"exists"} : <<n, q>> \in h
  BY QueueNamesAre DEF Named
<1>1. ASSUME NEW O, NEW N, NEW names, NEW do \in {"put", "drop"}, Fits(names, O), Fresh(O, N),
             do = "put" => Named(q, O) \subseteq h, G(N) \in S
      PROVE  Unwinds(S, Each(do, At(q, names)), G(N), {G(N \cup O)}) /\ G(N \cup O) \in S
  <2>1. \A n \in O : \A u \in Users(n) : u \in N
    BY <1>1 DEF Users, SwitchNames
  <2>2. Unwinds(S, Each(do, At(q, names)), G(N), {G(N \cup O)})
    BY <1>1, <2>1, DropMore
  <2> QED BY <2>2, UnwindsEnd
<1>2. /\ Fits(<<"exists">>, {"exists"}) /\ Fits(<<"stats">>, {"stats"})
      /\ Fits(<<"pollHandler">>, {"pollHandler"}) /\ Fits(<<"vector">>, {"vector"})
  BY DEF QueueNames, BodyNames
<1>3. /\ Fits(<<"cmdArray", "cmdLock", "cmdList">>, CmdNames)
      /\ Fits(<<"sqLock", "sqInfo">>, SqLockNames) /\ Fits(<<"cqLock", "cqInfo">>, CqLockNames)
  BY DEF QueueNames, BodyNames, CmdNames, SqLockNames, CqLockNames
<1>4. /\ Fits(<<"sqSgOut", "sqSgIn", "sqVa", "sqPages">>, SqDmaNames)
      /\ Fits(<<"cqSgOut", "cqSgIn", "cqVa", "cqPages">>, CqDmaNames)
  BY DEF QueueNames, BodyNames, SqDmaNames, CqDmaNames
<1>5. /\ CmdNames \cup SqDmaNames \cup SqLockNames \cup CqDmaNames \cup CqLockNames \cup {"stats"}
           = BodyNames
      /\ N9 = GoneNames
  BY DEF BodyNames, CmdNames, SqDmaNames, SqLockNames, CqDmaNames, CqLockNames, GoneNames
<1>6. /\ Fresh({"exists"}, SwitchNames) /\ Fresh({"stats"}, N1) /\ Fresh({"pollHandler"}, N2)
      /\ Fresh(CmdNames, N3)
  BY DEF SwitchNames, QueueNames, BodyNames, CmdNames, CqNames, CqLockNames, CqDmaNames
<1>7. Fresh(SqDmaNames, N4) /\ Fresh(SqLockNames, N5) /\ Fresh({"vector"}, N6)
  BY DEF SwitchNames, QueueNames, BodyNames, CmdNames, CqNames, CqLockNames, CqDmaNames, SqDmaNames,
         SqLockNames
<1>8. Fresh(CqDmaNames, N7) /\ Fresh(CqLockNames, N8)
  BY DEF SwitchNames, QueueNames, BodyNames, CmdNames, CqNames, CqLockNames, CqDmaNames, SqDmaNames,
         SqLockNames
<1>9. /\ Named(q, {"exists"}) \subseteq h /\ Named(q, {"stats"}) \subseteq h
      /\ Named(q, CmdNames) \subseteq h /\ Named(q, SqDmaNames) \subseteq h
      /\ Named(q, SqLockNames) \subseteq h /\ Named(q, CqDmaNames) \subseteq h
      /\ Named(q, CqLockNames) \subseteq h /\ (x => Named(q, {"vector"}) \subseteq h)
  BY <1>0, <1>5 DEF Named
<1> HIDE DEF N1, N2, N3, N4, N5, N6, N7, N8, N9, Fits, Fresh, G
<1>10. G(SwitchNames) \in S
  BY DEF G
<1>11. Unwinds(S, Each("put", At(q, <<"exists">>)), G(SwitchNames), {G(N1)}) /\ G(N1) \in S
  BY <1>1, <1>2, <1>6, <1>9, <1>10 DEF N1
<1>12. Unwinds(S, Each("put", At(q, <<"stats">>)), G(N1), {G(N2)}) /\ G(N2) \in S
  BY <1>1, <1>2, <1>6, <1>9, <1>11 DEF N2
<1>13. Unwinds(S, Each("drop", At(q, <<"pollHandler">>)), G(N2), {G(N3)}) /\ G(N3) \in S
  <2>1. "drop" # "put" OBVIOUS
  <2> QED BY <1>1, <1>2, <1>6, <1>12, <2>1 DEF N3
<1>14. Unwinds(S, CmdInfoListDestroy(q), G(N3), {G(N4)}) /\ G(N4) \in S
  BY <1>1, <1>3, <1>6, <1>9, <1>13 DEF N4, CmdInfoListDestroy
<1>15. /\ DmaFree("sq", q) = Each("put", At(q, <<"sqSgOut", "sqSgIn", "sqVa", "sqPages">>))
       /\ DmaFree("cq", q) = Each("put", At(q, <<"cqSgOut", "cqSgIn", "cqVa", "cqPages">>))
  BY ReverseFour DEF DmaFree, DmaParts
<1>16. Unwinds(S, DmaFree("sq", q), G(N4), {G(N5)}) /\ G(N5) \in S
  BY <1>1, <1>4, <1>7, <1>9, <1>14, <1>15 DEF N5
<1>17. Unwinds(S, Each("put", At(q, <<"sqLock", "sqInfo">>)), G(N5), {G(N6)}) /\ G(N6) \in S
  BY <1>1, <1>3, <1>7, <1>9, <1>16 DEF N6
<1>18. /\ Unwinds(S, IF x THEN Each("put", At(q, <<"vector">>)) ELSE <<>>, G(N6), {G(N7)})
       /\ G(N7) \in S
  <2>1. CASE x
    BY <2>1, <1>1, <1>2, <1>7, <1>9, <1>17 DEF N7
  <2>2. CASE ~x
    <3>1. G(N7) = G(N6)
      BY <2>2 DEF G, N7, Named
    <3> QED BY <3>1, <2>2, <1>17, NothingUndone
  <2> QED BY <2>1, <2>2
<1>19. Unwinds(S, DmaFree("cq", q), G(N7), {G(N8)}) /\ G(N8) \in S
  BY <1>1, <1>4, <1>8, <1>9, <1>15, <1>18 DEF N8
<1>20. Unwinds(S, Each("put", At(q, <<"cqLock", "cqInfo">>)), G(N8), {G(N9)}) /\ G(N9) \in S
  BY <1>1, <1>3, <1>8, <1>9, <1>19 DEF N9
<1> DEFINE F1 == Each("put", At(q, <<"exists">>))
           F2 == QueueStatsDestroy(q)
           F3 == StoragePollDestroy(q)
           F4 == CmdInfoListDestroy(q)
           F5 == SubQueueDestroy(q)
           F6 == CompQueueDestroy(q, x)
<1>21. /\ Unwinds(S, F1, G(SwitchNames), {G(N1)}) /\ Unwinds(S, F2, G(N1), {G(N2)})
       /\ Unwinds(S, F3, G(N2), {G(N3)}) /\ Unwinds(S, F4, G(N3), {G(N4)})
  BY <1>11, <1>12, <1>13, <1>14 DEF QueueStatsDestroy, StoragePollDestroy
<1>22. Unwinds(S, F5, G(N4), {G(N6)})
  BY <1>16, <1>17, UnwindsTwo DEF SubQueueDestroy
<1>23. Unwinds(S, F6, G(N6), {G(N9)})
  <2> DEFINE a == IF x THEN Each("put", At(q, <<"vector">>)) ELSE <<>>
             b == DmaFree("cq", q)
             c == Each("put", At(q, <<"cqLock", "cqInfo">>))
  <2>1. F6 = (a \o b) \o c
    BY DEF CompQueueDestroy
  <2>2. Unwinds(S, a, G(N6), {G(N7)}) /\ Unwinds(S, b, G(N7), {G(N8)}) /\ Unwinds(S, c, G(N8), {G(N9)})
    BY <1>18, <1>19, <1>20
  <2> HIDE DEF a, b, c, F6
  <2>3. Unwinds(S, a \o b, G(N6), {G(N8)})
    BY <2>2, UnwindsTwo
  <2> QED BY <2>1, <2>2, <2>3, UnwindsTwo
<1>24. QueueDestroy(q, x) = ((((F1 \o F2) \o F3) \o F4) \o F5) \o F6
  BY DEF QueueDestroy
<1> HIDE DEF F1, F2, F3, F4, F5, F6
<1>25. Unwinds(S, F1 \o F2, G(SwitchNames), {G(N2)})
  BY <1>21, UnwindsTwo
<1>26. Unwinds(S, (F1 \o F2) \o F3, G(SwitchNames), {G(N3)})
  BY <1>21, <1>25, UnwindsTwo
<1>27. Unwinds(S, ((F1 \o F2) \o F3) \o F4, G(SwitchNames), {G(N4)})
  BY <1>21, <1>26, UnwindsTwo
<1>28. Unwinds(S, (((F1 \o F2) \o F3) \o F4) \o F5, G(SwitchNames), {G(N6)})
  BY <1>22, <1>27, UnwindsTwo
<1>29. Unwinds(S, ((((F1 \o F2) \o F3) \o F4) \o F5) \o F6, G(SwitchNames), {G(N9)})
  BY <1>23, <1>28, UnwindsTwo
<1> QED BY <1>5, <1>24, <1>29 DEF G

-----------------------------------------------------------------------------
(* A queue is built and started.                                           *)

(* A queue that is whole, and what of it may come and go.                  *)
WholeNames(x) == {"exists"} \cup BodyNames \cup (IF x THEN {"vector"} ELSE {})

(* QueueConstruct but for its last step. *)
Construct(q, x) ==
  LET destroyCq == CompQueueDestroy(q, x) \o Each("put", At(q, <<"exists">>))
      destroySq == SubQueueDestroy(q) \o destroyCq
      destroyCmdInfoList == CmdInfoListDestroy(q) \o destroySq
  IN Each("add", At(q, <<"exists">>)) \o CompQueueConstruct(q, x)
     \o Within(SubQueueConstruct(q), destroyCq)
     \o Within(CmdInfoListConstruct(q), destroySq)
     \o Within(QueueStatsConstruct(q), destroyCmdInfoList)

(* QueueConstruct builds all parts of a queue or none; the failure of the  *)
(* completion queue leaves "exists".                                       *)
LEMMA Constructed ==
  ASSUME NEW m, NEW d, NEW q, NEW x, NEW b, Ready(m, d, q, x, b), NEW k, "tries" \notin k
  PROVE  /\ Does(Safe(m, d), k, Construct(q, x), {b}, {With(b, q, WholeNames(x))},
                 {b, With(b, q, {"exists"})})
         /\ With(b, q, WholeNames(x)) \in Safe(m, d) /\ With(b, q, {"exists"}) \in Safe(m, d)
<1> DEFINE S == Safe(m, d)
           W(N) == With(b, q, N)
           e == <<"exists", q>>
           NE == {"exists"}
           NC == NE \cup CqNames(x)
           NS == NC \cup SqNames
           NM == NS \cup CmdNames
           NF == NM \cup {"stats"}
           F == {b, W(NE)}
           putE == Each("put", At(q, <<"exists">>))
           addE == Each("add", At(q, <<"exists">>))
           comp == CompQueueConstruct(q, x)
           sub == SubQueueConstruct(q)
           cmd == CmdInfoListConstruct(q)
           stats == QueueStatsConstruct(q)
           uC == CompQueueDestroy(q, x)
           uS == SubQueueDestroy(q)
           uM == CmdInfoListDestroy(q)
<1>0. b \in S /\ q \in Nat /\ x \in BOOLEAN /\ QueueList \in b /\ "exists" \in QueueNames
  BY DEF Ready, QueueNames
<1>1. /\ e \in Tokens \ {Cookies, Listed, QueueList} /\ e \notin b
      /\ At(q, <<"exists">>) = <<e>> /\ W(NE) = b \cup {e} /\ W(NE) \ {e} = b
  <2>1. e \in Tokens \ {Cookies, Listed, QueueList}
    BY <1>0, QueueNamesAre
  <2>2. e \notin b
    BY <1>0 DEF Ready, OfQueue
  <2>3. At(q, <<"exists">>) = <<e>>
    BY DEF At
  <2>4. W(NE) = b \cup {e}
    BY DEF With, Named
  <2> QED BY <2>1, <2>2, <2>3, <2>4
<1>2. W(NE) \in S
  <2>1. MadeFrom(e) = Zero({"queueList"})
    BY MadeOfQueue
  <2>2. MadeFrom(e) \subseteq b
    BY <2>1, <1>0 DEF Zero, QueueList
  <2> QED BY <1>0, <1>1, <2>2, SafeAdd
<1>3. Does(S, k, addE, {b}, {W(NE)}, F)
  <2>1. b \cup {e} \in S /\ e \in Tokens \ {Cookies} /\ e # Listed
    BY <1>1, <1>2
  <2>2. Does(S, k, Each("add", <<e>>), {b}, {b \cup {e}}, {})
    BY <1>0, <2>1, AddOne
  <2>3. {} \subseteq F /\ k \subseteq k /\ {b} \subseteq {b} /\ {W(NE)} \subseteq {W(NE)}
    OBVIOUS
  <2>4. Does(S, k, addE, {b}, {W(NE)}, {})
    BY <2>2, <1>1
  <2> HIDE DEF W, F, addE
  <2> QED BY <2>3, <2>4, DoesMore
<1>4. Unwinds(S, putE, W(NE), {b})
  <2>1. e \in W(NE) /\ W(NE) \ {e} \in S
    BY <1>0, <1>1
  <2>2. Unwinds(S, Each("put", <<e>>), W(NE), {W(NE) \ {e}})
    BY <1>1, <1>2, <2>1, DropOne
  <2> QED BY <2>2, <1>1
<1>5. /\ NE \in SUBSET QueueNames /\ NC \in SUBSET QueueNames /\ NS \in SUBSET QueueNames
      /\ NM \in SUBSET QueueNames /\ NF = WholeNames(x)
      /\ NE \cap CqNames(TRUE) = {} /\ NC \cap SqNames = {} /\ NS \cap CmdNames = {}
      /\ NM \cap {"stats"} = {}
  <2>1. NE \in SUBSET QueueNames /\ NC \in SUBSET QueueNames /\ NS \in SUBSET QueueNames
        /\ NM \in SUBSET QueueNames
    BY <1>0, NamesIn
  <2>2. NF = WholeNames(x)
    BY NamesAre DEF WholeNames, CqNames, SqNames
  <2>3. /\ NE \cap CqNames(TRUE) = {} /\ NC \cap SqNames = {} /\ NS \cap CmdNames = {}
        /\ NM \cap {"stats"} = {}
    BY DEF CqNames, SqNames, CmdNames, CqLockNames, CqDmaNames, SqLockNames, SqDmaNames
  <2> QED BY <2>1, <2>2, <2>3
<1> HIDE DEF W, NE, NC, NS, NM, NF, putE, addE, comp, sub, cmd, stats, uC, uS, uM
<1>6. Built(S, k, comp, uC, W(NE), W(NC))
  BY <1>2, <1>5, CompQueue DEF NC, comp, uC, W
<1>7. W(NC) \in S
  BY <1>6 DEF Built
<1>8. Built(S, k, sub, uS, W(NC), W(NS))
  BY <1>5, <1>7, SubQueue DEF NS, sub, uS, W
<1>9. W(NS) \in S
  BY <1>8 DEF Built
<1>10. Built(S, k, cmd, uM, W(NS), W(NM))
  <2>1. Grows(m, d, k, cmd, uM, b, q, NS, CmdNames)
    BY <1>5, <1>9, PartsOf DEF W, cmd, uM
  <2> QED BY <1>5, <2>1 DEF Grows, NM, W
<1>11. W(NM) \in S
  BY <1>10 DEF Built
<1>12. Built(S, k, stats, QueueStatsDestroy(q), W(NM), W(NF))
  <2>1. Grows(m, d, k, stats, QueueStatsDestroy(q), b, q, NM, {"stats"})
    BY <1>5, <1>11, PartsOf DEF W, stats
  <2> QED BY <1>5, <2>1 DEF Grows, NF, W
<1>13. /\ Unwinds(S, uC \o putE, W(NC), {b})
       /\ Unwinds(S, uS \o (uC \o putE), W(NS), {b})
       /\ Unwinds(S, uM \o (uS \o (uC \o putE)), W(NM), {b})
  <2>1. Unwinds(S, uC \o putE, W(NC), {b})
    BY <1>4, <1>6, UnwindsTwo DEF Built
  <2>2. Unwinds(S, uS \o (uC \o putE), W(NS), {b})
    BY <1>8, <2>1, UnwindsTwo DEF Built
  <2>3. Unwinds(S, uM \o (uS \o (uC \o putE)), W(NM), {b})
    BY <1>10, <2>2, UnwindsTwo DEF Built
  <2> QED BY <2>1, <2>2, <2>3
<1>14. \A u, h : Unwinds(S, u, h, {b}) => Unwinds(S, u, h, F) /\ u \in Seq(Undos)
  <2>1. {b} \subseteq F
    OBVIOUS
  <2> HIDE DEF F
  <2> QED BY <2>1, UnwindsMore DEF Unwinds
<1>15. Does(S, k, addE \o comp, {b}, {W(NC)}, F)
  <2>1. Does(S, k, comp, {W(NE)}, {W(NC)}, F)
    <3>1. {W(NE)} \subseteq F OBVIOUS
    <3>2. Does(S, k, comp, {W(NE)}, {W(NC)}, {W(NE)})
      BY <1>6 DEF Built
    <3> HIDE DEF F
    <3> QED BY <3>1, <3>2, DoesMore
  <2> QED BY <1>3, <2>1, DoesBoth
<1>16. Does(S, k, (addE \o comp) \o Within(sub, uC \o putE), {b}, {W(NS)}, F)
  <2>1. Does(S, k, sub, {W(NC)}, {W(NS)}, {W(NC)})
    BY <1>8 DEF Built
  <2>2. \A g \in {W(NC)} : Unwinds(S, uC \o putE, g, F) /\ uC \o putE \in Seq(Undos)
    BY <1>13, <1>14
  <2> QED BY <1>15, <2>1, <2>2, ThenWithin
<1>17. Does(S, k, ((addE \o comp) \o Within(sub, uC \o putE)) \o Within(cmd, uS \o (uC \o putE)),
            {b}, {W(NM)}, F)
  <2>1. Does(S, k, cmd, {W(NS)}, {W(NM)}, {W(NS)})
    BY <1>10 DEF Built
  <2>2. \A g \in {W(NS)} : Unwinds(S, uS \o (uC \o putE), g, F) /\ uS \o (uC \o putE) \in Seq(Undos)
    BY <1>13, <1>14
  <2> QED BY <1>16, <2>1, <2>2, ThenWithin
<1>18. Does(S, k, (((addE \o comp) \o Within(sub, uC \o putE)) \o Within(cmd, uS \o (uC \o putE)))
                  \o Within(stats, uM \o (uS \o (uC \o putE))), {b}, {W(NF)}, F)
  <2>1. Does(S, k, stats, {W(NM)}, {W(NF)}, {W(NM)})
    BY <1>12 DEF Built
  <2>2. \A g \in {W(NM)} : /\ Unwinds(S, uM \o (uS \o (uC \o putE)), g, F)
                           /\ uM \o (uS \o (uC \o putE)) \in Seq(Undos)
    BY <1>13, <1>14
  <2> QED BY <1>17, <2>1, <2>2, ThenWithin
<1>19. Construct(q, x) =
         (((addE \o comp) \o Within(sub, uC \o putE)) \o Within(cmd, uS \o (uC \o putE)))
         \o Within(stats, uM \o (uS \o (uC \o putE)))
  BY DEF Construct, addE, comp, sub, uC, putE, cmd, uS, stats, uM
<1>20. W(NF) \in S
  BY <1>12 DEF Built
<1> QED BY <1>2, <1>5, <1>18, <1>19, <1>20 DEF W, NE

(* What a step whose failure is ignored leads to.                          *)
Tries(S, s, P, Q) ==
  \A h \in P : IF s.token \in h \/ ~(s.if \subseteq h) THEN h \in Q
               ELSE h \cup {s.token} \in Q /\ Unwinds(S, s.undo, h, Q)

Skips(s, P) == \A h \in P : s.token \in h \/ ~(s.if \subseteq h)

(* A step whose failure is ignored: it is left out, it succeeds, or its    *)
(* labels run.                                                             *)
LEMMA TryDoes ==
  ASSUME NEW S, NEW k, NEW s \in StepRec, s.do = "try",
         s.token \notin {Cookies, Listed}, NEW P, NEW Q, NEW F, P \subseteq S, Q \subseteq S,
         "tries" \in k \/ Skips(s, P),
         Tries(S, s, P, Q)
  PROVE  Does(S, k, <<s>>, P, Q, F)
<1>1. Kind(k, s)
  BY DEF Kind
<1>2. \A h \in P : StepOK(S, k, s, h, Q, F)
  BY DEF StepOK, Tries, Skips
<1> QED BY <1>1, <1>2, DoesStep

(* The poll handler of a queue is created, or not.                         *)
LEMMA PollCreated ==
  ASSUME NEW m, NEW d, NEW k, "tries" \in k, NEW q \in Nat, NEW P, NEW Q, NEW F,
         P \subseteq Q, Q \subseteq Safe(m, d),
         \A h \in P : <<"exists", q>> \in h /\ <<"adapter", 0>> \in h =>
                        h \cup {<<"pollHandler", q>>} \in Q
  PROVE  Does(Safe(m, d), k, StoragePollCreate(q), P, Q, F)
<1> DEFINE t == <<"pollHandler", q>>
           s == [Step("try", t) EXCEPT !.if = {<<"exists", q>>, <<"adapter", 0>>}]
<1>1. t \in Tokens \ {Cookies, Listed} /\ <<"exists", q>> \in Tokens /\ <<"adapter", 0>> \in Tokens
  BY QueueNamesAre DEF QueueNames, Tokens, Names
<1>2. /\ s \in StepRec /\ s.do = "try" /\ s.token = t /\ s.undo = <<>>
      /\ s.if = {<<"exists", q>>, <<"adapter", 0>>}
  <2>1. s = [do |-> "try", token |-> t, undo |-> <<>>,
             if |-> {<<"exists", q>>, <<"adapter", 0>>}, want |-> 0]
    <3> DEFINE i == {<<"exists", q>>, <<"adapter", 0>>}
    <3> HIDE DEF i, t
    <3>2. [Step("try", t) EXCEPT !.if = i] = [do |-> "try", token |-> t, undo |-> <<>>, if |-> i, want |-> 0]
      BY DEF Step
    <3> QED BY <3>2 DEF i
  <2>2. "try" \in Dos /\ <<>> \in Seq(Undos) /\ 0 \in Int
    BY DEF Dos
  <2> QED BY <1>1, <2>1, <2>2 DEF StepRec
<1>3. StoragePollCreate(q) = <<s>>
  BY DEF StoragePollCreate
<1> HIDE DEF s, t
<1>4. Tries(Safe(m, d), s, P, Q)
  <2>1. ASSUME NEW h \in P, t \notin h, <<"exists", q>> \in h, <<"adapter", 0>> \in h
        PROVE  h \cup {t} \in Q /\ Unwinds(Safe(m, d), <<>>, h, Q)
    <3>1. h \in Q /\ h \in Safe(m, d) /\ h \cup {t} \in Q
      BY <2>1 DEF t
    <3> QED BY <3>1, NothingUndone
  <2>2. ASSUME NEW h \in P, t \in h \/ ~({<<"exists", q>>, <<"adapter", 0>>} \subseteq h)
        PROVE  h \in Q
    BY <2>2 DEF t
  <2> QED BY <1>2, <2>1, <2>2 DEF Tries
<1>5. s.token \notin {Cookies, Listed}
  BY <1>1, <1>2
<1>6. P \subseteq Safe(m, d)
  OBVIOUS
<1> QED BY <1>2, <1>3, <1>4, <1>5, <1>6, TryDoes

(* The poll handler of a queue is enabled, or destroyed because it cannot  *)
(* be.                                                                     *)
LEMMA PollEnabled ==
  ASSUME NEW m, NEW d, NEW k, NEW q \in Nat, NEW P, NEW Q, NEW F,
         "tries" \in k \/ \A h \in P : <<"pollHandler", q>> \notin h,
         P \subseteq Safe(m, d), Q \subseteq Safe(m, d),
         \A h \in P : /\ <<"pollEnabled", q>> \in h \/ <<"pollHandler", q>> \notin h => h \in Q
                      /\ <<"pollHandler", q>> \in h /\ <<"pollEnabled", q>> \notin h =>
                           {h \cup {<<"pollEnabled", q>>}, h \ {<<"pollHandler", q>>}} \subseteq Q
  PROVE  Does(Safe(m, d), k, StoragePollEnable(q), P, Q, F)
<1> DEFINE S == Safe(m, d)
           t == <<"pollEnabled", q>>
           p == <<"pollHandler", q>>
           u == Each("put", At(q, <<"pollHandler">>))
           s == [Step("try", t) EXCEPT !.if = {p}, !.undo = u]
<1>1. t \in Tokens \ {Cookies, Listed} /\ p \in Tokens \ {QueueList} /\ At(q, <<"pollHandler">>) = <<p>>
  BY QueueNamesAre DEF QueueNames, At
<1>2. u \in Seq(Undos)
  <2>1. <<p>> \in Seq(Tokens)
    BY <1>1
  <2> HIDE DEF p
  <2> QED BY <1>1, <2>1, PutsTyped
<1> HIDE DEF u
<1>3. /\ s \in StepRec /\ s.do = "try" /\ s.token = t /\ s.undo = u /\ s.if = {p}
  <2>1. s = [do |-> "try", token |-> t, undo |-> u, if |-> {p}, want |-> 0]
    <3> DEFINE i == {p}
    <3> HIDE DEF i, t
    <3>2. [Step("try", t) EXCEPT !.if = i, !.undo = u] = [do |-> "try", token |-> t, undo |-> u, if |-> i, want |-> 0]
      <4>1. [Step("try", t) EXCEPT !.if = i] =
              [do |-> "try", token |-> t, undo |-> <<>>, if |-> i, want |-> 0]
        BY DEF Step
      <4>2. [Step("try", t) EXCEPT !.if = i, !.undo = u] =
              [[Step("try", t) EXCEPT !.if = i] EXCEPT !.undo = u]
        OBVIOUS
      <4>3. ASSUME NEW e
            PROVE  [[do |-> "try", token |-> t, undo |-> e, if |-> i, want |-> 0] EXCEPT !.undo = u] =
                     [do |-> "try", token |-> t, undo |-> u, if |-> i, want |-> 0]
        OBVIOUS
      <4> QED BY <4>1, <4>2, <4>3
    <3> QED BY <3>2 DEF i
  <2>2. "try" \in Dos /\ 0 \in Int /\ {p} \in SUBSET Tokens
    BY <1>1 DEF Dos
  <2> QED BY <1>1, <1>2, <2>1, <2>2 DEF StepRec
<1>4. StoragePollEnable(q) = <<s>>
  BY DEF StoragePollEnable, u
<1> HIDE DEF s, t, p
<1>5. ASSUME NEW h \in P, t \notin h, p \in h
      PROVE  h \cup {t} \in Q /\ Unwinds(S, u, h, Q)
  <2>1. h \ {p} \in S /\ h \in S /\ h \ {p} \in Q /\ h \cup {t} \in Q
    BY <1>5 DEF t, p
  <2>2. Unwinds(S, u, h, {h \ {p}})
    BY <1>1, <1>5, <2>1, DropOne DEF u
  <2> DEFINE G == {h \ {p}}
  <2>3. G \subseteq Q
    BY <2>1
  <2> HIDE DEF G
  <2>4. Unwinds(S, u, h, G)
    BY <2>2 DEF G
  <2>5. Unwinds(S, u, h, Q)
    BY <2>3, <2>4, UnwindsMore
  <2> QED BY <2>1, <2>5
<1>6. Tries(S, s, P, Q)
  <2>1. \A h \in P : t \in h \/ p \notin h => h \in Q
    BY DEF t, p
  <2> QED BY <1>3, <1>5, <2>1 DEF Tries
<1>7. s.token \notin {Cookies, Listed}
  BY <1>1, <1>3
<1>8. "tries" \in k \/ Skips(s, P)
  BY <1>3 DEF p, Skips
<1> QED BY <1>3, <1>4, <1>6, <1>7, <1>8, TryDoes

(* What a start of a queue leads to from h: the rest is as it was.          *)
Serves(m, d, q, x, h) ==
  {g \in Safe(m, d) :
     /\ g \ OfQueue(q) = h \ OfQueue(q)
     /\ Named(q, WholeNames(x) \cup {"active"}) \subseteq g
     /\ (<<"vector", q>> \in g <=> x) /\ (<<"isIntrEnabled", q>> \in g <=> x)
     /\ <<"counted", q>> \in g <=> <<"counted", q>> \in h
     /\ <<"pollHandler", q>> \in g => <<"pollHandler", q>> \in h}

(* What the switches of a whole queue refer to is held.                    *)
LEMMA SwitchesMade ==
  ASSUME NEW q \in Nat, NEW x \in BOOLEAN, NEW h, Named(q, WholeNames(x)) \subseteq h
  PROVE  /\ <<"bar", 0>> \in h => MadeFrom(<<"active", q>>) \subseteq h
         /\ <<"pollHandler", q>> \in h => MadeFrom(<<"pollEnabled", q>>) \subseteq h
         /\ x => MadeFrom(<<"isIntrEnabled", q>>) \subseteq h
<1>1. /\ \A n \in BodyNames : <<n, q>> \in h
      /\ <<"exists", q>> \in h /\ (x => <<"vector", q>> \in h)
  BY DEF Named, WholeNames
<1>2. Bodies(q) \subseteq h
  BY <1>1, BodiesAre
<1>3. /\ MadeFrom(<<"isIntrEnabled", q>>) = {<<"vector", q>>} \cup Bodies(q)
      /\ MadeFrom(<<"pollEnabled", q>>) = {<<"pollHandler", q>>} \cup Bodies(q)
      /\ MadeFrom(<<"active", q>>) = {<<"exists", q>>} \cup Bodies(q) \cup Zero({"bar"})
  BY MadeOfQueue
<1> QED BY <1>1, <1>2, <1>3 DEF Zero

(* NVMEPCIEResumeQueue of a queue that has all its parts.                  *)
LEMMA Resumed ==
  ASSUME NEW m, NEW d, NEW h \in Safe(m, d), NEW q \in Nat, NEW x \in BOOLEAN, NEW k,
         "tries" \in k \/ <<"pollHandler", q>> \notin h,
         Named(q, WholeNames(x)) \subseteq h, <<"vector", q>> \in h <=> x,
         h \cap Named(q, SwitchNames) = {}, <<"bar", 0>> \in h, NEW F
  PROVE  Does(Safe(m, d), k, ResumeQueue(q, x), {h}, Serves(m, d, q, x, h), F)
<1> DEFINE S == Safe(m, d)
           a == <<"active", q>>
           e == <<"pollEnabled", q>>
           p == <<"pollHandler", q>>
           i == <<"isIntrEnabled", q>>
           h1 == h \cup {a}
           P2 == {g \in Safe(m, d) :
                    /\ g \ OfQueue(q) = h \ OfQueue(q)
                    /\ Named(q, WholeNames(x) \cup {"active"}) \subseteq g
                    /\ (<<"vector", q>> \in g <=> x) /\ <<"isIntrEnabled", q>> \notin g
                    /\ <<"counted", q>> \in g <=> <<"counted", q>> \in h
                    /\ <<"pollHandler", q>> \in g => <<"pollHandler", q>> \in h}
<1>1. /\ {a, e, p, i} \subseteq Tokens \ {Cookies, Listed, QueueList}
      /\ {a, e, p, i} \subseteq OfQueue(q)
      /\ a \notin h /\ e \notin h /\ i \notin h
  <2>1. {"active", "pollEnabled", "pollHandler", "isIntrEnabled"} \subseteq QueueNames
    BY DEF QueueNames
  <2>2. {a, e, p, i} \subseteq Tokens \ {Cookies, Listed, QueueList}
    BY <2>1, QueueNamesAre
  <2>3. {a, e, p, i} \subseteq OfQueue(q)
    BY <2>1 DEF OfQueue
  <2>4. a \notin h /\ e \notin h /\ i \notin h
    BY DEF Named, SwitchNames
  <2> QED BY <2>2, <2>3, <2>4
<1>2. h1 \in S /\ Named(q, WholeNames(x)) \subseteq h1
  <2>1. MadeFrom(a) \subseteq h
    BY SwitchesMade
  <2> QED BY <2>1, <1>1, SafeAdd
<1>3. h1 \in P2
  <2>1. h1 \ OfQueue(q) = h \ OfQueue(q)
    BY <1>1
  <2>2. Named(q, WholeNames(x) \cup {"active"}) \subseteq h1
    BY DEF Named
  <2> QED BY <1>1, <1>2, <2>1, <2>2
<1>4. ASSUME p \in h1 PROVE h1 \cup {e} \in P2 /\ h1 \ {p} \in P2
  <2>1. h1 \cup {e} \in S
    <3>1. MadeFrom(e) \subseteq h1
      BY <1>2, <1>4, SwitchesMade
    <3> QED BY <3>1, <1>1, <1>2, SafeAdd
  <2>2. h1 \ {p} \in S
    <3>1. \A t \in h1 : p \in MadeFrom(t) => t = e
      <4>1. "pollHandler" \in QueueNames
        BY DEF QueueNames
      <4>2. Users("pollHandler") = {"pollEnabled"}
        BY DEF Users, SwitchNames
      <4>3. h1 \subseteq Tokens
        BY <1>2 DEF Safe
      <4> HIDE DEF h1
      <4> QED BY <4>1, <4>2, <4>3, UsersAre
    <3>2. \A t \in h1 \ {p} : MadeFrom(t) \cap {p} = {}
      BY <3>1, <1>1
    <3> QED BY <3>2, <1>1, <1>2, SafeMinus
  <2>3. (h1 \cup {e}) \ OfQueue(q) = h \ OfQueue(q) /\ (h1 \ {p}) \ OfQueue(q) = h \ OfQueue(q)
    BY <1>1
  <2>4. p \notin Named(q, WholeNames(x) \cup {"active"})
    BY DEF Named, WholeNames, BodyNames
  <2> HIDE DEF S
  <2> QED BY <2>1, <2>2, <2>3, <2>4, <1>1, <1>3 DEF S
<1>5. Does(S, k, Each("add", At(q, <<"active">>)), {h}, {h1}, F)
  <2>1. At(q, <<"active">>) = <<a>>
    BY DEF At
  <2>2. Does(S, k, Each("add", <<a>>), {h}, {h1}, {})
    BY <1>1, <1>2, AddOne
  <2>3. {} \subseteq F OBVIOUS
  <2> HIDE DEF h1, S, a
  <2>4. Does(S, k, Each("add", <<a>>), {h}, {h1}, F)
    BY <2>2, <2>3, DoesMore
  <2> QED BY <2>1, <2>4
<1>6. Does(S, k, StoragePollEnable(q), {h1}, P2, F)
  <2>1. {h1} \subseteq S /\ P2 \subseteq S
    BY <1>2
  <2>2. \A g \in {h1} :
          /\ <<"pollEnabled", q>> \in g \/ <<"pollHandler", q>> \notin g => g \in P2
          /\ <<"pollHandler", q>> \in g /\ <<"pollEnabled", q>> \notin g =>
               {g \cup {<<"pollEnabled", q>>}, g \ {<<"pollHandler", q>>}} \subseteq P2
    BY <1>3, <1>4
  <2>3. "tries" \in k \/ \A g \in {h1} : <<"pollHandler", q>> \notin g
    OBVIOUS
  <2> HIDE DEF P2, h1
  <2> QED BY <2>1, <2>2, <2>3, PollEnabled
<1>7. Does(S, k, IF x THEN Each("add", At(q, <<"isIntrEnabled">>)) ELSE <<>>,
           P2, Serves(m, d, q, x, h), F)
  <2>1. CASE x
    <3>1. ASSUME NEW g \in P2
          PROVE  Does(S, k, Each("add", <<i>>), {g}, Serves(m, d, q, x, h), F)
      <4>1. Named(q, WholeNames(x)) \subseteq g
        BY DEF Named
      <4>2. g \cup {i} \in S
        <5>1. MadeFrom(i) \subseteq g
          BY <2>1, <4>1, SwitchesMade
        <5> QED BY <5>1, <1>1, SafeAdd
      <4>3. (g \cup {i}) \ OfQueue(q) = h \ OfQueue(q)
        BY <1>1
      <4>4. g \cup {i} \in Serves(m, d, q, x, h)
        BY <2>1, <4>2, <4>3 DEF Serves
      <4>5. Does(S, k, Each("add", <<i>>), {g}, {g \cup {i}}, {})
        BY <1>1, <4>2, AddOne
      <4>6. {} \subseteq F /\ {g \cup {i}} \subseteq Serves(m, d, q, x, h)
        BY <4>4
      <4> DEFINE G == {g \cup {i}}
      <4> HIDE DEF G, S, i
      <4>7. Does(S, k, Each("add", <<i>>), {g}, G, {}) /\ G \subseteq Serves(m, d, q, x, h)
        BY <4>5, <4>6 DEF G
      <4> QED BY <4>6, <4>7, DoesMore
    <3>2. At(q, <<"isIntrEnabled">>) = <<i>>
      BY DEF At
    <3> HIDE DEF S, P2, i
    <3>3. P2 # {}
      BY <1>3
    <3>4. Does(S, k, Each("add", <<i>>), P2, Serves(m, d, q, x, h), F)
      BY <3>1, <3>3, DoesEach
    <3> QED BY <2>1, <3>2, <3>4
  <2>2. CASE ~x
    <3>1. P2 \subseteq Serves(m, d, q, x, h) /\ P2 \subseteq S
      BY <2>2 DEF Serves
    <3> HIDE DEF P2, S
    <3>2. Does(S, k, <<>>, P2, P2, F)
      BY <3>1, DoesNothing
    <3>3. Does(S, k, <<>>, P2, Serves(m, d, q, x, h), F)
      BY <3>1, <3>2, DoesMore
    <3> QED BY <2>2, <3>3
  <2> QED BY <2>1, <2>2
<1> DEFINE A == Each("add", At(q, <<"active">>))
           B == StoragePollEnable(q)
           C == IF x THEN Each("add", At(q, <<"isIntrEnabled">>)) ELSE <<>>
<1>8. ResumeQueue(q, x) = (A \o B) \o C
  BY DEF ResumeQueue
<1>9. /\ Does(S, k, A, {h}, {h1}, F) /\ Does(S, k, B, {h1}, P2, F)
      /\ Does(S, k, C, P2, Serves(m, d, q, x, h), F)
  BY <1>5, <1>6, <1>7
<1> HIDE DEF A, B, C, S, h1, P2
<1>10. Does(S, k, A \o B, {h}, P2, F)
  BY <1>9, DoesBoth
<1>11. Does(S, k, (A \o B) \o C, {h}, Serves(m, d, q, x, h), F)
  BY <1>9, <1>10, DoesBoth
<1> QED BY <1>8, <1>11 DEF S

(* What NVMEPCIEQueueCreate leads to from b. *)
Made(m, d, q, x, b) ==
  {g \in Safe(m, d) :
     /\ g \ OfQueue(q) = b
     /\ Named(q, WholeNames(x) \cup {"active"}) \subseteq g
     /\ (<<"vector", q>> \in g <=> x) /\ (<<"isIntrEnabled", q>> \in g <=> x)
     /\ <<"counted", q>> \in g <=> q > 0
     /\ q = 0 => <<"pollHandler", q>> \notin g}

(* AddOne, from several states.                                            *)
LEMMA AddEach ==
  ASSUME NEW S, NEW k, NEW t \in Tokens \ {Cookies}, t = Listed => "lists" \in k,
         NEW P, NEW Q, NEW F, P \subseteq S, Q \subseteq S, \A h \in P : h \cup {t} \in Q
  PROVE  Does(S, k, Each("add", <<t>>), P, Q, F)
<1> DEFINE s == Step("add", t)
<1>1. s \in StepRec /\ s.do = "add" /\ s.token = t /\ s.undo = <<>> /\ Each("add", <<t>>) = <<s>>
  <2>1. "add" \in Dos BY DEF Dos
  <2> QED BY <2>1, TokenStep
<1> HIDE DEF s
<1>2. Kind(k, s)
  BY <1>1 DEF Kind
<1>3. \A h \in P : StepOK(S, k, s, h, Q, F)
  BY <1>1 DEF StepOK
<1> QED BY <1>1, <1>2, <1>3, DoesStep

(* The names of a queue, with and without those that a destruction         *)
(* removes.                                                                *)
LEMMA QueueNamesOf ==
  ASSUME NEW q \in Nat, NEW h
  PROVE  /\ h \ OfQueue(q) = h \ Named(q, GoneNames \cup {"counted"})
         /\ GoneNames \cup {"counted"} = QueueNames
         /\ \A N : N \subseteq QueueNames => Named(q, N) \subseteq OfQueue(q)
         /\ \A x \in BOOLEAN : WholeNames(x) \subseteq GoneNames
<1>1. GoneNames \cup {"counted"} = QueueNames
  BY DEF GoneNames, SwitchNames, QueueNames
<1>2. OfQueue(q) = Named(q, QueueNames)
  BY DEF OfQueue, Named
<1>3. \A x \in BOOLEAN : WholeNames(x) \subseteq GoneNames
  BY DEF WholeNames, GoneNames
<1> QED BY <1>1, <1>2, <1>3 DEF Named

(* NVMEPCIEQueueCreate: a queue that serves, or none of its parts.         *)
LEMMA QueueCreated ==
  ASSUME NEW m, NEW d, NEW q, NEW x, NEW b, Ready(m, d, q, x, b), NEW k, "tries" \notin k,
         <<"bar", 0>> \in b, NEW l, k \subseteq l, "tries" \in l \/ q = 0
  PROVE  Does(Safe(m, d), l, QueueCreate(q, x, x), {b}, Made(m, d, q, x, b),
              {b, With(b, q, {"exists"})})
<1> DEFINE S == Safe(m, d)
           W == With(b, q, WholeNames(x))
           p == <<"pollHandler", q>>
           W2 == W \cup {p}
           F == {b, With(b, q, {"exists"})}
           asks == AskOnce \o AskOnce
           destroy == QueueDestroy(q, x)
           M == Made(m, d, q, x, b)
           P == IF q > 0 /\ <<"adapter", 0>> \in b THEN {W, W2} ELSE {W}
           Sv == UNION {Serves(m, d, q, x, h) : h \in P}
           A == Construct(q, x)
           B == IF q > 0 THEN StoragePollCreate(q) ELSE <<>>
           C == IF q > 0 THEN Within(asks, destroy) ELSE <<>>
           D == ResumeQueue(q, x)
           E == IF q > 0 THEN Each("add", At(q, <<"counted">>)) ELSE <<>>
<1>0. /\ b \in S /\ q \in Nat /\ x \in BOOLEAN /\ b \cap OfQueue(q) = {}
      /\ \A n \in QueueNames : <<n, q>> \in OfQueue(q) /\ <<n, q>> \notin b
      /\ ("tries" \in l \/ q = 0) /\ k \subseteq l
  BY DEF Ready, OfQueue
<1>1. /\ Does(S, k, A, {b}, {W}, F) /\ W \in S
  BY Constructed
<1>2. WholeNames(x) \subseteq QueueNames
  BY DEF WholeNames, QueueNames
<1>3. ASSUME NEW h \in {W, W2}
      PROVE  /\ h \ OfQueue(q) = b /\ Named(q, WholeNames(x)) \subseteq h
             /\ <<"vector", q>> \in h <=> x
             /\ h \cap Named(q, SwitchNames) = {} /\ <<"counted", q>> \notin h
             /\ <<"bar", 0>> \in h
             /\ <<"exists", q>> \in h
             /\ \A n \in QueueNames : <<n, q>> \in h => n \in WholeNames(x) \cup {"pollHandler"}
  <2>1. \A n \in QueueNames : <<n, q>> \in h => n \in WholeNames(x) \cup {"pollHandler"}
    BY <1>0 DEF With, Named
  <2>2. /\ SwitchNames \subseteq QueueNames /\ "counted" \in QueueNames /\ "vector" \in QueueNames
        /\ \A n \in SwitchNames \cup {"counted"} : n \notin WholeNames(x) \cup {"pollHandler"}
        /\ "vector" \in WholeNames(x) \cup {"pollHandler"} <=> x
        /\ "exists" \in WholeNames(x) /\ "pollHandler" \in QueueNames
    BY DEF SwitchNames, QueueNames, WholeNames, BodyNames
  <2>3. Named(q, WholeNames(x)) \subseteq h
    BY DEF With
  <2>4. \A n \in WholeNames(x) : <<n, q>> \in h
    BY <2>3 DEF Named
  <2>5. h \cap Named(q, SwitchNames) = {}
    BY <2>1, <2>2 DEF Named
  <2>6. <<"vector", q>> \in h <=> x
    <3>1. x => "vector" \in WholeNames(x)
      BY DEF WholeNames
    <3> QED BY <2>1, <2>2, <2>4, <3>1
  <2>7. h \ OfQueue(q) = b
    <3>1. Named(q, WholeNames(x)) \subseteq OfQueue(q) /\ p \in OfQueue(q)
      BY <1>2, <2>2, <1>0, QueueNamesOf
    <3> QED BY <3>1, <1>0 DEF With
  <2> HIDE DEF W, W2
  <2>8. b \subseteq h
    BY <2>7
  <2> QED BY <2>1, <2>2, <2>3, <2>4, <2>5, <2>6, <2>7, <2>8
<1>4. <<"adapter", 0>> \in b => W2 \in S
  <2>1. \A n \in {"cqInfo", "sqInfo", "cmdList"} : <<n, q>> \in W
    BY DEF With, Named, WholeNames, BodyNames
  <2>2. MadeFrom(p) = {<<n, q>> : n \in {"cqInfo", "sqInfo", "cmdList"}} \cup Zero({"adapter"})
    BY MadeOfQueue
  <2>3. p \in Tokens /\ p # Listed
    BY <1>0, QueueNamesAre DEF QueueNames
  <2>4. <<"adapter", 0>> \in b => MadeFrom(p) \subseteq W
    BY <2>1, <2>2 DEF Zero, With
  <2> QED BY <1>1, <2>3, <2>4, SafeAdd
<1>5. P \subseteq S /\ W \in P /\ P \subseteq {W, W2}
  BY <1>1, <1>4
<1>6. Does(S, l, B, {W}, P, F)
  <2>1. CASE q > 0
    <3>1. \A h \in {W} : <<"exists", q>> \in h /\ <<"adapter", 0>> \in h =>
                           h \cup {<<"pollHandler", q>>} \in P
      <4>1. <<"adapter", 0>> \in W => <<"adapter", 0>> \in b
        BY DEF With, Named, WholeNames, BodyNames
      <4> QED BY <2>1, <4>1
    <3>2. {W} \subseteq P /\ P \subseteq S
      BY <1>5
    <3>3. q \in Nat /\ "tries" \in l
      BY <1>0, <2>1
    <3> DEFINE H == {W}
    <3>4. H \subseteq P /\ \A h \in H : <<"exists", q>> \in h /\ <<"adapter", 0>> \in h =>
                                              h \cup {<<"pollHandler", q>>} \in P
      BY <3>1, <3>2
    <3> HIDE DEF W, P, H, S
    <3>5. Does(Safe(m, d), l, StoragePollCreate(q), H, P, F)
      BY <3>2, <3>3, <3>4, PollCreated DEF S
    <3> QED BY <2>1, <3>5 DEF H, S
  <2>2. CASE ~(q > 0)
    <3>1. {W} \subseteq S /\ P = {W}
      BY <1>1, <2>2
    <3> HIDE DEF W, P
    <3> QED BY <2>2, <3>1, DoesNothing
  <2> QED BY <2>1, <2>2
<1>7. Does(S, l, C, P, P, F)
  <2>1. CASE q > 0
    <3>1. ASSUME NEW h \in P PROVE Does(S, k, Within(asks, destroy), {h}, {h}, F)
      <4>1. Unwinds(S, destroy, h, F)
        <5>1. h \ Named(q, SwitchNames) = h
          BY <1>3, <1>5
        <5>2. h \ Named(q, SwitchNames) \in S
          BY <1>5, <5>1
        <5>3. Named(q, BodyNames \cup {"exists"}) \subseteq h
          <6>1. Named(q, WholeNames(x)) \subseteq h
            BY <1>3, <1>5
          <6>2. BodyNames \cup {"exists"} \subseteq WholeNames(x)
            BY DEF WholeNames
          <6> HIDE DEF P
          <6> QED BY <6>1, <6>2 DEF Named
        <5>4. x <=> <<"vector", q>> \in h
          BY <1>3, <1>5
        <5>5. Unwinds(S, destroy, h \ Named(q, SwitchNames), {h \ Named(q, GoneNames)})
          <6> HIDE DEF P, F, W, W2
          <6> QED BY <1>0, <5>2, <5>3, <5>4, Destroyed
        <5>6. h \ Named(q, GoneNames) = b
          <6>1. h \ OfQueue(q) = b /\ <<"counted", q>> \notin h
            BY <1>3, <1>5
          <6>2. h \ OfQueue(q) = h \ Named(q, GoneNames \cup {"counted"})
            BY <1>0, QueueNamesOf
          <6> QED BY <6>1, <6>2 DEF Named
        <5>7. Unwinds(S, destroy, h, {b})
          BY <5>1, <5>5, <5>6
        <5>8. {b} \subseteq F
          OBVIOUS
        <5> HIDE DEF F, destroy
        <5> QED BY <5>7, <5>8, UnwindsMore
      <4>2. h \in S
        BY <1>5
      <4>3. Does(S, k, AskOnce, {h}, {h}, {h})
        BY <4>2, AskDoes DEF AskOnce
      <4>4. Does(S, k, asks, {h}, {h}, {h})
        BY <4>3, DoesBoth
      <4>5. destroy \in Seq(Undos)
        BY <4>1 DEF Unwinds
      <4> HIDE DEF asks, destroy, F, P
      <4> QED BY <4>1, <4>4, <4>5, DoesWithin
    <3> DEFINE w == Within(asks, destroy)
    <3>2. \A h \in P : Does(S, k, w, {h}, {h}, F)
      BY <3>1
    <3> HIDE DEF P, F, w
    <3>3. ASSUME NEW h \in P PROVE Does(S, l, w, {h}, P, F)
      <4> DEFINE H == {h}
      <4>1. H \subseteq P /\ H \subseteq H /\ F \subseteq F /\ Does(S, k, w, H, H, F)
        BY <3>2
      <4> HIDE DEF H
      <4>2. Does(S, l, w, H, P, F)
        BY <1>0, <4>1, DoesMore
      <4> QED BY <4>2 DEF H
    <3>4. P # {}
      BY <1>5
    <3>5. Does(S, l, w, P, P, F)
      BY <3>3, <3>4, DoesEach
    <3> QED BY <2>1, <3>5 DEF w
  <2>2. CASE ~(q > 0)
    <3> HIDE DEF P
    <3> QED BY <2>2, <1>5, DoesNothing
  <2> QED BY <2>1, <2>2
<1>8. Does(S, l, D, P, Sv, F)
  <2>1. ASSUME NEW h \in P PROVE Does(S, l, D, {h}, Sv, F)
    <3>1. h \in S
      BY <1>5
    <3>2. /\ Named(q, WholeNames(x)) \subseteq h /\ (<<"vector", q>> \in h <=> x)
          /\ h \cap Named(q, SwitchNames) = {} /\ <<"bar", 0>> \in h
      BY <1>3, <1>5
    <3>a. "tries" \in l \/ p \notin h
      <4>1. "pollHandler" \notin WholeNames(x) /\ "pollHandler" \in QueueNames
        BY DEF WholeNames, BodyNames, QueueNames
      <4>2. p \notin W
        BY <1>0, <4>1 DEF With, Named
      <4> QED BY <4>2, <1>0
    <3> HIDE DEF P, S, F, W, W2
    <3>3. Does(S, l, D, {h}, Serves(m, d, q, x, h), F)
      BY <1>0, <3>1, <3>2, <3>a, Resumed DEF S
    <3>4. Serves(m, d, q, x, h) \subseteq Sv
      OBVIOUS
    <3> HIDE DEF Sv, D
    <3>5. {h} \subseteq {h} /\ l \subseteq l /\ F \subseteq F
      OBVIOUS
    <3> QED BY <3>3, <3>4, <3>5, DoesMore
  <2>2. P # {}
    BY <1>5
  <2> HIDE DEF P, S, F, D, Sv
  <2> QED BY <2>1, <2>2, DoesEach
<1>9. ASSUME NEW g \in Sv
      PROVE  /\ g \in S /\ g \ OfQueue(q) = b
             /\ Named(q, WholeNames(x) \cup {"active"}) \subseteq g
             /\ <<"vector", q>> \in g <=> x
             /\ <<"isIntrEnabled", q>> \in g <=> x
             /\ <<"counted", q>> \notin g
             /\ q = 0 => p \notin g
  <2>1. PICK h \in P : g \in Serves(m, d, q, x, h)
    OBVIOUS
  <2>2. h \ OfQueue(q) = b /\ <<"counted", q>> \notin h
    BY <1>3, <1>5
  <2>3. q = 0 => p \notin h
    <3>1. "pollHandler" \notin WholeNames(x)
      BY DEF WholeNames, BodyNames
    <3>2. p \notin W
      BY <1>0, <3>1 DEF With, Named, QueueNames
    <3>3. q = 0 => h = W
      OBVIOUS
    <3> QED BY <3>2, <3>3
  <2> HIDE DEF P, W, W2, p
  <2> QED BY <2>1, <2>2, <2>3 DEF Serves, p
<1>10. Does(S, l, E, Sv, M, F)
  <2>1. CASE q > 0
    <3> DEFINE t == <<"counted", q>>
    <3>1. t \in Tokens \ {Cookies, Listed} /\ t \in OfQueue(q) /\ At(q, <<"counted">>) = <<t>>
      BY <1>0, QueueNamesAre DEF QueueNames, At
    <3>2. ASSUME NEW g \in Sv PROVE g \cup {t} \in M
      <4>1. MadeFrom(t) = {}
        BY MadeOfQueue
      <4>2. g \cup {t} \in S
        BY <1>9, <3>1, <4>1, SafeAdd
      <4>3. (g \cup {t}) \ OfQueue(q) = b
        BY <1>9, <3>1
      <4> HIDE DEF Sv
      <4> QED BY <2>1, <1>9, <4>2, <4>3 DEF Made
    <3>3. Sv \subseteq S /\ M \subseteq S
      BY <1>9 DEF Made
    <3> HIDE DEF Sv, M, S, F, t
    <3>4. Does(S, l, Each("add", <<t>>), Sv, M, F)
      BY <3>1, <3>2, <3>3, AddEach
    <3> QED BY <2>1, <3>1, <3>4
  <2>2. CASE ~(q > 0)
    <3>1. q = 0
      BY <2>2, <1>0
    <3>2. Sv \subseteq M /\ Sv \subseteq S
      <4> HIDE DEF Sv
      <4> QED BY <2>2, <3>1, <1>9 DEF Made
    <3> HIDE DEF Sv, M, S, F
    <3>3. Does(S, l, <<>>, Sv, Sv, F)
      BY <3>2, DoesNothing
    <3>4. Does(S, l, <<>>, Sv, M, F)
      BY <3>2, <3>3, DoesMore
    <3> QED BY <2>2, <3>4
  <2> QED BY <2>1, <2>2
<1>11. Does(S, l, A, {b}, {W}, F)
  <2> HIDE DEF A, S, W, F
  <2> QED BY <1>0, <1>1, DoesMore
<1>12. QueueCreate(q, x, x) = (((A \o B) \o C) \o D) \o E
  <2>1. QueueConstruct(q, x, x) = A \o B
    BY DEF QueueConstruct, Construct
  <2> QED BY <2>1 DEF QueueCreate
<1> HIDE DEF A, B, C, D, E, S, F, W, P, Sv, M
<1>13. Does(S, l, A \o B, {b}, P, F)
  BY <1>6, <1>11, DoesBoth
<1>14. Does(S, l, (A \o B) \o C, {b}, P, F)
  BY <1>7, <1>13, DoesBoth
<1>15. Does(S, l, ((A \o B) \o C) \o D, {b}, Sv, F)
  BY <1>8, <1>14, DoesBoth
<1>16. Does(S, l, (((A \o B) \o C) \o D) \o E, {b}, M, F)
  BY <1>10, <1>15, DoesBoth
<1> QED BY <1>12, <1>16 DEF S, M, F

-----------------------------------------------------------------------------
(* The stages between two calls.                                           *)

(* A queue is suspended and destroyed, with whatever poll handler and      *)
(* switches it has.                                                        *)
LEMMA QueueStopped ==
  ASSUME NEW m, NEW d, NEW h \in Safe(m, d), NEW q \in Nat, NEW x \in BOOLEAN,
         Named(q, BodyNames \cup {"exists"}) \subseteq h, x <=> <<"vector", q>> \in h
  PROVE  /\ Unwinds(Safe(m, d), SuspendQueue(q) \o QueueDestroy(q, x), h, {h \ Named(q, GoneNames)})
         /\ Unwinds(Safe(m, d), QueueStopAndDestroy(q, x), h, {h \ OfQueue(q)})
<1> DEFINE S == Safe(m, d)
           c == <<"counted", q>>
           g == h \ Named(q, GoneNames)
           h1 == h \ Named(q, SwitchNames)
           dr == Each("drop", At(q, <<"counted">>))
<1>1. Unwinds(S, SuspendQueue(q), h, {h1})
  BY Suspended
<1>2. h1 \in S
  BY <1>1, UnwindsEnd
<1>3. Unwinds(S, QueueDestroy(q, x), h1, {g})
  BY <1>2, Destroyed
<1> HIDE DEF S, g, h1
<1>4. Unwinds(S, SuspendQueue(q) \o QueueDestroy(q, x), h, {g})
  BY <1>1, <1>3, UnwindsTwo
<1>5. g \in S
  BY <1>4, UnwindsEnd
<1>6. /\ "counted" \in QueueNames /\ c \in Tokens \ {Cookies, Listed, QueueList}
      /\ At(q, <<"counted">>) = <<c>>
  BY QueueNamesAre DEF QueueNames, At
<1>7. g \ {c} \in S
  <2>1. \A t \in g : c \notin MadeFrom(t)
    <3>1. Users("counted") = {}
      BY DEF Users
    <3>2. g \subseteq Tokens
      BY <1>5 DEF S, Safe
    <3> QED BY <1>6, <3>1, <3>2, UsersAre
  <2>2. \A t \in g \ {c} : MadeFrom(t) \cap {c} = {}
    BY <2>1
  <2> QED BY <1>5, <1>6, <2>2, SafeMinus DEF S
<1>8. g \ {c} = h \ OfQueue(q)
  BY QueueNamesOf DEF g, Named
<1>9. Unwinds(S, dr, g, {h \ OfQueue(q)})
  <2>1. "drop" \in {"put", "drop"} /\ "drop" # "put"
    OBVIOUS
  <2> HIDE DEF c
  <2>2. Unwinds(S, Each("drop", <<c>>), g, {g \ {c}})
    BY <1>5, <1>6, <1>7, <2>1, DropOne
  <2> QED BY <2>2, <1>6, <1>8
<1>10. Unwinds(S, (SuspendQueue(q) \o QueueDestroy(q, x)) \o dr, h, {h \ OfQueue(q)})
  BY <1>4, <1>9, UnwindsTwo
<1> QED BY <1>4, <1>10 DEF QueueStopAndDestroy, S, g

(* The resources of the levels.                                            *)
ModuleNames == {"heap", "log", "memPool", "lock", "driver", "mgmt"}
DeviceNames == {"ctrlr", "bar", "dmaEngine", "sgHandle", "lockDomain", "queueList", "listed"}
AdapterNames == {"IODmaEngine", "adapter", "device"}
CtrlNames == {"controller", "registered"}
ExtraNames == {"timerQueue", "timer", "kvMgmt"}
CommonNames == ModuleNames \cup DeviceNames \cup AdapterNames \cup CtrlNames \cup ExtraNames
               \cup {"cookies", "intrArray", "msiHandler"}

(* The three stages the driver is in between two calls: no module, no      *)
(* device, a device with its queues.                                       *)
Unloaded(m, h) == h \subseteq Left(m)
Detached(m, h) == Zero(ModuleNames) \subseteq h /\ h \subseteq Zero(ModuleNames) \cup Left(m)
AdminQueueOk(m, h) ==
  /\ Named(0, BodyNames \cup {"exists"}) \subseteq h
  /\ h \cap Named(0, {"counted", "pollHandler"}) = {}
  /\ <<"vector", 0>> \in h <=> ~m /\ Cookies \in h
  /\ Cookies \in h \/ ~m
  /\ ~m /\ Cookies \in h => (<<"active", 0>> \in h <=> <<"isIntrEnabled", 0>> \in h)
IoQueueOk(m, h, q) ==
  \/ h \cap OfQueue(q) \subseteq {<<"exists", q>>}
  \/ /\ Named(q, BodyNames \cup {"exists", "counted"}) \subseteq h
     /\ <<"vector", q>> \in h <=> ~m
     /\ ~m => (<<"active", q>> \in h <=> <<"isIntrEnabled", q>> \in h)
QuietQueue(h, q) == h \cap OfQueue(q) \subseteq {<<"exists", q>>}
Quiet(h) == \A q \in IoQueues : QuietQueue(h, q)
Stage(h) ==
  \/ h \cap Zero(AdapterNames \cup CtrlNames \cup ExtraNames) = {} /\ Quiet(h)
  \/ /\ Zero(AdapterNames) \subseteq h
     /\ h \cap Zero(CtrlNames \cup ExtraNames) = {} /\ Quiet(h)
  \/ Zero(AdapterNames \cup CtrlNames) \subseteq h
Attached(m, h) ==
  /\ Zero(ModuleNames \cup DeviceNames) \subseteq h
  /\ h \subseteq Zero(CommonNames) \cup UNION {OfQueue(q) : q \in 0..MaxIoQueues}
  /\ ~m => <<"msiHandler", 0>> \notin h
  /\ AdminQueueOk(m, h)
  /\ \A q \in IoQueues : IoQueueOk(m, h, q)
  /\ Stage(h)
Settled(m, d) ==
  {h \in Safe(m, d) :
     /\ Cookies \in h <=> <<"intrArray", 0>> \in h
     /\ Unloaded(m, h) \/ Detached(m, h) \/ Attached(m, h)}
AttachedStates(m, d) == {h \in Settled(m, d) : Attached(m, h)}

(* The names of a queue are no names of the rest.                          *)
LEMMA NamesApart ==
  /\ CommonNames \cap QueueNames = {}
  /\ \A q \in Nat : Zero(CommonNames) \cap OfQueue(q) = {}
  /\ \A p, q \in Nat : p # q => OfQueue(p) \cap OfQueue(q) = {}
  /\ Cookies \in Zero(CommonNames) /\ Listed \in Zero(CommonNames) /\ QueueList \in Zero(CommonNames)
  /\ <<"intrArray", 0>> \in Zero(CommonNames) /\ <<"msiHandler", 0>> \in Zero(CommonNames)
  /\ Zero(CommonNames) \subseteq Tokens
<1>1. CommonNames \cap QueueNames = {}
  BY DEF CommonNames, QueueNames, BodyNames, ModuleNames, DeviceNames, AdapterNames, CtrlNames,
         ExtraNames
<1>2. \A q \in Nat : Zero(CommonNames) \cap OfQueue(q) = {}
  BY <1>1 DEF Zero, OfQueue
<1>3. \A p, q \in Nat : p # q => OfQueue(p) \cap OfQueue(q) = {}
  BY DEF OfQueue
<1>4. /\ Cookies \in Zero(CommonNames) /\ Listed \in Zero(CommonNames)
      /\ QueueList \in Zero(CommonNames)
      /\ <<"intrArray", 0>> \in Zero(CommonNames) /\ <<"msiHandler", 0>> \in Zero(CommonNames)
  BY DEF Zero, Cookies, Listed, QueueList, CommonNames, DeviceNames
<1>5. Zero(CommonNames) \subseteq Tokens
  <2>1. CommonNames \subseteq Names
    BY DEF CommonNames, Names, ModuleNames, DeviceNames, AdapterNames, CtrlNames, ExtraNames
  <2> QED BY <2>1 DEF Zero, Tokens
<1> QED BY <1>1, <1>2, <1>3, <1>4, <1>5

(* Only what belongs to one queue has changed.                             *)
LEMMA SwapQueue ==
  ASSUME NEW m, NEW d, NEW h \in AttachedStates(m, d), NEW g \in Safe(m, d),
         NEW q \in 0..MaxIoQueues, g \ OfQueue(q) = h \ OfQueue(q),
         q = 0 => AdminQueueOk(m, g),
         q > 0 => IoQueueOk(m, g, q) /\ (<<"registered", 0>> \in h \/ QuietQueue(g, q))
  PROVE  g \in AttachedStates(m, d)
<1>0. /\ q \in Nat /\ h \in Safe(m, d) /\ Attached(m, h) /\ (Cookies \in h <=> <<"intrArray", 0>> \in h)
      /\ MaxIoQueues \in Nat /\ IoQueues = 1..MaxIoQueues
  BY MaxIoQueuesAssumption DEF AttachedStates, Settled, IoQueues
<1>1. \A t \in Zero(CommonNames) : t \in g <=> t \in h
  BY <1>0, NamesApart
<1>2. \A N : N \subseteq CommonNames =>
        /\ Zero(N) \subseteq h => Zero(N) \subseteq g
        /\ h \cap Zero(N) = {} => g \cap Zero(N) = {}
  BY <1>1 DEF Zero
<1>3. ASSUME NEW p \in 0..MaxIoQueues, p # q
      PROVE  /\ \A t \in OfQueue(p) : t \in g <=> t \in h
             /\ \A n \in QueueNames : <<n, p>> \in g <=> <<n, p>> \in h
  <2>1. OfQueue(p) \cap OfQueue(q) = {}
    BY <1>0, <1>3, NamesApart
  <2>2. \A n \in QueueNames : <<n, p>> \in OfQueue(p)
    BY DEF OfQueue
  <2> QED BY <2>1, <2>2
<1>4. /\ ModuleNames \cup DeviceNames \subseteq CommonNames
      /\ AdapterNames \cup CtrlNames \cup ExtraNames \subseteq CommonNames
      /\ AdapterNames \subseteq CommonNames /\ CtrlNames \cup ExtraNames \subseteq CommonNames
      /\ AdapterNames \cup CtrlNames \subseteq CommonNames
  BY DEF CommonNames
<1>5. /\ Zero(ModuleNames \cup DeviceNames) \subseteq g /\ (~m => <<"msiHandler", 0>> \notin g)
      /\ Cookies \in g <=> Cookies \in h
      /\ Cookies \in g <=> <<"intrArray", 0>> \in g
  BY <1>0, <1>1, <1>2, <1>4, NamesApart DEF Attached
<1>6. g \subseteq Zero(CommonNames) \cup UNION {OfQueue(p) : p \in 0..MaxIoQueues}
  <2>1. h \subseteq Zero(CommonNames) \cup UNION {OfQueue(p) : p \in 0..MaxIoQueues}
    BY <1>0 DEF Attached
  <2>2. g \subseteq h \cup OfQueue(q)
    OBVIOUS
  <2> QED BY <2>1, <2>2
<1>7. AdminQueueOk(m, g)
  <2>1. CASE q = 0
    BY <2>1
  <2>2. CASE q # 0
    <3>1. \A n \in QueueNames : <<n, 0>> \in g <=> <<n, 0>> \in h
      BY <1>0, <1>3, <2>2
    <3>2. BodyNames \cup {"exists", "counted", "pollHandler", "vector", "active", "isIntrEnabled"}
            \subseteq QueueNames
      BY DEF QueueNames
    <3>3. AdminQueueOk(m, h)
      BY <1>0 DEF Attached
    <3> QED BY <1>5, <3>1, <3>2, <3>3 DEF AdminQueueOk, Named
  <2> QED BY <2>1, <2>2
<1>8. ASSUME NEW p \in IoQueues
      PROVE  /\ IoQueueOk(m, g, p)
             /\ QuietQueue(h, p) /\ p # q => QuietQueue(g, p)
  <2>1. CASE p = q
    BY <2>1, <1>0
  <2>2. CASE p # q
    <3>1. p \in 0..MaxIoQueues
      BY <1>0
    <3>2. /\ \A t \in OfQueue(p) : t \in g <=> t \in h
          /\ \A n \in QueueNames : <<n, p>> \in g <=> <<n, p>> \in h
      BY <3>1, <2>2, <1>3
    <3>3. BodyNames \cup {"exists", "counted", "vector", "active", "isIntrEnabled"} \subseteq QueueNames
      BY DEF QueueNames
    <3>4. QuietQueue(h, p) => QuietQueue(g, p)
      BY <3>2 DEF QuietQueue
    <3>5. IoQueueOk(m, h, p)
      BY <1>0 DEF Attached
    <3>6. CASE QuietQueue(h, p)
      BY <3>4, <3>6 DEF IoQueueOk, QuietQueue
    <3>7. CASE ~QuietQueue(h, p)
      BY <3>2, <3>3, <3>5, <3>7 DEF IoQueueOk, QuietQueue, Named
    <3> QED BY <3>4, <3>6, <3>7
  <2> QED BY <2>1, <2>2
<1>9. Stage(g)
  <2>1. Stage(h)
    BY <1>0 DEF Attached
  <2>2. ASSUME Quiet(h), <<"registered", 0>> \notin h PROVE Quiet(g)
    <3>1. ASSUME NEW p \in IoQueues PROVE QuietQueue(g, p)
      <4>1. CASE p = q
        BY <4>1, <2>2, <1>0
      <4>2. CASE p # q
        BY <4>2, <2>2, <1>8 DEF Quiet
      <4> QED BY <4>1, <4>2
    <3> QED BY <3>1 DEF Quiet
  <2>3. <<"registered", 0>> \in Zero(CtrlNames \cup ExtraNames)
        /\ <<"registered", 0>> \in Zero(AdapterNames \cup CtrlNames \cup ExtraNames)
    BY DEF Zero, CtrlNames
  <2>4. CASE h \cap Zero(AdapterNames \cup CtrlNames \cup ExtraNames) = {} /\ Quiet(h)
    BY <1>2, <1>4, <2>2, <2>3, <2>4 DEF Stage
  <2>5. CASE /\ Zero(AdapterNames) \subseteq h
             /\ h \cap Zero(CtrlNames \cup ExtraNames) = {} /\ Quiet(h)
    BY <1>2, <1>4, <2>2, <2>3, <2>5 DEF Stage
  <2>6. CASE Zero(AdapterNames \cup CtrlNames) \subseteq h
    BY <1>2, <1>4, <2>6 DEF Stage
  <2> QED BY <2>1, <2>4, <2>5, <2>6 DEF Stage
<1>10. Attached(m, g)
  BY <1>5, <1>6, <1>7, <1>8, <1>9 DEF Attached
<1> QED BY <1>5, <1>10 DEF AttachedStates, Settled

-----------------------------------------------------------------------------
(* Calls on a device that is attached.                                     *)

(* The order that LeastNat is about.                                       *)
Less == {ss \in Nat \X Nat : ss[1] < ss[2]}

(* A set of numbers has a least one.                                       *)
LEMMA LeastNat ==
  ASSUME NEW T, T \subseteq Nat, T # {}
  PROVE  \E n \in T : \A i \in T : n <= i
<1>1. IsWellFoundedOn(Less, Nat)
  BY NatLessThanWellFounded DEF OpToRel, Less
<1>2. PICK n \in T : \A i \in T : ~(<<i, n>> \in Less)
  BY <1>1, WFMin
<1>3. \A i \in T : ~(i < n)
  BY <1>2 DEF Less
<1> QED BY <1>3

(* Programs that each stay within P, one after the other: the first of     *)
(* them that does not cannot exist.                                        *)
LEMMA FlattenDoes ==
  ASSUME NEW S, NEW k, NEW P, NEW F, P \subseteq S, NEW X, NEW ps \in Seq(X),
         \A i \in 1..Len(ps) : Does(S, k, ps[i], P, P, F)
  PROVE  Does(S, k, FlattenSeq(ps), P, P, F)
<1> DEFINE n == Len(ps)
           Flat(f, j) == f = [i \in 1..j |-> IF i = 1 THEN ps[i] ELSE f[i - 1] \o ps[i]]
           Bad == {j \in 0..n : ~\E f : Flat(f, j)}
<1>0. n \in Nat
  OBVIOUS
<1>1. ASSUME NEW j \in 0..n, j + 1 \in 0..n, NEW f, Flat(f, j)
      PROVE  \E g : Flat(g, j + 1)
  <2> DEFINE e == IF j + 1 = 1 THEN ps[j + 1] ELSE f[j] \o ps[j + 1]
             g == [i \in 1..(j + 1) |-> IF i = j + 1 THEN e ELSE f[i]]
  <2>1. ASSUME NEW i \in 1..(j + 1)
        PROVE  g[i] = IF i = 1 THEN ps[i] ELSE g[i - 1] \o ps[i]
    <3>1. CASE i = j + 1
      <4>1. i # 1 => g[i - 1] = f[j]
        BY <3>1, <1>0
      <4> QED BY <3>1, <4>1
    <3>2. CASE i # j + 1
      <4>1. i \in 1..j /\ g[i] = f[i]
        BY <3>2, <1>0
      <4>2. i # 1 => g[i - 1] = f[i - 1]
        BY <4>1, <1>0
      <4>3. f[i] = IF i = 1 THEN ps[i] ELSE f[i - 1] \o ps[i]
        BY <1>1, <4>1
      <4> QED BY <4>1, <4>2, <4>3
    <3> QED BY <3>1, <3>2
  <2>2. g = [i \in 1..(j + 1) |-> g[i]]
    OBVIOUS
  <2> HIDE DEF g
  <2>3. g = [i \in 1..(j + 1) |-> IF i = 1 THEN ps[i] ELSE g[i - 1] \o ps[i]]
    BY <2>1, <2>2
  <2> QED BY <2>3
<1>2. Flat(<<>>, 0)
  OBVIOUS
<1>3. Bad = {}
  <2>1. SUFFICES ASSUME Bad # {} PROVE FALSE
    OBVIOUS
  <2>2. Bad \subseteq Nat
    <3> HIDE DEF Flat
    <3> QED BY <1>0
  <2>3. PICK j \in Bad : \A i \in Bad : j <= i
    BY <2>1, <2>2, LeastNat
  <2> HIDE DEF Flat
  <2>4. j # 0
    BY <1>2, <2>3
  <2>5. j - 1 \in 0..n /\ j - 1 \notin Bad /\ (j - 1) + 1 = j
    BY <1>0, <2>3, <2>4
  <2> QED BY <1>1, <2>3, <2>5
<1>4. CASE n = 0
  <2>1. ps = <<>> /\ FlattenSeq(ps) = <<>>
    BY <1>4 DEF FlattenSeq
  <2> QED BY <2>1, DoesNothing
<1>5. CASE n # 0
  <2> DEFINE f == CHOOSE f : Flat(f, n)
  <2>1. FlattenSeq(ps) = f[n]
    BY <1>5 DEF FlattenSeq
  <2>2. Flat(f, n)
    <3>1. n \in 0..n
      BY <1>0
    <3> HIDE DEF Flat
    <3> QED BY <1>3, <3>1
  <2>3. \A i \in 1..n : f[i] = IF i = 1 THEN ps[i] ELSE f[i - 1] \o ps[i]
    <3> HIDE DEF f
    <3> QED BY <2>2
  <2> HIDE DEF f, Flat
  <2> DEFINE Not == {i \in 1..n : ~Does(S, k, f[i], P, P, F)}
  <2>4. Not = {}
    <3>1. SUFFICES ASSUME Not # {} PROVE FALSE
      OBVIOUS
    <3>2. Not \subseteq Nat
      BY <1>0
    <3>3. PICK i \in Not : \A j \in Not : i <= j
      BY <3>1, <3>2, LeastNat
    <3>4. CASE i = 1
      <4>1. f[i] = ps[i] /\ i \in 1..n
        BY <2>3, <3>3, <3>4
      <4> QED BY <3>3, <4>1
    <3>5. CASE i # 1
      <4>1. i - 1 \in 1..n /\ i - 1 \notin Not /\ i \in 1..n
        BY <1>0, <3>3, <3>5
      <4>2. Does(S, k, f[i - 1], P, P, F) /\ Does(S, k, ps[i], P, P, F)
        BY <4>1
      <4>3. f[i] = f[i - 1] \o ps[i]
        BY <2>3, <3>5, <4>1
      <4>4. Does(S, k, f[i], P, P, F)
        BY <4>2, <4>3, DoesBoth
      <4> QED BY <3>3, <4>4
    <3> QED BY <3>4, <3>5
  <2>5. n \in 1..n
    BY <1>0, <1>5
  <2>6. Does(S, k, f[n], P, P, F)
    BY <2>4, <2>5
  <2> QED BY <2>1, <2>6
<1> QED BY <1>4, <1>5

(* What is held of a device that is attached.                              *)
LEMMA AttachedFacts ==
  ASSUME NEW m, NEW d, NEW h \in AttachedStates(m, d)
  PROVE  /\ h \in Safe(m, d) /\ h \subseteq Tokens /\ Attached(m, h)
         /\ Cookies \in h <=> <<"intrArray", 0>> \in h
         /\ Zero(ModuleNames \cup DeviceNames) \subseteq h
         /\ QueueBase \cup {QueueList, <<"bar", 0>>, <<"ctrlr", 0>>, Listed} \subseteq h
         /\ <<"registered", 0>> \in h \/ Quiet(h)
         /\ AttachedStates(m, d) \subseteq Safe(m, d)
         /\ AttachedStates(m, d) \subseteq Settled(m, d)
<1>1. h \in Safe(m, d) /\ Attached(m, h) /\ (Cookies \in h <=> <<"intrArray", 0>> \in h)
  BY DEF AttachedStates, Settled
<1>2. h \subseteq Tokens
  BY <1>1 DEF Safe
<1>3. Zero(ModuleNames \cup DeviceNames) \subseteq h
  BY <1>1 DEF Attached
<1>4. QueueBase \cup {QueueList, <<"bar", 0>>, <<"ctrlr", 0>>, Listed}
        \subseteq Zero(ModuleNames \cup DeviceNames)
  BY DEF QueueBase, Zero, QueueList, Listed, ModuleNames, DeviceNames
<1>5. <<"registered", 0>> \in h \/ Quiet(h)
  <2>1. <<"registered", 0>> \in Zero(AdapterNames \cup CtrlNames)
    BY DEF Zero, CtrlNames
  <2> QED BY <1>1, <2>1 DEF Attached, Stage
<1>6. AttachedStates(m, d) \subseteq Safe(m, d) /\ AttachedStates(m, d) \subseteq Settled(m, d)
  BY DEF AttachedStates, Settled
<1> QED BY <1>1, <1>2, <1>3, <1>4, <1>5, <1>6

(* A suspended queue leaves the device attached.                           *)
LEMMA SuspendStays ==
  ASSUME NEW m, NEW d, NEW h \in AttachedStates(m, d), NEW q \in 0..MaxIoQueues
  PROVE  /\ Unwinds(Safe(m, d), SuspendQueue(q), h, {h \ Named(q, SwitchNames)})
         /\ h \ Named(q, SwitchNames) \in AttachedStates(m, d)
<1> DEFINE g == h \ Named(q, SwitchNames)
<1>0. q \in Nat /\ h \in Safe(m, d) /\ Attached(m, h) /\ MaxIoQueues \in Nat /\ IoQueues = 1..MaxIoQueues
  BY AttachedFacts, MaxIoQueuesAssumption DEF IoQueues
<1>1. Unwinds(Safe(m, d), SuspendQueue(q), h, {g})
  BY <1>0, Suspended
<1> HIDE DEF g
<1>2. g \in Safe(m, d)
  BY <1>1, UnwindsEnd
<1>3. /\ g \ OfQueue(q) = h \ OfQueue(q) /\ g \subseteq h
      /\ \A t \in h : t \in g \/ t \in Named(q, SwitchNames)
  <2>1. SwitchNames \subseteq QueueNames
    BY DEF SwitchNames, QueueNames
  <2>2. Named(q, SwitchNames) \subseteq OfQueue(q)
    BY <2>1 DEF Named, OfQueue
  <2> QED BY <2>2 DEF g
<1>4. \A n : n \notin SwitchNames => (<<n, q>> \in g <=> <<n, q>> \in h)
  BY <1>3 DEF Named
<1>5. <<"active", q>> \notin g /\ <<"isIntrEnabled", q>> \notin g
  BY DEF g, Named, SwitchNames
<1>6. Cookies \in g <=> Cookies \in h
  <2>1. Cookies \notin Named(q, SwitchNames)
    BY DEF Named, SwitchNames, Cookies
  <2> QED BY <1>3, <2>1
<1>7. \A n \in BodyNames \cup {"exists", "counted", "pollHandler", "vector"} : n \notin SwitchNames
  BY DEF SwitchNames, BodyNames
<1>8. ASSUME q = 0 PROVE AdminQueueOk(m, g)
  <2>1. AdminQueueOk(m, h)
    BY <1>0 DEF Attached
  <2> QED BY <2>1, <1>3, <1>4, <1>5, <1>6, <1>7, <1>8 DEF AdminQueueOk, Named
<1>9. ASSUME q > 0 PROVE IoQueueOk(m, g, q) /\ (<<"registered", 0>> \in h \/ QuietQueue(g, q))
  <2>1. q \in IoQueues
    BY <1>0, <1>9
  <2>2. IoQueueOk(m, h, q)
    BY <2>1, <1>0 DEF Attached
  <2>3. IoQueueOk(m, g, q)
    <3>1. CASE QuietQueue(h, q)
      BY <3>1, <1>3 DEF IoQueueOk, QuietQueue
    <3>2. CASE ~QuietQueue(h, q)
      BY <3>2, <2>2, <1>4, <1>5, <1>7 DEF IoQueueOk, QuietQueue, Named
    <3> QED BY <3>1, <3>2
  <2>4. <<"registered", 0>> \in h \/ QuietQueue(h, q)
    BY <2>1, AttachedFacts DEF Quiet
  <2> QED BY <2>3, <2>4, <1>3 DEF QuietQueue
<1>10. g \in AttachedStates(m, d)
  BY <1>2, <1>3, <1>8, <1>9, SwapQueue
<1> QED BY <1>1, <1>10 DEF g

(* QuiesceDevice suspends all queues.                                      *)
LEMMA QuiesceDoes ==
  ASSUME NEW m, NEW d, NEW k, AttachedStates(m, d) # {}
  PROVE  Does(Safe(m, d), k,
              FlattenSeq([i \in 1..MaxIoQueues + 1 |-> SuspendQueue(1 + MaxIoQueues - i)]),
              AttachedStates(m, d), AttachedStates(m, d), AttachedStates(m, d))
<1> DEFINE S == Safe(m, d)
           A == AttachedStates(m, d)
           ps == [i \in 1..MaxIoQueues + 1 |-> SuspendQueue(1 + MaxIoQueues - i)]
           X == {SuspendQueue(q) : q \in 0..MaxIoQueues}
<1>0. MaxIoQueues \in Nat /\ \A i \in 1..MaxIoQueues + 1 : 1 + MaxIoQueues - i \in 0..MaxIoQueues
  BY MaxIoQueuesAssumption
<1>1. ps \in Seq(X) /\ Len(ps) = MaxIoQueues + 1
  BY <1>0
<1>2. A \subseteq S
  BY DEF AttachedStates, Settled
<1>3. ASSUME NEW q \in 0..MaxIoQueues PROVE Does(S, k, SuspendQueue(q), A, A, A)
  <2>1. ASSUME NEW h \in A PROVE Does(S, k, SuspendQueue(q), {h}, A, A)
    <3> DEFINE G == {h \ Named(q, SwitchNames)}
    <3>a. /\ Unwinds(Safe(m, d), SuspendQueue(q), h, {h \ Named(q, SwitchNames)})
          /\ h \ Named(q, SwitchNames) \in AttachedStates(m, d)
      BY SuspendStays
    <3>1. Unwinds(S, SuspendQueue(q), h, G) /\ G \subseteq A
      BY <3>a
    <3> HIDE DEF S, A, G
    <3>2. Unwinds(S, SuspendQueue(q), h, A) /\ SuspendQueue(q) \in Seq(Undos)
      BY <3>1, UnwindsMore DEF Unwinds
    <3> QED BY <3>2, UnwindsDoes
  <2> HIDE DEF S, A
  <2> QED BY <2>1, DoesEach DEF A
<1>4. \A i \in 1..Len(ps) : Does(S, k, ps[i], A, A, A)
  BY <1>0, <1>1, <1>3
<1> HIDE DEF ps, S, A, X
<1>5. Does(S, k, FlattenSeq(ps), A, A, A)
  BY <1>1, <1>2, <1>4, FlattenDoes
<1> QED BY <1>5 DEF S, A, ps

(* The admin queue is started again.                                       *)
LEMMA AdminResumes ==
  ASSUME NEW m, NEW d, NEW g \in AttachedStates(m, d), NEW x \in BOOLEAN, x <=> ~m /\ Cookies \in g,
         g \cap Named(0, SwitchNames) = {}, NEW k, "tries" \in k
  PROVE  Does(Safe(m, d), k, ResumeQueue(0, x), {g}, AttachedStates(m, d), AttachedStates(m, d))
<1> DEFINE S == Safe(m, d)
           A == AttachedStates(m, d)
<1>0. /\ g \in S /\ Attached(m, g) /\ AdminQueueOk(m, g) /\ <<"bar", 0>> \in g
      /\ MaxIoQueues \in Nat
  <2>1. g \in S /\ Attached(m, g) /\ <<"bar", 0>> \in g
    BY AttachedFacts
  <2> QED BY <2>1, MaxIoQueuesAssumption DEF Attached
<1>1. /\ Named(0, WholeNames(x)) \subseteq g
      /\ <<"vector", 0>> \in g <=> x
  BY <1>0 DEF AdminQueueOk, WholeNames, Named
<1>2. Does(S, k, ResumeQueue(0, x), {g}, Serves(m, d, 0, x, g), A)
  BY <1>0, <1>1, Resumed
<1>3. ASSUME NEW f \in Serves(m, d, 0, x, g) PROVE f \in A
  <2>1. /\ f \in S /\ f \ OfQueue(0) = g \ OfQueue(0)
        /\ Named(0, WholeNames(x) \cup {"active"}) \subseteq f
        /\ (<<"vector", 0>> \in f <=> x) /\ (<<"isIntrEnabled", 0>> \in f <=> x)
        /\ <<"counted", 0>> \in f <=> <<"counted", 0>> \in g
        /\ <<"pollHandler", 0>> \in f => <<"pollHandler", 0>> \in g
    BY DEF Serves
  <2>2. Cookies \in f <=> Cookies \in g
    <3>1. Cookies \notin OfQueue(0)
      BY NamesApart
    <3> QED BY <2>1, <3>1
  <2>3. Named(0, BodyNames \cup {"exists"}) \subseteq f /\ <<"active", 0>> \in f
    BY <2>1 DEF Named, WholeNames
  <2>4. f \cap Named(0, {"counted", "pollHandler"}) = {}
    BY <1>0, <2>1 DEF Named, AdminQueueOk
  <2>5. AdminQueueOk(m, f)
    BY <1>0, <2>1, <2>2, <2>3, <2>4 DEF AdminQueueOk
  <2>6. 0 \in 0..MaxIoQueues
    BY <1>0
  <2> QED BY <2>1, <2>5, <2>6, SwapQueue
<1>4. Serves(m, d, 0, x, g) \subseteq A
  BY <1>3
<1> HIDE DEF S, A
<1>5. Does(S, k, ResumeQueue(0, x), {g}, A, A)
  BY <1>2, <1>4, DoesMore
<1> QED BY <1>5 DEF S, A

(* ResetAdminQueue, also of a device that is pulled in the middle.         *)
LEMMA ResetDoes ==
  ASSUME NEW m, NEW d, NEW h \in AttachedStates(m, d), NEW x \in BOOLEAN, x <=> ~m /\ Cookies \in h,
         NEW k, "tries" \in k
  PROVE  Does(Safe(m, d), k,
              SuspendQueue(0) \o Each("gate", Of(<<"none">>)) \o ResumeQueue(0, x),
              {h}, AttachedStates(m, d), AttachedStates(m, d))
<1> DEFINE S == Safe(m, d)
           A == AttachedStates(m, d)
           g == h \ Named(0, SwitchNames)
<1>0. 0 \in 0..MaxIoQueues
  BY MaxIoQueuesAssumption
<1>1. Unwinds(S, SuspendQueue(0), h, {g}) /\ g \in A /\ g \in S
  BY <1>0, SuspendStays, AttachedFacts
<1>2. Cookies \in g <=> Cookies \in h
  BY DEF Named, SwitchNames, Cookies
<1>3. g \cap Named(0, SwitchNames) = {}
  OBVIOUS
<1> HIDE DEF g
<1>4. Does(S, k, ResumeQueue(0, x), {g}, A, A)
  BY <1>1, <1>2, <1>3, AdminResumes
<1> HIDE DEF S, A
<1>5. Does(S, k, SuspendQueue(0), {h}, {g}, A)
  BY <1>1, UnwindsDoes DEF Unwinds
<1>6. Does(S, k, Each("gate", Of(<<"none">>)), {g}, {g}, A)
  <2>1. Does(S, k, Each("gate", Of(<<"none">>)), {g}, {g}, {g})
    BY <1>1, AskDoes
  <2> DEFINE G == {g}
  <2>2. G \subseteq A
    BY <1>1
  <2> HIDE DEF G
  <2>3. Does(S, k, Each("gate", Of(<<"none">>)), G, G, G)
    BY <2>1 DEF G
  <2>4. Does(S, k, Each("gate", Of(<<"none">>)), G, G, A)
    BY <2>2, <2>3, DoesMore
  <2> QED BY <2>4 DEF G
<1>7. Does(S, k, SuspendQueue(0) \o Each("gate", Of(<<"none">>)), {h}, {g}, A)
  BY <1>5, <1>6, DoesBoth
<1>8. Does(S, k, (SuspendQueue(0) \o Each("gate", Of(<<"none">>))) \o ResumeQueue(0, x), {h}, A, A)
  BY <1>4, <1>7, DoesBoth
<1> QED BY <1>8 DEF S, A

(* The resources of the interrupts.                                        *)
Array == <<"intrArray", 0>>
Handler == <<"msiHandler", 0>>
WithIntr(m, h) == h \cup {Array, Cookies} \cup (IF m THEN {Handler} ELSE {})

(* The resources of no queue, and which of them differ.                    *)
LEMMA CommonTokens ==
  /\ \A n \in CommonNames \cup {"none"} : <<n, 0>> \in Tokens
  /\ {Array, Cookies, Handler, Listed, QueueList} \subseteq Tokens
  /\ Array \notin {Cookies, Listed, QueueList, Handler}
  /\ Handler \notin {Cookies, Listed, QueueList}
  /\ Cookies \notin {Listed, QueueList} /\ Listed # QueueList
  /\ \A q : Array # <<"vector", q>> /\ Cookies # <<"vector", q>>
<1>1. \A n \in CommonNames \cup {"none"} : <<n, 0>> \in Tokens
  BY DEF CommonNames, Names, Tokens, ModuleNames, DeviceNames, AdapterNames, CtrlNames, ExtraNames
<1> QED BY <1>1 DEF Array, Cookies, Handler, Listed, QueueList, Tokens, Names

(* The step of IntrAlloc that takes the cookies. *)
LEMMA CookiesTaken ==
  ASSUME NEW S, NEW k, NEW h \in S, NEW u \in Seq(Undos), NEW n \in Nat, NEW F,
         h \cup {Cookies} \in S, Cookies \notin h, Unwinds(S, u, h, F)
  PROVE  Does(S, k, <<[Step("cookies", <<"cookies", 0>>) EXCEPT !.undo = u, !.want = n]>>,
              {h}, {h \cup {Cookies}}, F)
<1> DEFINE s == [Step("cookies", <<"cookies", 0>>) EXCEPT !.undo = u, !.want = n]
<1>1. s = [do |-> "cookies", token |-> Cookies, undo |-> u, if |-> {}, want |-> n]
  <2> DEFINE t == <<"cookies", 0>>
             i == {}
             r == [do |-> "cookies", token |-> t, undo |-> <<>>, if |-> i, want |-> 0]
  <2>0. Cookies = t /\ Step("cookies", t) = r
    BY DEF Cookies, Step
  <2> HIDE DEF t, i
  <2>1. [r EXCEPT !.undo = u] =
          [do |-> "cookies", token |-> t, undo |-> u, if |-> i, want |-> 0]
    OBVIOUS
  <2>2. [r EXCEPT !.undo = u, !.want = n] = [[r EXCEPT !.undo = u] EXCEPT !.want = n]
    OBVIOUS
  <2>3. [[do |-> "cookies", token |-> t, undo |-> u, if |-> i, want |-> 0] EXCEPT !.want = n] =
          [do |-> "cookies", token |-> t, undo |-> u, if |-> i, want |-> n]
    OBVIOUS
  <2> HIDE DEF r
  <2>4. [r EXCEPT !.undo = u, !.want = n]
          = [do |-> "cookies", token |-> t, undo |-> u, if |-> i, want |-> n]
    BY <2>1, <2>2, <2>3
  <2> QED BY <2>0, <2>4 DEF i, t
<1>2. /\ s \in StepRec /\ s.do = "cookies" /\ s.token = Cookies /\ s.undo = u
  <2>1. "cookies" \in Dos /\ n \in Int /\ {} \in SUBSET Tokens /\ Cookies \in Tokens
    BY CommonTokens DEF Dos
  <2> QED BY <1>1, <2>1 DEF StepRec
<1> HIDE DEF s
<1>3. Kind(k, s)
  BY <1>2, CommonTokens DEF Kind
<1>4. \A g \in {h} : StepOK(S, k, s, g, {h \cup {Cookies}}, F)
  BY <1>2 DEF StepOK
<1>5. {h} \subseteq S /\ {h \cup {Cookies}} \subseteq S
  OBVIOUS
<1>6. Does(S, k, <<s>>, {h}, {h \cup {Cookies}}, F)
  BY <1>2, <1>3, <1>4, <1>5, DoesStep
<1> QED BY <1>6 DEF s

(* IntrAlloc takes the interrupts or nothing; under MSI a handler that     *)
(* cannot be registered leaves the cookies.                                *)
LEMMA IntrAllocated ==
  ASSUME NEW m \in BOOLEAN, NEW d, NEW h \in Safe(m, d), NEW k, NEW n \in Nat,
         Cookies \notin h, Array \notin h, <<"ctrlr", 0>> \in h
  PROVE  /\ Does(Safe(m, d), k, IntrAlloc(m, n), {h}, {WithIntr(m, h)},
                 {h} \cup (IF m THEN {h \cup {Array, Cookies}} ELSE {}))
         /\ WithIntr(m, h) \in Safe(m, d) /\ h \cup {Array, Cookies} \in Safe(m, d)
<1> DEFINE S == Safe(m, d)
           h1 == h \cup {Array}
           h2 == h \cup {Array, Cookies}
           F == {h} \cup (IF m THEN {h2} ELSE {})
           u == Each("put", Of(<<"intrArray">>))
           A == Chain(Of(<<"intrArray">>))
           B == <<[Step("cookies", <<"cookies", 0>>) EXCEPT !.undo = u, !.want = n]>>
           C == IF m THEN Chain(Of(<<"msiHandler">>)) ELSE <<>>
<1>1. /\ Of(<<"intrArray">>) = <<Array>> /\ Of(<<"msiHandler">>) = <<Handler>>
  BY DEF Of, At, Array, Handler
<1>2. h1 \in S
  <2>1. MadeFrom(Array) \subseteq h
    BY MadeOfCommon DEF Zero, Array
  <2> QED BY <2>1, CommonTokens, SafeAdd
<1>3. h2 \in S
  <2>1. MadeFrom(Cookies) \subseteq h1
    BY MadeOfCommon DEF Zero, Array, Cookies
  <2>2. h1 \cup {Cookies} \in S
    BY <1>2, <2>1, CommonTokens, SafeAdd
  <2>3. h1 \cup {Cookies} = h2
    OBVIOUS
  <2> QED BY <2>2, <2>3
<1>4. WithIntr(m, h) \in S
  <2>1. CASE m
    <3>1. MadeFrom(Handler) = {}
      BY MadeOfCommon DEF Handler
    <3>2. h2 \cup {Handler} \in S
      BY <3>1, <1>3, CommonTokens, SafeAdd
    <3> QED BY <2>1, <3>2 DEF WithIntr
  <2>2. CASE ~m
    <3>1. WithIntr(m, h) = h2
      BY <2>2 DEF WithIntr
    <3> QED BY <3>1, <1>3
  <2> QED BY <2>1, <2>2
<1>5. Does(S, k, A, {h}, {h1}, {h})
  <2>1. Array \in Tokens \ {Cookies, Listed}
    BY CommonTokens
  <2>2. Does(S, k, Chain(<<Array>>), {h}, {h \cup {Array}}, {h})
    BY <2>1, <1>2, ChainOne
  <2> QED BY <2>2, <1>1
<1>6. Unwinds(S, u, h1, {h})
  <2>1. h1 \ {Array} = h
    OBVIOUS
  <2>2. Array \in Tokens \ {QueueList} /\ "put" \in {"put", "drop"} /\ Array \in h1
    BY CommonTokens
  <2> HIDE DEF h1
  <2>3. Unwinds(S, Each("put", <<Array>>), h1, {h1 \ {Array}})
    BY <1>2, <2>1, <2>2, DropOne
  <2> QED BY <2>1, <2>3, <1>1
<1>7. Does(S, k, B, {h1}, {h2}, {h})
  <2>1. u \in Seq(Undos)
    BY <1>6 DEF Unwinds
  <2>2. h1 \cup {Cookies} = h2 /\ Cookies \notin h1
    BY CommonTokens
  <2> HIDE DEF h1, h2, u, S
  <2>3. h1 \cup {Cookies} \in S
    BY <2>2, <1>3
  <2> HIDE DEF B
  <2>4. Does(S, k, B, {h1}, {h1 \cup {Cookies}}, {h})
    BY <1>2, <1>6, <2>1, <2>2, <2>3, CookiesTaken DEF B
  <2> QED BY <2>2, <2>4
<1>8. Does(S, k, C, {h2}, {WithIntr(m, h)}, F)
  <2>1. CASE m
    <3>1. Handler \in Tokens \ {Cookies, Listed} /\ h2 \cup {Handler} = WithIntr(m, h)
      BY <2>1, CommonTokens DEF WithIntr
    <3>2. {h2} \subseteq F
      BY <2>1
    <3> DEFINE G == {h2}
    <3> HIDE DEF h2, S, F
    <3>3. Does(S, k, Chain(<<Handler>>), G, {WithIntr(m, h)}, G)
      BY <1>3, <1>4, <3>1, ChainOne DEF G
    <3> HIDE DEF G
    <3>4. G \subseteq F
      BY <3>2 DEF G
    <3>5. Does(S, k, Chain(<<Handler>>), G, {WithIntr(m, h)}, F)
      BY <3>3, <3>4, DoesMore
    <3> QED BY <2>1, <1>1, <3>5 DEF G
  <2>2. CASE ~m
    <3>1. WithIntr(m, h) = h2 /\ {h2} \subseteq S
      BY <2>2, <1>3 DEF WithIntr
    <3> DEFINE G == {h2}
    <3> HIDE DEF G, F
    <3>2. Does(S, k, <<>>, G, G, F)
      BY <3>1, DoesNothing DEF G
    <3> QED BY <2>2, <3>1, <3>2 DEF G
  <2> QED BY <2>1, <2>2
<1>9. {h} \subseteq F
  OBVIOUS
<1>10. IntrAlloc(m, n) = (A \o B) \o C
  BY DEF IntrAlloc
<1> DEFINE G == {h}
<1> HIDE DEF A, B, C, F, S, h1, h2, u, G
<1>11. /\ Does(S, k, A, G, {h1}, G) /\ Does(S, k, B, {h1}, {h2}, G) /\ G \subseteq F
  BY <1>5, <1>7, <1>9 DEF G
<1>12. Does(S, k, A, G, {h1}, F) /\ Does(S, k, B, {h1}, {h2}, F)
  BY <1>11, DoesMore
<1>13. Does(S, k, A \o B, G, {h2}, F)
  BY <1>12, DoesBoth
<1>14. Does(S, k, (A \o B) \o C, G, {WithIntr(m, h)}, F)
  BY <1>8, <1>13, DoesBoth
<1> QED BY <1>3, <1>4, <1>10, <1>14 DEF S, F, G, h2

(* What belongs to no queue is there once. *)
Proper(h) == \A n \in CommonNames, q \in Nat : <<n, q>> \in h => q = 0

(* IntrFree, when no vector is left.                                       *)
LEMMA IntrFreed ==
  ASSUME NEW m, NEW d, NEW h \in Safe(m, d), {Array, Cookies} \subseteq h, Proper(h),
         \A q \in Nat : <<"vector", q>> \notin h, m \/ d \/ Listed \notin h
  PROVE  /\ Unwinds(Safe(m, d), IntrFree, h, {h \ {Array, Cookies}})
         /\ h \ {Array, Cookies} \in Safe(m, d)
<1> DEFINE ts == <<Cookies, Array>>
<1>0. h \subseteq Tokens
  BY DEF Safe
<1>1. /\ Of(<<"cookies", "intrArray">>) = ts /\ ts \in Seq(Tokens) /\ Len(ts) = 2
      /\ ts[1] = Cookies /\ ts[2] = Array
  BY CommonTokens DEF Of, At, Cookies, Array
<1>2. ASSUME NEW t \in h PROVE Cookies \notin MadeFrom(t) /\ (Array \in MadeFrom(t) => t = Cookies)
  <2>1. PICK n \in Names, q \in Nat : t = <<n, q>>
    BY <1>0 DEF Tokens
  <2>2. t[1] = n
    BY <2>1
  <2>3. n # "vector"
    BY <2>1
  <2>4. n = "cookies" => q = 0
    BY <2>1 DEF Proper, CommonNames
  <2> HIDE DEF ts
  <2>5. t \in Tokens
    BY <1>0
  <2> QED BY <2>1, <2>2, <2>3, <2>4, <2>5, UsersOf DEF Cookies, Array
<1>3. Taken(ts, 0) = {} /\ Taken(ts, 1) = {Cookies} /\ Elems(ts) = {Array, Cookies}
  <2>1. Taken(ts, 2) = {Array, Cookies}
    BY DEF Taken
  <2> QED BY <1>1, <2>1 DEF Taken, Elems
<1>4. ASSUME NEW i \in 1..Len(ts)
      PROVE  /\ ts[i] # QueueList
             /\ \A t \in h \ Left(m) : ts[i] \in MadeFrom(t) => t \in Taken(ts, i - 1)
             /\ ts[i] = Cookies => m \/ d \/ Listed \notin h \/ Listed \in Taken(ts, i - 1)
             /\ ts[i] \in h \ Taken(ts, i - 1)
  <2>1. i = 1 \/ i = 2
    BY <1>1
  <2> HIDE DEF ts
  <2>2. CASE i = 1
    BY <2>2, <1>1, <1>2, <1>3, CommonTokens
  <2>3. CASE i = 2
    BY <2>3, <1>1, <1>2, <1>3, CommonTokens
  <2> QED BY <2>1, <2>2, <2>3
<1>5. "put" \in {"put", "drop"}
  OBVIOUS
<1> HIDE DEF ts
<1>6. /\ Unwinds(Safe(m, d), Each("put", ts), h, {h \ Elems(ts)})
      /\ h \ Elems(ts) \in Safe(m, d)
  BY <1>1, <1>4, <1>5, SafePuts
<1> QED BY <1>1, <1>3, <1>6 DEF IntrFree

(* The resources of an attached device belong to the queues                *)
(* 0..MaxIoQueues.                                                         *)
LEMMA AttachedProper ==
  ASSUME NEW m, NEW d, NEW h \in AttachedStates(m, d)
  PROVE  Proper(h) /\ \A q \in Nat, n \in QueueNames : <<n, q>> \in h => q \in 0..MaxIoQueues
<1>1. h \subseteq Zero(CommonNames) \cup UNION {OfQueue(p) : p \in 0..MaxIoQueues}
  BY AttachedFacts DEF Attached
<1>2. CommonNames \cap QueueNames = {}
  BY NamesApart
<1>3. ASSUME NEW n, NEW q, <<n, q>> \in h
      PROVE  (n \in CommonNames /\ q = 0) \/ (n \in QueueNames /\ q \in 0..MaxIoQueues)
  <2>1. CASE <<n, q>> \in Zero(CommonNames)
    BY <2>1 DEF Zero
  <2>2. CASE <<n, q>> \notin Zero(CommonNames)
    <3>1. PICK p \in 0..MaxIoQueues : <<n, q>> \in OfQueue(p)
      BY <1>1, <1>3, <2>2
    <3> QED BY <3>1 DEF OfQueue
  <2> QED BY <2>1, <2>2
<1>4. Proper(h)
  BY <1>2, <1>3 DEF Proper
<1> QED BY <1>2, <1>3, <1>4

(* The interrupts of a controller without IO queues are given back.        *)
LEMMA DeafAttached ==
  ASSUME NEW d, NEW h \in AttachedStates(FALSE, d), NEW g \in Safe(FALSE, d), Quiet(h),
         g = (h \ Named(0, SwitchNames \cup {"vector"})) \ {Array, Cookies}
  PROVE  g \in AttachedStates(FALSE, d)
<1>0. Attached(FALSE, h) /\ g \subseteq h
  BY AttachedFacts
<1>1. \A t \in h : t \in g \/ t \in Named(0, SwitchNames \cup {"vector"}) \/ t \in {Array, Cookies}
  OBVIOUS
<1>2. ASSUME NEW n \in CommonNames, n \notin {"intrArray", "cookies"}
      PROVE  <<n, 0>> \in g <=> <<n, 0>> \in h
  <2>1. SwitchNames \cup {"vector"} \subseteq QueueNames
    BY DEF SwitchNames, QueueNames
  <2>2. <<n, 0>> \notin Named(0, SwitchNames \cup {"vector"})
    BY <2>1, NamesApart DEF Named
  <2>3. <<n, 0>> \notin {Array, Cookies}
    BY <1>2 DEF Array, Cookies
  <2> QED BY <2>2, <2>3
<1>3. /\ ModuleNames \cup DeviceNames \subseteq CommonNames \ {"intrArray", "cookies"}
      /\ AdapterNames \cup CtrlNames \cup ExtraNames \subseteq CommonNames \ {"intrArray", "cookies"}
  BY DEF CommonNames, ModuleNames, DeviceNames, AdapterNames, CtrlNames, ExtraNames
<1>4. Zero(ModuleNames \cup DeviceNames) \subseteq g
  BY <1>0, <1>2, <1>3 DEF Attached, Zero
<1>5. /\ g \subseteq Zero(CommonNames) \cup UNION {OfQueue(q) : q \in 0..MaxIoQueues}
      /\ <<"msiHandler", 0>> \notin g
  BY <1>0 DEF Attached
<1>6. AdminQueueOk(FALSE, g)
  <2>1. AdminQueueOk(FALSE, h)
    BY <1>0 DEF Attached
  <2>2. Named(0, BodyNames \cup {"exists"}) \subseteq g
    <3>1. ASSUME NEW n \in BodyNames \cup {"exists"} PROVE <<n, 0>> \in g
      <4>1. n \notin SwitchNames \cup {"vector", "intrArray", "cookies"}
        BY DEF BodyNames, SwitchNames
      <4>2. <<n, 0>> \in h
        BY <2>1 DEF AdminQueueOk, Named
      <4> QED BY <1>1, <4>1, <4>2 DEF Named, Array, Cookies
    <3> QED BY <3>1 DEF Named
  <2>3. <<"vector", 0>> \notin g /\ Cookies \notin g
    BY DEF Named
  <2> QED BY <2>1, <2>2, <2>3, <1>0 DEF AdminQueueOk
<1>7. Quiet(g)
  BY <1>0 DEF Quiet, QuietQueue
<1>8. Stage(g)
  <2>1. ASSUME NEW N, N \subseteq AdapterNames \cup CtrlNames \cup ExtraNames
        PROVE  /\ Zero(N) \subseteq h => Zero(N) \subseteq g
               /\ Zero(N) \cap h = {} => Zero(N) \cap g = {}
    BY <2>1, <1>0, <1>2, <1>3 DEF Zero
  <2>2. Stage(h)
    BY <1>0 DEF Attached
  <2> QED BY <2>1, <2>2, <1>7 DEF Stage
<1>9. \A q \in IoQueues : IoQueueOk(FALSE, g, q)
  BY <1>7 DEF Quiet, QuietQueue, IoQueueOk
<1>10. Attached(FALSE, g)
  BY <1>4, <1>5, <1>6, <1>8, <1>9 DEF Attached
<1>11. Cookies \notin g /\ Array \notin g
  OBVIOUS
<1> QED BY <1>10, <1>11 DEF AttachedStates, Settled, Array

(* ReallocIntr: where it fails, the controller is left without interrupts  *)
(* and with an admin queue that is stopped.                                *)
LEMMA ReallocDoes ==
  ASSUME NEW h \in AttachedStates(FALSE, TRUE), Quiet(h), Cookies \in h, NEW n \in Nat,
         NEW k, "tries" \in k
  PROVE  Does(Safe(FALSE, TRUE), k,
              SuspendQueue(0) \o Each("put", Of(<<"vector">>)) \o IntrFree
              \o IntrAlloc(FALSE, n) \o Within(Chain(Of(<<"vector">>)), IntrFree)
              \o ResumeQueue(0, TRUE),
              {h}, AttachedStates(FALSE, TRUE), AttachedStates(FALSE, TRUE))
<1> DEFINE S == Safe(FALSE, TRUE)
           A == AttachedStates(FALSE, TRUE)
           v == <<"vector", 0>>
           h1 == h \ Named(0, SwitchNames)
           h2 == h1 \ {v}
           h3 == h2 \ {Array, Cookies}
           p1 == SuspendQueue(0)
           p2 == Each("put", Of(<<"vector">>))
           p3 == IntrFree
           p4 == IntrAlloc(FALSE, n)
           p5 == Within(Chain(Of(<<"vector">>)), IntrFree)
           p6 == ResumeQueue(0, TRUE)
<1>0. /\ h \in S /\ Attached(FALSE, h) /\ Array \in h /\ v \in h /\ MaxIoQueues \in Nat
      /\ Proper(h) /\ <<"ctrlr", 0>> \in h /\ v \in Tokens
      /\ \A q : <<"vector", q>> \in h => q = 0
  <2>1. h \in S /\ Attached(FALSE, h) /\ Array \in h /\ Proper(h) /\ <<"ctrlr", 0>> \in h
    BY AttachedFacts, AttachedProper DEF Array
  <2>2. v \in h
    BY <2>1 DEF Attached, AdminQueueOk
  <2>3. MaxIoQueues \in Nat
    BY MaxIoQueuesAssumption
  <2>4. h \subseteq Tokens
    BY <2>1 DEF Safe
  <2>5. ASSUME NEW q, <<"vector", q>> \in h PROVE q = 0
    <3>1. "vector" \in QueueNames /\ q \in Nat
      BY <2>4, <2>5 DEF QueueNames, Tokens
    <3>2. q \in 0..MaxIoQueues
      BY <2>5, <3>1, AttachedProper
    <3>3. CASE q > 0
      <4>1. q \in IoQueues
        BY <3>2, <3>3, <2>3 DEF IoQueues
      <4>2. <<"vector", q>> \in OfQueue(q)
        BY <3>1 DEF OfQueue
      <4> QED BY <4>1, <4>2, <2>5 DEF Quiet, QuietQueue
    <3> QED BY <3>2, <3>3
  <2> QED BY <2>1, <2>2, <2>3, <2>4, <2>5
<1>1. Unwinds(S, p1, h, {h1}) /\ h1 \in A /\ h1 \in S
  <2>1. 0 \in 0..MaxIoQueues
    BY <1>0
  <2> QED BY <2>1, SuspendStays, AttachedFacts
<1>2. /\ v \in h1 /\ Array \in h1 /\ Cookies \in h1 /\ Array \in h2 /\ Cookies \in h2
      /\ h2 \cup {v} = h1 /\ WithIntr(FALSE, h3) = h2
      /\ Array \notin h3 /\ Cookies \notin h3 /\ <<"ctrlr", 0>> \in h3
      /\ h1 \subseteq h /\ h2 \subseteq h
  <2>1. v \in h1 /\ Array \in h1 /\ Cookies \in h1 /\ <<"ctrlr", 0>> \in h1
    BY <1>0 DEF Named, SwitchNames, Array, Cookies
  <2>2. Array # v /\ Cookies # v /\ <<"ctrlr", 0>> # v /\ <<"ctrlr", 0>> \notin {Array, Cookies}
    BY DEF Array, Cookies
  <2> HIDE DEF h1, v
  <2>3. Array \in h2 /\ Cookies \in h2
    BY <2>1, <2>2
  <2>4. WithIntr(FALSE, h3) = h2
    BY <2>3 DEF WithIntr
  <2> QED BY <2>1, <2>2, <2>3, <2>4 DEF h1
<1>3. Unwinds(S, p2, h1, {h2}) /\ h2 \in S
  <2>1. Of(<<"vector">>) = <<v>> /\ v # QueueList /\ v # Cookies /\ "vector" \in QueueNames
    BY DEF Of, At, QueueList, Cookies, QueueNames
  <2>2. \A t \in h1 \ {v} : MadeFrom(t) \cap {v} = {}
    <3>1. Users("vector") = {"isIntrEnabled"}
      BY DEF Users, SwitchNames
    <3>2. <<"isIntrEnabled", 0>> \notin h1
      BY DEF Named, SwitchNames
    <3>3. h1 \subseteq Tokens
      BY <1>1 DEF Safe
    <3> HIDE DEF h1
    <3>4. ASSUME NEW t \in h1, v \in MadeFrom(t) PROVE FALSE
      <4>1. \E u \in Users("vector") : t = <<u, 0>>
        BY <2>1, <3>3, <3>4, UsersAre
      <4> QED BY <4>1, <3>1, <3>2
    <3> QED BY <3>4
  <2>3. h2 \in S
    BY <1>1, <2>1, <2>2, SafeMinus
  <2>4. "put" \in {"put", "drop"}
    OBVIOUS
  <2> HIDE DEF v, h1, S
  <2>5. Unwinds(S, Each("put", <<v>>), h1, {h1 \ {v}})
    BY <1>0, <1>1, <1>2, <2>1, <2>3, <2>4, DropOne
  <2> QED BY <2>1, <2>3, <2>5
<1>4. Unwinds(S, p3, h2, {h3}) /\ h3 \in S
  <2>1. Proper(h2) /\ \A q \in Nat : <<"vector", q>> \notin h2
    BY <1>0, <1>2 DEF Proper
  <2>2. {Array, Cookies} \subseteq h2 /\ (FALSE \/ TRUE \/ Listed \notin h2)
    BY <1>2
  <2> HIDE DEF h2
  <2> QED BY <1>3, <2>1, <2>2, IntrFreed
<1>5. h3 \in A
  <2>1. h3 = (h \ Named(0, SwitchNames \cup {"vector"})) \ {Array, Cookies}
    BY DEF Named
  <2> HIDE DEF h3
  <2> QED BY <1>4, <2>1, DeafAttached
<1>6. Does(S, {}, p4, {h3}, {h2}, {h3})
  <2> HIDE DEF h3, h2
  <2>1. FALSE \in BOOLEAN
    OBVIOUS
  <2>2. Does(Safe(FALSE, TRUE), {}, IntrAlloc(FALSE, n), {h3}, {WithIntr(FALSE, h3)},
             {h3} \cup (IF FALSE THEN {h3 \cup {Array, Cookies}} ELSE {}))
    BY <1>2, <1>4, <2>1, IntrAllocated
  <2>3. {h3} \cup (IF FALSE THEN {h3 \cup {Array, Cookies}} ELSE {}) = {h3}
    OBVIOUS
  <2> QED BY <1>2, <2>2, <2>3
<1>7. Does(S, {}, p5, {h2}, {h1}, {h3})
  <2>1. Of(<<"vector">>) = <<v>> /\ v \notin {Cookies, Listed} /\ "tries" \notin {}
    BY DEF Of, At, Listed, Cookies
  <2>2. IntrFree \in Seq(Undos)
    BY <1>4 DEF Unwinds
  <2> HIDE DEF v, h1, h2, h3, S
  <2>3. Does(S, {}, Chain(<<v>>), {h2}, {h2 \cup {v}}, {h2})
    BY <1>0, <1>1, <1>2, <1>3, <2>1, ChainOne
  <2>4. Does(S, {}, Chain(<<v>>), {h2}, {h1}, {h2})
    BY <1>2, <2>3
  <2>5. \A g \in {h2} : Unwinds(S, IntrFree, g, {h3})
    BY <1>4
  <2> DEFINE G == {h2}
  <2> HIDE DEF G
  <2>6. Does(S, {}, Within(Chain(<<v>>), IntrFree), {h2}, {h1}, {h3})
    BY <2>1, <2>2, <2>4, <2>5, DoesWithin DEF G
  <2> QED BY <2>1, <2>6
<1>8. Does(S, k, p6, {h1}, A, A)
  <2>1. h1 \cap Named(0, SwitchNames) = {} /\ TRUE \in BOOLEAN /\ (TRUE <=> ~FALSE /\ Cookies \in h1)
    BY <1>2
  <2> HIDE DEF h1
  <2> QED BY <1>1, <2>1, AdminResumes
<1> HIDE DEF h1, h2, h3, v, p1, p2, p3, p4, p5, p6, S, A
<1>9. /\ Does(S, k, p1, {h}, {h1}, A) /\ Does(S, k, p2, {h1}, {h2}, A)
      /\ Does(S, k, p3, {h2}, {h3}, A)
  BY <1>1, <1>3, <1>4, UnwindsDoes DEF Unwinds
<1>10. Does(S, k, p4, {h3}, {h2}, A) /\ Does(S, k, p5, {h2}, {h1}, A)
  <2> DEFINE G == {h3}
  <2>1. G \subseteq A /\ {} \subseteq k
    BY <1>5
  <2> HIDE DEF G
  <2>2. Does(S, {}, p4, G, {h2}, G) /\ Does(S, {}, p5, {h2}, {h1}, G)
    BY <1>6, <1>7 DEF G
  <2>3. Does(S, k, p4, G, {h2}, A) /\ Does(S, k, p5, {h2}, {h1}, A)
    BY <2>1, <2>2, DoesMore
  <2> QED BY <2>3 DEF G
<1>11. Does(S, k, p1 \o p2, {h}, {h2}, A)
  BY <1>9, DoesBoth
<1>12. Does(S, k, (p1 \o p2) \o p3, {h}, {h3}, A)
  BY <1>9, <1>11, DoesBoth
<1>13. Does(S, k, ((p1 \o p2) \o p3) \o p4, {h}, {h2}, A)
  BY <1>10, <1>12, DoesBoth
<1>14. Does(S, k, (((p1 \o p2) \o p3) \o p4) \o p5, {h}, {h1}, A)
  BY <1>10, <1>13, DoesBoth
<1>15. Does(S, k, ((((p1 \o p2) \o p3) \o p4) \o p5) \o p6, {h}, A, A)
  BY <1>8, <1>14, DoesBoth
<1> QED BY <1>15 DEF S, A, p1, p2, p3, p4, p5, p6

(* createIOQueue of a controller that has its interrupts.                  *)
LEMMA QueueMade ==
  ASSUME NEW m, NEW d, NEW h \in AttachedStates(m, d), NEW q \in IoQueues, NEW x \in BOOLEAN,
         <<"registered", 0>> \in h, <<"exists", q>> \notin h, x <=> ~m /\ Cookies \in h,
         m \/ Cookies \in h, NEW k, "tries" \in k
  PROVE  Does(Safe(m, d), k, QueueCreate(q, x, x), {h}, AttachedStates(m, d), AttachedStates(m, d))
<1> DEFINE S == Safe(m, d)
           A == AttachedStates(m, d)
           E == With(h, q, {"exists"})
           F == {h, E}
<1>0. /\ q \in Nat /\ q > 0 /\ q \in 0..MaxIoQueues /\ h \in S /\ Attached(m, h)
      /\ QueueBase \cup {QueueList, <<"bar", 0>>} \subseteq h /\ (x <=> ~m)
  <2>1. q \in Nat /\ q > 0 /\ q \in 0..MaxIoQueues
    BY MaxIoQueuesAssumption DEF IoQueues
  <2> QED BY <2>1, AttachedFacts
<1>1. h \cap OfQueue(q) = {} /\ h \ OfQueue(q) = h
  <2>1. IoQueueOk(m, h, q)
    BY <1>0 DEF Attached
  <2>2. <<"exists", q>> \notin h
    OBVIOUS
  <2>3. h \cap OfQueue(q) \subseteq {<<"exists", q>>}
    BY <2>1, <2>2 DEF IoQueueOk, Named
  <2> QED BY <2>2, <2>3
<1>2. Ready(m, d, q, x, h)
  BY <1>0, <1>1 DEF Ready
<1>3. ASSUME NEW g \in Made(m, d, q, x, h) PROVE g \in A
  <2>1. /\ g \in S /\ g \ OfQueue(q) = h \ OfQueue(q)
        /\ Named(q, WholeNames(x) \cup {"active"}) \subseteq g
        /\ (<<"vector", q>> \in g <=> x) /\ (<<"isIntrEnabled", q>> \in g <=> x)
        /\ <<"counted", q>> \in g
    BY <1>0, <1>1 DEF Made
  <2>2. Named(q, BodyNames \cup {"exists", "counted"}) \subseteq g /\ <<"active", q>> \in g
    BY <2>1 DEF Named, WholeNames
  <2>3. IoQueueOk(m, g, q)
    BY <2>1, <2>2, <1>0 DEF IoQueueOk
  <2> QED BY <2>1, <2>3, <1>0, SwapQueue
<1>4. E \in A
  <2>1. "exists" \in QueueNames /\ <<"exists", q>> \in Tokens /\ <<"exists", q>> \notin {Cookies, Listed, QueueList}
    BY <1>0, QueueNamesAre DEF QueueNames
  <2>2. MadeFrom(<<"exists", q>>) \subseteq h
    <3>1. MadeFrom(<<"exists", q>>) = Zero({"queueList"}) /\ QueueList \in h
      BY <1>0, MadeOfQueue
    <3>2. Zero({"queueList"}) = {QueueList}
      BY DEF Zero, QueueList
    <3> QED BY <3>1, <3>2
  <2>3. E = h \cup {<<"exists", q>>}
    BY DEF With, Named
  <2>4. E \in S
    BY <2>1, <2>2, <2>3, <1>0, SafeAdd
  <2>5. E \ OfQueue(q) = h \ OfQueue(q) /\ QuietQueue(E, q)
    BY <2>1, <2>3, <1>1 DEF OfQueue, QuietQueue
  <2> HIDE DEF E
  <2>6. IoQueueOk(m, E, q)
    BY <2>5 DEF IoQueueOk, QuietQueue
  <2> QED BY <2>4, <2>5, <2>6, <1>0, SwapQueue
<1>5. Does(S, k, QueueCreate(q, x, x), {h}, Made(m, d, q, x, h), F)
  <2> DEFINE O == {}
  <2>1. "tries" \notin O /\ O \subseteq k /\ <<"bar", 0>> \in h
    BY <1>0
  <2> HIDE DEF O
  <2> QED BY <1>2, <2>1, QueueCreated
<1>6. Made(m, d, q, x, h) \subseteq A /\ F \subseteq A
  BY <1>3, <1>4
<1> HIDE DEF F, S, A
<1>7. Does(S, k, QueueCreate(q, x, x), {h}, A, A)
  BY <1>5, <1>6, DoesMore
<1> QED BY <1>7 DEF S, A

(* deleteIOQueue.                                                          *)
LEMMA QueueDeleted ==
  ASSUME NEW m, NEW d, NEW h \in AttachedStates(m, d), NEW q \in IoQueues, NEW x \in BOOLEAN,
         <<"counted", q>> \in h, x <=> ~m /\ Cookies \in h, NEW k
  PROVE  Does(Safe(m, d), k, QueueStopAndDestroy(q, x), {h}, AttachedStates(m, d), AttachedStates(m, d))
<1> DEFINE S == Safe(m, d)
           A == AttachedStates(m, d)
           g == h \ OfQueue(q)
<1>0. /\ q \in Nat /\ q > 0 /\ q \in 0..MaxIoQueues /\ h \in S /\ Attached(m, h)
  <2>1. q \in Nat /\ q > 0 /\ q \in 0..MaxIoQueues
    BY MaxIoQueuesAssumption DEF IoQueues
  <2> QED BY <2>1, AttachedFacts
<1>1. Named(q, BodyNames \cup {"exists"}) \subseteq h /\ (<<"vector", q>> \in h <=> ~m)
  <2>1. <<"counted", q>> \in OfQueue(q)
    BY DEF OfQueue, QueueNames
  <2>2. IoQueueOk(m, h, q)
    BY <1>0 DEF Attached
  <2> QED BY <2>1, <2>2 DEF IoQueueOk, Named
<1>2. x <=> <<"vector", q>> \in h
  <2>1. ASSUME <<"vector", q>> \in h PROVE Cookies \in h
    <3>1. MadeFrom(<<"vector", q>>) \subseteq h
      BY <1>0, <2>1 DEF Safe, Closed, Left
    <3>2. MadeFrom(<<"vector", q>>) = {<<"cqInfo", q>>} \cup Zero({"cookies"})
      BY MadeOfQueue
    <3>3. Cookies \in Zero({"cookies"})
      BY DEF Zero, Cookies
    <3> QED BY <3>1, <3>2, <3>3
  <2> QED BY <1>1, <2>1
<1>3. Unwinds(S, QueueStopAndDestroy(q, x), h, {g})
  BY <1>0, <1>1, <1>2, QueueStopped
<1>4. g \in A
  <2>1. g \in S
    BY <1>3, UnwindsEnd
  <2>2. g \ OfQueue(q) = h \ OfQueue(q) /\ QuietQueue(g, q)
    BY DEF QuietQueue
  <2> HIDE DEF g
  <2>3. IoQueueOk(m, g, q)
    BY <2>2 DEF IoQueueOk, QuietQueue
  <2> QED BY <2>1, <2>2, <2>3, <1>0, SwapQueue
<1> DEFINE G == {g}
<1>5. G \subseteq A
  BY <1>4
<1> HIDE DEF g, S, A, G
<1>6. Unwinds(S, QueueStopAndDestroy(q, x), h, A)
  BY <1>3, <1>5, UnwindsMore DEF G
<1> QED BY <1>6, UnwindsDoes DEF Unwinds, S, A

(* The controllers whose queues are there, all of them.                    *)
WholeStates(m, d) ==
  {h \in AttachedStates(m, d) :
     <<"registered", 0>> \in h /\ \A q \in IoQueues : <<"exists", q>> \in h => <<"counted", q>> \in h}

(* The poll handlers come and go.                                          *)
LEMMA WholeSwap ==
  ASSUME NEW m, NEW d, NEW h \in WholeStates(m, d), NEW q \in IoQueues, <<"exists", q>> \in h,
         NEW g \in Safe(m, d), NEW n \in {"pollHandler", "pollEnabled"},
         g = h \cup {<<n, q>>} \/ g = h \ {<<n, q>>}
  PROVE  g \in WholeStates(m, d)
<1>0. /\ q \in Nat /\ q > 0 /\ q \in 0..MaxIoQueues /\ h \in AttachedStates(m, d) /\ Attached(m, h)
  <2>1. q \in Nat /\ q > 0 /\ q \in 0..MaxIoQueues
    BY MaxIoQueuesAssumption DEF IoQueues
  <2> QED BY <2>1, AttachedFacts DEF WholeStates
<1>1. n \in QueueNames /\ <<n, q>> \in OfQueue(q) /\ n \notin BodyNames
  BY DEF QueueNames, OfQueue, BodyNames
<1>2. g \ OfQueue(q) = h \ OfQueue(q)
  BY <1>1
<1>3. \A u, p : u # n => (<<u, p>> \in g <=> <<u, p>> \in h)
  OBVIOUS
<1>4. \A u \in BodyNames \cup {"exists", "counted", "vector", "active", "isIntrEnabled", "registered"} :
        u # n
  BY <1>1
<1>5. IoQueueOk(m, g, q)
  <2>1. <<"counted", q>> \in h /\ <<"counted", q>> \in OfQueue(q)
    BY DEF WholeStates, OfQueue, QueueNames
  <2>2. IoQueueOk(m, h, q)
    BY <1>0 DEF Attached
  <2>a. ~(h \cap OfQueue(q) \subseteq {<<"exists", q>>})
    BY <2>1
  <2>3. /\ Named(q, BodyNames \cup {"exists", "counted"}) \subseteq h
        /\ <<"vector", q>> \in h <=> ~m
        /\ ~m => (<<"active", q>> \in h <=> <<"isIntrEnabled", q>> \in h)
    BY <2>a, <2>2 DEF IoQueueOk
  <2>4. Named(q, BodyNames \cup {"exists", "counted"}) \subseteq g
    BY <2>3, <1>3, <1>4 DEF Named
  <2> QED BY <2>3, <2>4, <1>3, <1>4 DEF IoQueueOk
<1>6. <<"registered", 0>> \in h
  BY DEF WholeStates
<1>7. g \in AttachedStates(m, d)
  BY <1>0, <1>2, <1>5, <1>6, SwapQueue
<1> QED BY <1>3, <1>4, <1>6, <1>7 DEF WholeStates

(* StoragePollSetup, of one queue.                                         *)
LEMMA PollMade ==
  ASSUME NEW m, NEW d, NEW q \in Nat \ {0}, NEW k, "tries" \in k, WholeStates(m, d) # {}, NEW F
  PROVE  Does(Safe(m, d), k, StoragePollCreate(q) \o StoragePollEnable(q),
              WholeStates(m, d), WholeStates(m, d), F)
<1> DEFINE S == Safe(m, d)
           W == WholeStates(m, d)
           p == <<"pollHandler", q>>
           e == <<"pollEnabled", q>>
<1>1. W \subseteq S
  BY DEF WholeStates, AttachedStates, Settled
<1>2. /\ {p, e} \subseteq Tokens \ {Cookies, Listed, QueueList}
      /\ {p, e} \subseteq OfQueue(q)
  BY QueueNamesAre DEF QueueNames, OfQueue
<1>3. ASSUME NEW h \in W, <<"exists", q>> \in h
      PROVE  /\ q \in IoQueues /\ h \subseteq Tokens /\ h \in S
             /\ Named(q, BodyNames \cup {"exists"}) \subseteq h
  <2>1. h \in AttachedStates(m, d) /\ Attached(m, h) /\ h \subseteq Tokens /\ h \in S
    BY AttachedFacts DEF WholeStates
  <2>2. q \in IoQueues
    <3>1. "exists" \in QueueNames
      BY DEF QueueNames
    <3>2. q \in 0..MaxIoQueues
      BY <1>3, <2>1, <3>1, AttachedProper
    <3> QED BY <3>2, MaxIoQueuesAssumption DEF IoQueues
  <2>3. <<"counted", q>> \in h /\ <<"counted", q>> \in OfQueue(q)
    BY <2>2, <1>3 DEF WholeStates, OfQueue, QueueNames
  <2>4. IoQueueOk(m, h, q)
    BY <2>1, <2>2 DEF Attached
  <2>5. Named(q, BodyNames \cup {"exists"}) \subseteq h
    BY <2>3, <2>4 DEF IoQueueOk, Named
  <2> QED BY <2>1, <2>2, <2>5
<1>4. ASSUME NEW h \in W, <<"exists", q>> \in h, <<"adapter", 0>> \in h
      PROVE  h \cup {p} \in W
  <2>1. MadeFrom(p) \subseteq h
    <3>1. MadeFrom(p) = {<<n, q>> : n \in {"cqInfo", "sqInfo", "cmdList"}} \cup Zero({"adapter"})
      BY MadeOfQueue
    <3>2. \A n \in {"cqInfo", "sqInfo", "cmdList"} : <<n, q>> \in h
      BY <1>3, <1>4 DEF Named, BodyNames
    <3> QED BY <3>1, <3>2, <1>4 DEF Zero
  <2>2. h \cup {p} \in S
    BY <1>2, <1>3, <1>4, <2>1, SafeAdd
  <2> QED BY <1>3, <1>4, <2>2, WholeSwap
<1>5. ASSUME NEW h \in W, p \in h, e \notin h
      PROVE  h \cup {e} \in W /\ h \ {p} \in W
  <2>0. h \in S /\ h \subseteq Tokens
    BY <1>1 DEF Safe
  <2>1. <<"exists", q>> \in h
    <3>1. h \in AttachedStates(m, d) /\ Attached(m, h)
      BY AttachedFacts DEF WholeStates
    <3>2. q \in 0..MaxIoQueues
      BY <1>5, <3>1, AttachedProper DEF QueueNames
    <3>3. q \in IoQueues
      BY <3>2, MaxIoQueuesAssumption DEF IoQueues
    <3>4. IoQueueOk(m, h, q)
      BY <3>1, <3>3 DEF Attached
    <3> QED BY <3>4, <1>2, <1>5 DEF IoQueueOk, Named
  <2>2. MadeFrom(e) \subseteq h
    <3>1. Bodies(q) \subseteq h
      BY <1>3, <2>1, BodiesAre DEF Named
    <3> QED BY <3>1, <1>5, MadeOfQueue
  <2>3. h \cup {e} \in S
    BY <1>2, <2>0, <2>2, SafeAdd
  <2>4. h \ {p} \in S
    <3>1. \A t \in h : p \in MadeFrom(t) => t = e
      <4>1. "pollHandler" \in QueueNames
        BY DEF QueueNames
      <4>2. Users("pollHandler") = {"pollEnabled"}
        BY DEF Users, SwitchNames
      <4> QED BY <2>0, <4>1, <4>2, UsersAre
    <3>2. \A t \in h \ {p} : MadeFrom(t) \cap {p} = {}
      BY <3>1, <1>5
    <3> QED BY <3>2, <1>2, <2>0, SafeMinus
  <2> QED BY <1>3, <2>1, <2>3, <2>4, WholeSwap
<1>6. \A h \in W : <<"exists", q>> \in h /\ <<"adapter", 0>> \in h => h \cup {<<"pollHandler", q>>} \in W
  BY <1>4
<1>7. \A h \in W : /\ <<"pollEnabled", q>> \in h \/ <<"pollHandler", q>> \notin h => h \in W
                   /\ <<"pollHandler", q>> \in h /\ <<"pollEnabled", q>> \notin h =>
                        {h \cup {<<"pollEnabled", q>>}, h \ {<<"pollHandler", q>>}} \subseteq W
  BY <1>5
<1>8. W \subseteq W
  OBVIOUS
<1> HIDE DEF W
<1>9. Does(S, k, StoragePollCreate(q), W, W, F)
  BY <1>1, <1>6, <1>8, PollCreated
<1>10. Does(S, k, StoragePollEnable(q), W, W, F)
  BY <1>1, <1>7, PollEnabled
<1> HIDE DEF S
<1>11. Does(S, k, StoragePollCreate(q) \o StoragePollEnable(q), W, W, F)
  BY <1>9, <1>10, DoesBoth
<1> QED BY <1>11 DEF S, W

-----------------------------------------------------------------------------
(* The adapter and the controller.                                         *)

Upper == Zero(AdapterNames \cup CtrlNames \cup ExtraNames)

(* Only the adapter and the controller have changed. *)
LEMMA SwapUpper ==
  ASSUME NEW m, NEW d, NEW h \in AttachedStates(m, d), NEW g \in Safe(m, d),
         g \ Upper = h \ Upper, Quiet(h) => Stage(g), ~Quiet(h) => Zero(AdapterNames \cup CtrlNames) \subseteq g
  PROVE  g \in AttachedStates(m, d) /\ (Quiet(g) <=> Quiet(h))
<1>0. /\ Attached(m, h) /\ (Cookies \in h <=> <<"intrArray", 0>> \in h)
      /\ MaxIoQueues \in Nat /\ IoQueues = 1..MaxIoQueues
  BY MaxIoQueuesAssumption DEF AttachedStates, Settled, IoQueues
<1>1. AdapterNames \cup CtrlNames \cup ExtraNames \subseteq CommonNames
  BY DEF CommonNames
<1>2. \A n, q : n \notin AdapterNames \cup CtrlNames \cup ExtraNames => (<<n, q>> \in g <=> <<n, q>> \in h)
  BY DEF Upper, Zero
<1>3. \A n \in QueueNames : n \notin AdapterNames \cup CtrlNames \cup ExtraNames
  BY <1>1, NamesApart
<1>4. \A n \in QueueNames : \A q : <<n, q>> \in g <=> <<n, q>> \in h
  BY <1>2, <1>3
<1>5. \A q : g \cap OfQueue(q) = h \cap OfQueue(q)
  BY <1>4 DEF OfQueue
<1>6. Quiet(g) <=> Quiet(h)
  BY <1>5 DEF Quiet, QuietQueue
<1>7. /\ BodyNames \subseteq QueueNames
      /\ {"exists", "counted", "pollHandler", "vector", "active", "isIntrEnabled"} \subseteq QueueNames
      /\ \A n \in ModuleNames \cup DeviceNames \cup {"cookies", "intrArray", "msiHandler"} :
           n \notin AdapterNames \cup CtrlNames \cup ExtraNames
  BY DEF QueueNames, ModuleNames, DeviceNames, AdapterNames, CtrlNames, ExtraNames
<1>8. Zero(ModuleNames \cup DeviceNames) \subseteq g
  BY <1>0, <1>2, <1>7 DEF Attached, Zero
<1>9. /\ Cookies \in g <=> Cookies \in h
      /\ <<"intrArray", 0>> \in g <=> <<"intrArray", 0>> \in h
      /\ <<"msiHandler", 0>> \in g <=> <<"msiHandler", 0>> \in h
  BY <1>2, <1>7 DEF Cookies
<1>10. g \subseteq Zero(CommonNames) \cup UNION {OfQueue(q) : q \in 0..MaxIoQueues}
  <2>1. Upper \subseteq Zero(CommonNames)
    BY <1>1 DEF Upper, Zero
  <2> QED BY <2>1, <1>0 DEF Attached
<1>11. AdminQueueOk(m, g)
  <2>1. AdminQueueOk(m, h)
    BY <1>0 DEF Attached
  <2> QED BY <2>1, <1>4, <1>7, <1>9 DEF AdminQueueOk, Named
<1>12. \A q \in IoQueues : IoQueueOk(m, g, q)
  <2>1. ASSUME NEW q \in IoQueues PROVE IoQueueOk(m, g, q)
    <3>1. IoQueueOk(m, h, q)
      BY <1>0 DEF Attached
    <3> QED BY <3>1, <1>4, <1>5, <1>7 DEF IoQueueOk, Named
  <2> QED BY <2>1
<1>13. Stage(g)
  BY DEF Stage
<1>14. Attached(m, g)
  BY <1>0, <1>8, <1>9, <1>10, <1>11, <1>12, <1>13 DEF Attached
<1> QED BY <1>0, <1>6, <1>9, <1>14 DEF AttachedStates, Settled

(* How far the adapter and the controller are there.                       *)
LEMMA StageFacts ==
  ASSUME NEW m, NEW d, NEW h \in AttachedStates(m, d)
  PROVE  /\ <<"device", 0>> \notin h => h \cap Upper = {} /\ Quiet(h)
         /\ <<"device", 0>> \in h /\ <<"controller", 0>> \notin h =>
              Zero(AdapterNames) \subseteq h /\ h \cap Zero(CtrlNames \cup ExtraNames) = {} /\ Quiet(h)
         /\ <<"controller", 0>> \in h \/ <<"registered", 0>> \in h =>
              Zero(AdapterNames \cup CtrlNames) \subseteq h
<1>1. Stage(h)
  BY AttachedFacts DEF Attached
<1>2. /\ <<"device", 0>> \in Zero(AdapterNames) /\ <<"device", 0>> \in Zero(AdapterNames \cup CtrlNames)
      /\ <<"device", 0>> \in Upper
      /\ <<"controller", 0>> \in Zero(AdapterNames \cup CtrlNames)
      /\ {<<"controller", 0>>, <<"registered", 0>>} \subseteq Zero(CtrlNames \cup ExtraNames)
      /\ {<<"controller", 0>>, <<"registered", 0>>} \subseteq Upper
  BY DEF Zero, AdapterNames, CtrlNames, Upper
<1> QED BY <1>1, <1>2 DEF Stage, Upper

(* StoragePollSetup, of the queues that there are.                         *)
LEMMA SetupDoes ==
  ASSUME NEW m, NEW d, WholeStates(m, d) # {}, NEW n \in Nat, NEW k, "tries" \in k, NEW F
  PROVE  Does(Safe(m, d), k, StoragePollSetup(n), WholeStates(m, d), WholeStates(m, d), F)
<1> DEFINE f(q) == StoragePollCreate(q) \o StoragePollEnable(q)
           ps == [q \in 1..n |-> f(q)]
           X == {f(q) : q \in 1..n}
           W == WholeStates(m, d)
           S == Safe(m, d)
<1>1. ps \in Seq(X) /\ Len(ps) = n /\ \A i \in 1..n : ps[i] = f(i)
  OBVIOUS
<1>2. \A i \in 1..Len(ps) : Does(S, k, ps[i], W, W, F)
  <2>1. ASSUME NEW i \in 1..n PROVE Does(S, k, f(i), W, W, F)
    <3>1. i \in Nat \ {0}
      OBVIOUS
    <3> QED BY <3>1, PollMade
  <2> QED BY <1>1, <2>1
<1>3. W \subseteq S
  BY DEF WholeStates, AttachedStates, Settled
<1>4. StoragePollSetup(n) = FlattenSeq(ps)
  BY DEF StoragePollSetup
<1> HIDE DEF ps, X, W, S
<1>5. Does(S, k, FlattenSeq(ps), W, W, F)
  BY <1>1, <1>2, <1>3, FlattenDoes
<1> QED BY <1>4, <1>5 DEF W, S

(* A step whose failure is ignored and that needs nothing.                 *)
LEMMA TryOne ==
  ASSUME NEW m, NEW d, NEW k, "tries" \in k, NEW t \in Tokens \ {Cookies, Listed}, NEW P, NEW Q, NEW F,
         P \subseteq Safe(m, d), P \subseteq Q, Q \subseteq Safe(m, d), \A h \in P : h \cup {t} \in Q
  PROVE  Does(Safe(m, d), k, Each("try", <<t>>), P, Q, F)
<1> DEFINE s == Step("try", t)
<1>1. /\ Each("try", <<t>>) = <<s>> /\ s \in StepRec
      /\ s.do = "try" /\ s.token = t /\ s.undo = <<>> /\ s.if = {}
  BY TokenStep DEF Dos
<1> HIDE DEF s
<1>2. Tries(Safe(m, d), s, P, Q)
  <2>1. ASSUME NEW h \in P PROVE h \in Q /\ h \cup {t} \in Q /\ Unwinds(Safe(m, d), <<>>, h, Q)
    <3>1. h \in Q /\ h \cup {t} \in Q /\ h \in Safe(m, d)
      OBVIOUS
    <3> QED BY <3>1, NothingUndone
  <2> QED BY <1>1, <2>1 DEF Tries
<1> QED BY <1>1, <1>2, TryDoes

(* One more of the timer, its queue and the management handle.             *)
LEMMA KeyValAdded ==
  ASSUME NEW m, NEW d, NEW h \in AttachedStates(m, d), <<"registered", 0>> \in h,
         NEW n \in ExtraNames, <<n, 0>> # <<"timer", 0>> \/ <<"timerQueue", 0>> \in h
  PROVE  h \cup {<<n, 0>>} \in AttachedStates(m, d)
<1> DEFINE t == <<n, 0>>
<1>1. Zero(AdapterNames \cup CtrlNames) \subseteq h /\ h \in Safe(m, d)
      /\ {<<"ctrlr", 0>>, QueueList} \subseteq h
  BY StageFacts, AttachedFacts
<1>2. {<<"controller", 0>>, <<"adapter", 0>>} \subseteq h
  BY <1>1 DEF Zero, AdapterNames, CtrlNames
<1>3. t \in Tokens /\ t # Listed /\ t \in Upper
  BY DEF ExtraNames, Tokens, Names, Listed, Upper, Zero
<1>4. MadeFrom(t) \subseteq h
  <2>1. CASE n = "timerQueue"
    BY <2>1, MadeOfCommon
  <2>2. CASE n = "timer"
    <3>1. MadeFrom(<<"timer", 0>>) = Zero({"timerQueue", "controller", "queueList"})
      BY MadeOfCommon
    <3>2. <<"timerQueue", 0>> \in h
      BY <2>2
    <3> QED BY <2>2, <3>1, <3>2, <1>1, <1>2 DEF Zero, QueueList
  <2>3. CASE n = "kvMgmt"
    <3>1. MadeFrom(<<"kvMgmt", 0>>) = Zero({"ctrlr", "controller", "adapter"})
      BY MadeOfCommon
    <3> QED BY <2>3, <3>1, <1>1, <1>2 DEF Zero
  <2> QED BY <2>1, <2>2, <2>3 DEF ExtraNames
<1>5. h \cup {t} \in Safe(m, d)
  BY <1>1, <1>3, <1>4, SafeAdd
<1>6. (h \cup {t}) \ Upper = h \ Upper /\ Zero(AdapterNames \cup CtrlNames) \subseteq h \cup {t}
  BY <1>1, <1>3
<1>7. Stage(h \cup {t})
  BY <1>6 DEF Stage
<1> HIDE DEF t
<1>8. h \cup {t} \in AttachedStates(m, d)
  BY <1>5, <1>6, <1>7, SwapUpper
<1> QED BY <1>8 DEF t

(* NotifyIOAllowed: whatever of the poll handlers and of the keys cannot   *)
(* be had is done without.                                                 *)
LEMMA IoAllowed ==
  ASSUME NEW m, NEW d, NEW h \in WholeStates(m, d), NEW n \in Nat, NEW e \in BOOLEAN,
         NEW k, "tries" \in k
  PROVE  Does(Safe(m, d), k, StoragePollSetup(n) \o KeyValInit(e), {h},
              AttachedStates(m, d), AttachedStates(m, d))
<1> DEFINE S == Safe(m, d)
           A == AttachedStates(m, d)
           W == WholeStates(m, d)
           t == <<"kvMgmt", 0>>
<1>1. W \subseteq A /\ A \subseteq S /\ W \subseteq S /\ W # {} /\ {h} \subseteq W
  BY DEF WholeStates, AttachedStates, Settled
<1>2. Does(S, k, StoragePollSetup(n), W, W, A)
  BY <1>1, SetupDoes
<1>3. Does(S, k, KeyValInit(e), W, A, A)
  <2>1. CASE e
    <3> HIDE DEF S, A, W
    <3>1. Does(S, k, <<>>, W, W, A)
      BY <1>1, DoesNothing
    <3>2. Does(S, k, <<>>, W, A, A)
      BY <1>1, <3>1, DoesMore
    <3> QED BY <2>1, <3>2 DEF KeyValInit
  <2>2. CASE ~e
    <3>1. Of(<<"kvMgmt">>) = <<t>> /\ t \in Tokens \ {Cookies, Listed}
      BY DEF Of, At, Tokens, Names, Cookies, Listed
    <3>2. \A g \in W : g \cup {t} \in A
      BY KeyValAdded DEF WholeStates, ExtraNames
    <3> HIDE DEF A, W, t
    <3>3. Does(S, k, Each("try", <<t>>), W, A, A)
      BY <1>1, <3>1, <3>2, TryOne
    <3> QED BY <2>2, <3>1, <3>3 DEF KeyValInit
  <2> QED BY <2>1, <2>2
<1> HIDE DEF S, A, W
<1>4. Does(S, k, StoragePollSetup(n) \o KeyValInit(e), W, A, A)
  BY <1>2, <1>3, DoesBoth
<1>5. Does(S, k, StoragePollSetup(n) \o KeyValInit(e), {h}, A, A)
  BY <1>1, <1>4, DoesMore
<1> QED BY <1>5 DEF S, A

(* Each name is given back after all that is made from it.                 *)
InOrder(m, h, names) ==
  \A i \in 1..Len(names) : \A n \in Names, q \in Nat :
    <<n, q>> \in h /\ <<names[i], 0>> \in MadeFrom(<<n, q>>) =>
      <<n, q>> \in Left(m) \/ \E j \in 1..(i - 1) : n = names[j]

(* Resources of no queue are given back in an order in which no user is    *)
(* left.                                                                   *)
LEMMA PutsCommon ==
  ASSUME NEW m, NEW d, NEW h \in Safe(m, d), Proper(h), NEW N \in SUBSET (CommonNames \ {"queueList", "cookies"}),
         NEW names \in Seq(N), \A n \in N : \E i \in 1..Len(names) : n = names[i],
         \A i, j \in 1..Len(names) : i # j => names[i] # names[j],
         InOrder(m, h, names), NEW do \in {"put", "drop"}, do = "put" => Zero(N) \subseteq h
  PROVE  /\ Unwinds(Safe(m, d), Each(do, Of(names)), h, {h \ Zero(N)})
         /\ h \ Zero(N) \in Safe(m, d)
<1> DEFINE ts == Of(names)
<1>1. /\ Len(ts) = Len(names) /\ Len(names) \in Nat
      /\ \A i \in 1..Len(names) : ts[i] = <<names[i], 0>> /\ names[i] \in N
  <2>1. At(0, names) \in Seq(Named(0, N)) /\ Len(At(0, names)) = Len(names)
        /\ \A i \in 1..Len(names) : At(0, names)[i] = <<names[i], 0>>
    BY AtIs
  <2> QED BY <2>1 DEF Of
<1>2. ts \in Seq(Tokens)
  <2>1. ts \in Seq(Named(0, N))
    BY AtIs DEF Of
  <2>2. Named(0, N) \subseteq Tokens
    BY CommonTokens DEF Named
  <2> HIDE DEF ts
  <2> QED BY <2>1, <2>2
<1> HIDE DEF ts
<1>3. Elems(ts) = Zero(N)
  <2>1. Elems(ts) = {ts[i] : i \in 1..Len(names)}
    BY <1>1 DEF Elems, Taken
  <2>2. ASSUME NEW t \in Elems(ts) PROVE t \in Zero(N)
    <3>1. PICK i \in 1..Len(names) : t = ts[i]
      BY <2>1
    <3>2. t = <<names[i], 0>> /\ names[i] \in N
      BY <3>1, <1>1
    <3> QED BY <3>2 DEF Zero
  <2>3. \A t \in Zero(N) : t \in Elems(ts)
    <3>1. ASSUME NEW n \in N PROVE <<n, 0>> \in Elems(ts)
      <4>1. PICK i \in 1..Len(names) : n = names[i]
        OBVIOUS
      <4> QED BY <4>1, <2>1, <1>1
    <3> QED BY <3>1 DEF Zero
  <2> QED BY <2>2, <2>3
<1>4. ASSUME NEW i \in 1..Len(ts)
      PROVE  /\ ts[i] # QueueList
             /\ \A t \in h \ Left(m) : ts[i] \in MadeFrom(t) => t \in Taken(ts, i - 1)
             /\ ts[i] = Cookies => m \/ d \/ Listed \notin h \/ Listed \in Taken(ts, i - 1)
             /\ do = "put" => ts[i] \in h \ Taken(ts, i - 1)
  <2>1. ts[i] = <<names[i], 0>> /\ names[i] \in N /\ i \in 1..Len(names)
    BY <1>1
  <2>2. ts[i] # QueueList /\ ts[i] # Cookies
    BY <2>1 DEF QueueList, Cookies
  <2>3. ASSUME NEW t \in h \ Left(m), ts[i] \in MadeFrom(t) PROVE t \in Taken(ts, i - 1)
    <3>1. PICK n \in Names, q \in Nat : t = <<n, q>>
      BY DEF Safe, Tokens
    <3>2. PICK j \in 1..(i - 1) : n = names[j]
      BY <2>1, <2>3, <3>1 DEF InOrder
    <3>3. j \in 1..Len(names) /\ n \in CommonNames
      BY <1>1, <2>1, <3>2
    <3>4. t = ts[j]
      BY <1>1, <3>1, <3>2, <3>3 DEF Proper
    <3> QED BY <3>4 DEF Taken
  <2>4. ts[i] \notin Taken(ts, i - 1)
    <3>1. ASSUME NEW j \in 1..(i - 1) PROVE ts[j] # ts[i]
      <4>1. j \in 1..Len(names) /\ j # i
        BY <1>1
      <4>2. names[j] # names[i]
        BY <2>1, <4>1
      <4> QED BY <1>1, <2>1, <4>1, <4>2
    <3> QED BY <3>1 DEF Taken
  <2>5. do = "put" => ts[i] \in h
    BY <2>1 DEF Zero
  <2> QED BY <2>2, <2>3, <2>4, <2>5
<1>5. /\ Unwinds(Safe(m, d), Each(do, ts), h, {h \ Elems(ts)})
      /\ h \ Elems(ts) \in Safe(m, d)
  BY <1>2, <1>4, SafePuts
<1> QED BY <1>3, <1>5 DEF ts

(* Of fewer resources.                                                     *)
LEMMA ProperLess ==
  ASSUME NEW h, Proper(h), NEW g, g \subseteq h
  PROVE  Proper(g)
BY DEF Proper

(* No handler of a queue is there while no IO queue is.                    *)
LEMMA QuietHandlers ==
  ASSUME NEW m, NEW d, NEW h \in AttachedStates(m, d), Quiet(h), NEW n \in QueueNames, NEW q \in Nat,
         <<n, q>> \in h
  PROVE  n = "exists" \/ (q = 0 /\ n \notin {"counted", "pollHandler"})
<1>1. q \in 0..MaxIoQueues
  BY AttachedProper
<1>2. CASE q > 0
  <2>1. q \in IoQueues /\ <<n, q>> \in OfQueue(q)
    BY <1>1, <1>2, MaxIoQueuesAssumption DEF IoQueues, OfQueue
  <2> QED BY <2>1 DEF Quiet, QuietQueue
<1>3. CASE q = 0
  <2>1. AdminQueueOk(m, h)
    BY AttachedFacts DEF Attached
  <2> QED BY <2>1, <1>3 DEF AdminQueueOk, Named
<1> QED BY <1>1, <1>2, <1>3

(* The adapter and the controller come and go while no IO queue is there.  *)
LEMMA StageOne ==
  ASSUME NEW m, NEW d, NEW h \in AttachedStates(m, d), NEW g \in Safe(m, d), Quiet(h),
         g \ Upper = h \ Upper,
         \/ g \cap Upper = {}
         \/ Zero(AdapterNames) \subseteq g /\ g \cap Zero(CtrlNames \cup ExtraNames) = {}
         \/ Zero(AdapterNames \cup CtrlNames) \subseteq g
  PROVE  g \in AttachedStates(m, d)
<1>1. Quiet(g)
  <2>1. \A q : OfQueue(q) \cap Upper = {}
    <3>1. AdapterNames \cup CtrlNames \cup ExtraNames \subseteq CommonNames
      BY DEF CommonNames
    <3> QED BY <3>1, NamesApart DEF OfQueue, Upper, Zero
  <2>2. \A q : g \cap OfQueue(q) = h \cap OfQueue(q)
    BY <2>1
  <2> QED BY <2>2 DEF Quiet, QuietQueue
<1>2. Stage(g)
  BY <1>1 DEF Stage, Upper
<1> QED BY <1>2, SwapUpper

(* scanDevice takes the adapter and the device or nothing.                 *)
LEMMA Scanned ==
  ASSUME NEW m, NEW d, NEW h \in AttachedStates(m, d), <<"device", 0>> \notin h, NEW k
  PROVE  Does(Safe(m, d), k, ScanDevice, {h}, AttachedStates(m, d), AttachedStates(m, d))
<1> DEFINE S == Safe(m, d)
           A == AttachedStates(m, d)
           e == <<"IODmaEngine", 0>>
           a == <<"adapter", 0>>
           t == <<"device", 0>>
           ts == <<e, a>>
           h2 == h \cup {e, a}
           h3 == h2 \cup {t}
           p1 == Chain(Of(<<"IODmaEngine", "adapter">>))
           p2 == AskOnce \o AskOnce
           p3 == AskOnce \o Chain(Of(<<"device">>))
           u == Each("put", Of(<<"adapter", "IODmaEngine">>))
<1>1. /\ h \in S /\ h \cap Upper = {} /\ Quiet(h) /\ <<"ctrlr", 0>> \in h /\ Listed \in h
      /\ {e, a, t} \subseteq Upper
  <2>1. {e, a, t} \subseteq Upper
    BY DEF Upper, Zero, AdapterNames
  <2> QED BY <2>1, StageFacts, AttachedFacts
<1>2. /\ ts \in Seq(Tokens) /\ Len(ts) = 2 /\ ts[1] = e /\ ts[2] = a /\ t \in Tokens /\ e # a
      /\ {e, a, t} \cap {Cookies, Listed, QueueList} = {}
      /\ Elems(ts) = {e, a}
      /\ Of(<<"IODmaEngine", "adapter">>) = ts /\ Of(<<"device">>) = <<t>>
  <2>1. {e, a, t} \subseteq Tokens /\ {e, a, t} \cap {Cookies, Listed, QueueList} = {} /\ e # a
    BY DEF Tokens, Names, Cookies, Listed, QueueList
  <2>2. Of(<<"IODmaEngine", "adapter">>) = ts /\ Of(<<"device">>) = <<t>>
    BY DEF Of, At
  <2> HIDE DEF e, a, t
  <2>3. ts \in Seq(Tokens) /\ Len(ts) = 2 /\ ts[1] = e /\ ts[2] = a
    BY <2>1
  <2>4. Elems(ts) = {e, a}
    BY <2>3 DEF Elems, Taken
  <2> QED BY <2>1, <2>2, <2>3, <2>4
<1>3. Stacked(S, h, ts)
  <2>1. MadeFrom(e) = {} /\ MadeFrom(a) = {e, <<"ctrlr", 0>>}
    BY MadeOfCommon DEF Zero
  <2> HIDE DEF e, a, t, ts
  <2>2. /\ \A i, j \in 1..Len(ts) : i # j => ts[i] # ts[j]
        /\ \A i \in 1..Len(ts) :
             /\ ts[i] \notin h \cup {Cookies, Listed, QueueList}
             /\ \A b \in MadeFrom(ts[i]) : b \in h \/ \E j \in 1..(i - 1) : b = ts[j]
    <3>1. \A i \in 1..Len(ts) : i = 1 \/ i = 2
      BY <1>2
    <3>2. \A b \in MadeFrom(ts[2]) : b \in h \/ b = ts[1]
      BY <2>1, <1>1, <1>2
    <3>3. \A b \in MadeFrom(ts[2]) : b \in h \/ \E j \in 1..(2 - 1) : b = ts[j]
      BY <3>2
    <3>4. e \notin h /\ a \notin h
      BY <1>1
    <3>5. \A i, j \in 1..Len(ts) : i # j => ts[i] # ts[j]
      BY <1>2, <3>1
    <3>6. \A i \in 1..Len(ts) : ts[i] \notin h \cup {Cookies, Listed, QueueList}
      BY <1>1, <1>2, <3>1, <3>4
    <3>7. ASSUME NEW i \in 1..Len(ts)
          PROVE  \A b \in MadeFrom(ts[i]) : b \in h \/ \E j \in 1..(i - 1) : b = ts[j]
      <4>1. CASE i = 1  BY <2>1, <1>2, <4>1
      <4>2. CASE i = 2  BY <3>3, <4>2
      <4> QED BY <3>1, <4>1, <4>2
    <3> QED BY <3>5, <3>6, <3>7
  <2> QED BY <2>2, <1>1, <1>2, SafeStacked
<1>4. Does(S, {}, p1, {h}, {h2}, {h})
  BY <1>2, <1>3, ChainDoes
<1>5. Unwinds(S, u, h2, {h}) /\ u \in Seq(Undos)
  <2>1. Unwinds(S, Each("put", Reverse(ts)), h \cup Elems(ts), {h})
    BY <1>3, StackUnwinds
  <2>2. Reverse(Of(<<"IODmaEngine", "adapter">>)) = Of(<<"adapter", "IODmaEngine">>)
    BY ReverseTwo DEF Of
  <2> QED BY <1>2, <2>1, <2>2 DEF Unwinds
<1>6. h2 \in S /\ h3 \in S
  <2>1. Taken(ts, 2) = {e, a} /\ 2 \in 0..Len(ts)
    BY <1>2 DEF Elems
  <2>2. h2 \in S
    BY <2>1, <1>3 DEF Stacked
  <2>3. MadeFrom(t) \subseteq h2
    BY <1>1, MadeOfCommon DEF Zero, Listed
  <2> QED BY <1>2, <2>2, <2>3, SafeAdd
<1>7. h3 \in A /\ {h} \subseteq A
  <2>1. h3 \ Upper = h \ Upper
    BY <1>1
  <2>2. Zero(AdapterNames) \subseteq h3
    BY DEF Zero, AdapterNames
  <2>3. h3 \cap Zero(CtrlNames \cup ExtraNames) = {}
    <3>1. Zero(CtrlNames \cup ExtraNames) \subseteq Upper /\ {e, a, t} \cap Zero(CtrlNames \cup ExtraNames) = {}
      BY DEF Zero, Upper, CtrlNames, ExtraNames
    <3> QED BY <1>1, <3>1
  <2> HIDE DEF h3
  <2>4. h3 \in A
    BY <1>1, <1>6, <2>1, <2>2, <2>3, StageOne
  <2> QED BY <2>4
<1> HIDE DEF e, a, t, ts, h2, h3, p1, u, S, A
<1>8. Does(S, {}, p2, {h2}, {h2}, {h2}) /\ Does(S, {}, p3, {h2}, {h3}, {h2})
  <2>1. Does(S, {}, AskOnce, {h2}, {h2}, {h2})
    BY <1>6, AskDoes DEF AskOnce
  <2>2. Does(S, {}, p2, {h2}, {h2}, {h2})
    BY <2>1, DoesBoth
  <2>3. h2 \cup {t} \in S /\ t \in Tokens \ {Cookies, Listed}
    BY <1>2, <1>6 DEF h3
  <2>4. Does(S, {}, Chain(<<t>>), {h2}, {h2 \cup {t}}, {h2})
    BY <1>6, <2>3, ChainOne
  <2>5. Does(S, {}, AskOnce \o Chain(<<t>>), {h2}, {h2 \cup {t}}, {h2})
    BY <2>1, <2>4, DoesBoth
  <2> QED BY <2>2, <2>5, <1>2 DEF h3
<1> HIDE DEF p2, p3
<1> DEFINE O == {}
           G == {h}
<1>9. "tries" \notin O /\ O \subseteq k /\ G \subseteq A
  BY <1>7
<1> HIDE DEF O
<1>10. Does(S, O, p1 \o Within(p2, u), {h}, {h2}, {h})
  BY <1>4, <1>5, <1>8, <1>9, Takes DEF O
<1>11. Does(S, O, (p1 \o Within(p2, u)) \o Within(p3, u), {h}, {h3}, {h})
  BY <1>5, <1>8, <1>9, <1>10, Takes DEF O
<1>12. ScanDevice = (p1 \o Within(p2, u)) \o Within(p3, u)
  BY DEF ScanDevice, AdapterInit, AdapterDestroy, p1, p2, p3, u
<1> HIDE DEF G
<1>13. Does(S, O, ScanDevice, {h}, {h3}, G)
  BY <1>11, <1>12 DEF G
<1> DEFINE H == {h3}
<1>14. H \subseteq A
  BY <1>7
<1> HIDE DEF H
<1>15. Does(S, k, ScanDevice, {h}, A, A)
  BY <1>9, <1>13, <1>14, DoesMore DEF H
<1> QED BY <1>15 DEF S, A

(* An order of one name.                                                   *)
LEMMA OrderOne ==
  ASSUME NEW m, NEW h, NEW n0, \A n \in Names, q \in Nat : <<n0, 0>> \in MadeFrom(<<n, q>>) => <<n, q>> \notin h \ Left(m)
  PROVE  InOrder(m, h, <<n0>>)
BY DEF InOrder

(* An order of two names.                                                  *)
LEMMA OrderTwo ==
  ASSUME NEW m, NEW h, NEW a, NEW b,
         \A n \in Names, q \in Nat : <<a, 0>> \in MadeFrom(<<n, q>>) => <<n, q>> \notin h \ Left(m),
         \A n \in Names, q \in Nat :
           <<b, 0>> \in MadeFrom(<<n, q>>) => <<n, q>> \notin h \ Left(m) \/ n = a
  PROVE  InOrder(m, h, <<a, b>>)
<1> DEFINE names == <<a, b>>
<1>1. Len(names) = 2 /\ names[1] = a /\ names[2] = b
  OBVIOUS
<1>2. \A i \in 1..Len(names) : i = 1 \/ i = 2
  BY <1>1
<1> HIDE DEF names
<1>3. ASSUME NEW i \in 1..Len(names), NEW n \in Names, NEW q \in Nat,
             <<n, q>> \in h, <<names[i], 0>> \in MadeFrom(<<n, q>>)
      PROVE  <<n, q>> \in Left(m) \/ \E j \in 1..(i - 1) : n = names[j]
  <2>1. CASE i = 1
    BY <2>1, <1>1, <1>3
  <2>2. CASE i = 2
    <3>1. <<n, q>> \in Left(m) \/ n = names[1]
      BY <2>2, <1>1, <1>3
    <3> QED BY <3>1, <2>2
  <2> QED BY <1>2, <2>1, <2>2
<1>4. InOrder(m, h, names)
  BY <1>3 DEF InOrder
<1> QED BY <1>4 DEF names

(* What is made from the adapter's and the controller's resources.         *)
LEMMA UserNames ==
  ASSUME NEW n \in Names, NEW q \in Nat
  PROVE  /\ <<n, q>> \in Tokens /\ <<n, q>>[1] = n
         /\ <<"IODmaEngine", 0>> \in MadeFrom(<<n, q>>) => n = "adapter"
         /\ <<"adapter", 0>> \in MadeFrom(<<n, q>>) => n \in {"device", "controller", "kvMgmt", "pollHandler"}
         /\ <<"device", 0>> \notin MadeFrom(<<n, q>>)
         /\ <<"controller", 0>> \in MadeFrom(<<n, q>>) => n \in {"registered", "timer", "kvMgmt"}
         /\ <<"registered", 0>> \notin MadeFrom(<<n, q>>)
         /\ <<"timerQueue", 0>> \in MadeFrom(<<n, q>>) => n = "timer"
         /\ <<"timer", 0>> \notin MadeFrom(<<n, q>>)
         /\ <<"kvMgmt", 0>> \notin MadeFrom(<<n, q>>)
<1>1. <<n, q>> \in Tokens /\ <<n, q>>[1] = n
  BY DEF Tokens
<1> DEFINE t == <<n, q>>
<1> HIDE DEF t
<1>2. t \in Tokens /\ t[1] = n
  BY <1>1 DEF t
<1>3. /\ <<"IODmaEngine", 0>> \in MadeFrom(t) => n = "adapter"
      /\ <<"adapter", 0>> \in MadeFrom(t) => n \in {"device", "controller", "kvMgmt", "pollHandler"}
      /\ <<"device", 0>> \notin MadeFrom(t)
      /\ <<"controller", 0>> \in MadeFrom(t) => n \in {"registered", "timer", "kvMgmt"}
      /\ <<"registered", 0>> \notin MadeFrom(t)
      /\ <<"timerQueue", 0>> \in MadeFrom(t) => n = "timer"
      /\ <<"timer", 0>> \notin MadeFrom(t)
      /\ <<"kvMgmt", 0>> \notin MadeFrom(t)
  BY <1>2, UsersOf
<1> QED BY <1>1, <1>3 DEF t

(* removeDevice.                                                           *)
LEMMA RemovedDoes ==
  ASSUME NEW m, NEW d, NEW h \in AttachedStates(m, d), <<"device", 0>> \in h, <<"controller", 0>> \notin h,
         NEW k
  PROVE  Does(Safe(m, d), k, RemoveDevice, {h}, AttachedStates(m, d), AttachedStates(m, d))
<1> DEFINE S == Safe(m, d)
           A == AttachedStates(m, d)
           N == {"adapter", "IODmaEngine"}
           h1 == h \ Zero({"device"})
           h2 == h1 \ Zero(N)
           p1 == Each("put", Of(<<"device">>))
           p2 == Each("put", Of(<<"adapter", "IODmaEngine">>))
<1>1. /\ h \in S /\ Zero(AdapterNames) \subseteq h /\ h \cap Zero(CtrlNames \cup ExtraNames) = {}
      /\ Quiet(h) /\ Proper(h) /\ h1 \subseteq h /\ Proper(h1) /\ "put" \in {"put", "drop"}
  <2>1. Zero(AdapterNames) \subseteq h /\ h \cap Zero(CtrlNames \cup ExtraNames) = {} /\ Quiet(h)
    BY StageFacts
  <2>2. h \in S
    BY AttachedFacts
  <2>3. Proper(h)
    BY AttachedProper
  <2>4. h1 \subseteq h
    OBVIOUS
  <2>5. Proper(h1)
    BY <2>3, <2>4, ProperLess
  <2> QED BY <2>1, <2>2, <2>3, <2>4, <2>5
<1>2. \A n \in CtrlNames \cup ExtraNames, q \in Nat : <<n, q>> \notin h
  <2>1. CtrlNames \cup ExtraNames \subseteq CommonNames
    BY DEF CommonNames
  <2>2. ASSUME NEW n \in CtrlNames \cup ExtraNames, NEW q \in Nat, <<n, q>> \in h PROVE FALSE
    <3>1. n \in CommonNames
      BY <2>1
    <3>2. q = 0
      BY <2>2, <3>1, <1>1 DEF Proper
    <3>3. <<n, 0>> \in Zero(CtrlNames \cup ExtraNames)
      BY DEF Zero
    <3> QED BY <1>1, <2>2, <3>2, <3>3
  <2> QED BY <2>2
<1>3. \A q \in Nat : <<"pollHandler", q>> \notin h
  BY <1>1, QuietHandlers DEF QueueNames
<1>4. \A q \in Nat : <<"device", q>> \notin h1
  BY <1>1 DEF Proper, Zero, CommonNames, AdapterNames
<1>5. Unwinds(S, p1, h, {h1}) /\ h1 \in S
  <2> DEFINE D == {"device"}
             names == <<"device">>
  <2>1. /\ D \in SUBSET (CommonNames \ {"queueList", "cookies"}) /\ names \in Seq(D)
        /\ Len(names) = 1 /\ names[1] = "device"
    BY DEF CommonNames, AdapterNames
  <2>2. InOrder(m, h, names)
    BY UserNames, OrderOne
  <2>3. Zero(D) \subseteq h
    BY <1>1 DEF Zero, AdapterNames
  <2>4. /\ \A n \in D : \E i \in 1..Len(names) : n = names[i]
        /\ \A i, j \in 1..Len(names) : i # j => names[i] # names[j]
    BY <2>1
  <2> HIDE DEF D, names
  <2>5. Unwinds(S, Each("put", Of(names)), h, {h \ Zero(D)}) /\ h \ Zero(D) \in S
    BY <1>1, <2>1, <2>2, <2>3, <2>4, PutsCommon
  <2> QED BY <2>5 DEF D, names
<1>6. Unwinds(S, p2, h1, {h2}) /\ h2 \in S
  <2> DEFINE names == <<"adapter", "IODmaEngine">>
  <2>1. /\ N \in SUBSET (CommonNames \ {"queueList", "cookies"}) /\ names \in Seq(N)
        /\ Len(names) = 2 /\ names[1] = "adapter" /\ names[2] = "IODmaEngine"
    BY DEF CommonNames, AdapterNames
  <2>2. InOrder(m, h1, names)
    <3>1. ASSUME NEW n \in Names, NEW q \in Nat, <<"adapter", 0>> \in MadeFrom(<<n, q>>)
          PROVE  <<n, q>> \notin h1
      <4>1. n \in {"device", "controller", "kvMgmt", "pollHandler"}
        BY <3>1, UserNames
      <4>2. {"controller", "kvMgmt"} \subseteq CtrlNames \cup ExtraNames
        BY DEF CtrlNames, ExtraNames
      <4> HIDE DEF h1
      <4> QED BY <1>1, <1>2, <1>3, <1>4, <4>1, <4>2
    <3>2. ASSUME NEW n \in Names, NEW q \in Nat, <<"IODmaEngine", 0>> \in MadeFrom(<<n, q>>)
          PROVE  n = "adapter"
      BY <3>2, UserNames
    <3> HIDE DEF h1
    <3> QED BY <3>1, <3>2, OrderTwo
  <2>3. Zero(N) \subseteq h1
    BY <1>1 DEF Zero, AdapterNames
  <2>4. /\ \A n \in N : \E i \in 1..Len(names) : n = names[i]
        /\ \A i, j \in 1..Len(names) : i # j => names[i] # names[j]
    <3>1. \A i \in 1..Len(names) : i = 1 \/ i = 2
      BY <2>1
    <3>2. 1 \in 1..Len(names) /\ 2 \in 1..Len(names)
      BY <2>1
    <3> HIDE DEF names
    <3> QED BY <2>1, <3>1, <3>2
  <2> HIDE DEF N, names, h1
  <2>5. Unwinds(S, Each("put", Of(names)), h1, {h1 \ Zero(N)}) /\ h1 \ Zero(N) \in S
    BY <1>1, <1>5, <2>1, <2>2, <2>3, <2>4, PutsCommon
  <2> QED BY <2>5 DEF names
<1>7. h2 \in A
  <2>1. h2 = h \ Zero(AdapterNames)
    BY DEF Zero, AdapterNames
  <2>2. Zero(AdapterNames) \subseteq Upper /\ Upper = Zero(AdapterNames) \cup Zero(CtrlNames \cup ExtraNames)
    BY DEF Upper, Zero
  <2>3. h2 \ Upper = h \ Upper /\ h2 \cap Upper = {}
    BY <1>1, <2>1, <2>2
  <2> HIDE DEF h2
  <2> QED BY <1>1, <1>6, <2>3, StageOne
<1> DEFINE G == {h2}
<1>8. G \subseteq A
  BY <1>7
<1>9. RemoveDevice = p1 \o p2
  BY DEF RemoveDevice, AdapterDestroy
<1> HIDE DEF h1, h2, p1, p2, S, A, G
<1>10. Unwinds(S, p1 \o p2, h, G)
  BY <1>5, <1>6, UnwindsTwo DEF G
<1>11. Unwinds(S, p1 \o p2, h, A)
  BY <1>8, <1>10, UnwindsMore
<1> QED BY <1>9, <1>11, UnwindsDoes DEF Unwinds, S, A

(* The controllers that the kernel knows.                                  *)
KnownStates(m, d) == {h \in AttachedStates(m, d) : <<"registered", 0>> \in h}

(* The timer is created if its queue is there.                             *)
LEMMA TimerTried ==
  ASSUME NEW m, NEW d, NEW k, "tries" \in k, NEW F
  PROVE  Does(Safe(m, d), k, <<[Step("try", <<"timer", 0>>) EXCEPT !.if = {<<"timerQueue", 0>>}]>>,
              KnownStates(m, d), KnownStates(m, d), F)
<1> DEFINE t == <<"timer", 0>>
           i == {<<"timerQueue", 0>>}
           s == [Step("try", t) EXCEPT !.if = i]
           K == KnownStates(m, d)
<1>1. t \in Tokens \ {Cookies, Listed} /\ i \in SUBSET Tokens
  BY DEF Tokens, Names, Cookies, Listed
<1>2. \A h \in K : i \subseteq h => h \cup {t} \in K
  <2>1. ASSUME NEW h \in K, i \subseteq h PROVE h \cup {t} \in K
    <3>1. h \in AttachedStates(m, d) /\ <<"registered", 0>> \in h /\ <<"timerQueue", 0>> \in h
          /\ "timer" \in ExtraNames
      BY <2>1 DEF KnownStates, ExtraNames
    <3>2. h \cup {t} \in AttachedStates(m, d)
      BY <3>1, KeyValAdded
    <3> QED BY <3>1, <3>2 DEF KnownStates
  <2> QED BY <2>1
<1>3. K \subseteq Safe(m, d)
  BY DEF KnownStates, AttachedStates, Settled
<1> HIDE DEF t, i, K
<1>4. /\ s \in StepRec /\ s.do = "try" /\ s.token = t /\ s.undo = <<>> /\ s.if = i
  <2>1. s = [do |-> "try", token |-> t, undo |-> <<>>, if |-> i, want |-> 0]
    BY DEF Step
  <2>2. "try" \in Dos /\ <<>> \in Seq(Undos) /\ 0 \in Int
    BY DEF Dos
  <2> QED BY <1>1, <2>1, <2>2 DEF StepRec
<1> HIDE DEF s
<1>5. Tries(Safe(m, d), s, K, K)
  <2>1. ASSUME NEW h \in K PROVE Unwinds(Safe(m, d), <<>>, h, K)
    <3>1. h \in Safe(m, d)
      BY <1>3
    <3> QED BY <3>1, NothingUndone
  <2> QED BY <1>2, <1>4, <2>1 DEF Tries
<1>6. s.token \notin {Cookies, Listed}
  BY <1>1, <1>4
<1>7. Does(Safe(m, d), k, <<s>>, K, K, F)
  BY <1>3, <1>4, <1>5, <1>6, TryDoes
<1> QED BY <1>7 DEF s, t, i, K

(* ControllerInit takes the controller or nothing; its timer may be        *)
(* missing.                                                                *)
LEMMA StartedDoes ==
  ASSUME NEW m, NEW d, NEW h \in AttachedStates(m, d), <<"device", 0>> \in h, <<"controller", 0>> \notin h,
         NEW k, "tries" \in k
  PROVE  Does(Safe(m, d), k, ControllerInit, {h}, AttachedStates(m, d), AttachedStates(m, d))
<1> DEFINE S == Safe(m, d)
           A == AttachedStates(m, d)
           K == KnownStates(m, d)
           c == <<"controller", 0>>
           r == <<"registered", 0>>
           t == <<"timerQueue", 0>>
           ts == <<c, r>>
           h2 == h \cup {c, r}
           p1 == Chain(Of(<<"controller", "registered">>))
           p2 == Each("try", Of(<<"timerQueue">>))
           p3 == <<[Step("try", <<"timer", 0>>) EXCEPT !.if = {<<"timerQueue", 0>>}]>>
<1>1. /\ h \in S /\ Zero(AdapterNames) \subseteq h /\ h \cap Zero(CtrlNames \cup ExtraNames) = {}
      /\ Quiet(h)
  BY StageFacts, AttachedFacts
<1>2. /\ c \notin h /\ r \notin h /\ <<"adapter", 0>> \in h /\ {c, r} \subseteq Upper
      /\ Zero(AdapterNames \cup CtrlNames) \subseteq h2
  BY <1>1 DEF Zero, AdapterNames, CtrlNames, Upper
<1>3. /\ ts \in Seq(Tokens) /\ Len(ts) = 2 /\ ts[1] = c /\ ts[2] = r /\ c # r
      /\ {c, r} \cap {Cookies, Listed, QueueList} = {}
      /\ Elems(ts) = {c, r} /\ t \in Tokens \ {Cookies, Listed}
      /\ Of(<<"controller", "registered">>) = ts /\ Of(<<"timerQueue">>) = <<t>>
  <2>1. {c, r, t} \subseteq Tokens /\ {c, r, t} \cap {Cookies, Listed, QueueList} = {} /\ c # r
    BY DEF Tokens, Names, Cookies, Listed, QueueList
  <2>2. Of(<<"controller", "registered">>) = ts /\ Of(<<"timerQueue">>) = <<t>>
    BY DEF Of, At
  <2> HIDE DEF c, r, t
  <2>3. ts \in Seq(Tokens) /\ Len(ts) = 2 /\ ts[1] = c /\ ts[2] = r
    BY <2>1
  <2>4. Elems(ts) = {c, r}
    BY <2>3 DEF Elems, Taken
  <2> QED BY <2>1, <2>2, <2>3, <2>4
<1>4. Stacked(S, h, ts)
  <2>1. MadeFrom(c) = {<<"adapter", 0>>} /\ MadeFrom(r) = {c}
    BY MadeOfCommon DEF Zero
  <2> HIDE DEF c, r, ts
  <2>2. /\ \A i, j \in 1..Len(ts) : i # j => ts[i] # ts[j]
        /\ \A i \in 1..Len(ts) :
             /\ ts[i] \notin h \cup {Cookies, Listed, QueueList}
             /\ \A b \in MadeFrom(ts[i]) : b \in h \/ \E j \in 1..(i - 1) : b = ts[j]
    <3>1. \A i \in 1..Len(ts) : i = 1 \/ i = 2
      BY <1>3
    <3>2. \A b \in MadeFrom(ts[2]) : b = ts[1]
      BY <2>1, <1>3
    <3>3. \A b \in MadeFrom(ts[2]) : b \in h \/ \E j \in 1..(2 - 1) : b = ts[j]
      BY <3>2
    <3>4. \A b \in MadeFrom(ts[1]) : b \in h
      BY <2>1, <1>2, <1>3
    <3>5. c \notin h /\ r \notin h
      BY <1>2
    <3>6. \A i, j \in 1..Len(ts) : i # j => ts[i] # ts[j]
      BY <1>3, <3>1
    <3>7. \A i \in 1..Len(ts) : ts[i] \notin h \cup {Cookies, Listed, QueueList}
      BY <1>2, <1>3, <3>1, <3>5
    <3>8. ASSUME NEW i \in 1..Len(ts)
          PROVE  \A b \in MadeFrom(ts[i]) : b \in h \/ \E j \in 1..(i - 1) : b = ts[j]
      <4>1. CASE i = 1  BY <3>4, <4>1
      <4>2. CASE i = 2  BY <3>3, <4>2
      <4> QED BY <3>1, <4>1, <4>2
    <3> QED BY <3>6, <3>7, <3>8
  <2> QED BY <2>2, <1>1, <1>3, SafeStacked
<1>5. Does(S, k, p1, {h}, {h2}, {h})
  BY <1>3, <1>4, ChainDoes
<1>6. h2 \in S
  <2>1. Taken(ts, 2) = {c, r} /\ 2 \in 0..Len(ts)
    BY <1>3 DEF Elems
  <2> QED BY <2>1, <1>4 DEF Stacked
<1>7. h2 \in K
  <2>1. h2 \ Upper = h \ Upper /\ r \in h2
    BY <1>2
  <2> HIDE DEF h2
  <2>2. h2 \in A
    BY <1>1, <1>2, <1>6, <2>1, StageOne
  <2> QED BY <2>1, <2>2 DEF KnownStates
<1>8. K \subseteq A /\ K \subseteq S
  BY DEF KnownStates, AttachedStates, Settled
<1>9. Does(S, k, p2, K, K, A)
  <2>1. \A g \in K : g \cup {t} \in K
    <3>1. ASSUME NEW g \in K PROVE g \cup {t} \in K
      <4>1. g \in A /\ r \in g /\ "timerQueue" \in ExtraNames
        BY DEF KnownStates, ExtraNames
      <4>2. g \cup {t} \in A
        BY <4>1, KeyValAdded
      <4> QED BY <4>1, <4>2 DEF KnownStates
    <3> QED BY <3>1
  <2> HIDE DEF K, t
  <2>2. K \subseteq K
    OBVIOUS
  <2> QED BY <1>3, <1>8, <2>1, <2>2, TryOne
<1>10. Does(S, k, p3, K, K, A)
  BY TimerTried
<1>11. ControllerInit = (p1 \o p2) \o p3
  BY DEF ControllerInit
<1> DEFINE G == {h}
           H == {h2}
<1>12. G \subseteq A /\ H \subseteq K
  BY <1>7
<1> HIDE DEF G, H, K, A, S, h2, p1, p2, p3
<1>13. Does(S, k, p1, G, K, A)
  BY <1>5, <1>12, DoesMore DEF G, H
<1>14. Does(S, k, p1 \o p2, G, K, A)
  BY <1>9, <1>13, DoesBoth
<1>15. Does(S, k, (p1 \o p2) \o p3, G, K, A)
  BY <1>10, <1>14, DoesBoth
<1>16. Does(S, k, ControllerInit, G, A, A)
  BY <1>8, <1>11, <1>15, DoesMore
<1> QED BY <1>16 DEF S, A, G

(* ControllerDestroy of a controller whose IO queues are gone.             *)
LEMMA StoppedDoes ==
  ASSUME NEW m, NEW d, NEW h \in AttachedStates(m, d), <<"registered", 0>> \in h, Quiet(h), NEW k
  PROVE  Does(Safe(m, d), k, ControllerDestroy, {h}, AttachedStates(m, d), AttachedStates(m, d))
<1> DEFINE S == Safe(m, d)
           A == AttachedStates(m, d)
           h1 == h \ Zero(ExtraNames)
           h2 == h1 \ Zero(CtrlNames)
           p1 == Each("drop", Of(<<"kvMgmt", "timer", "timerQueue">>))
           p2 == Each("put", Of(<<"registered", "controller">>))
<1>1. /\ h \in S /\ Zero(AdapterNames \cup CtrlNames) \subseteq h
      /\ Proper(h) /\ h1 \subseteq h /\ Proper(h1)
      /\ "put" \in {"put", "drop"} /\ "drop" \in {"put", "drop"} /\ "drop" # "put"
  BY StageFacts, AttachedFacts, AttachedProper, ProperLess
<1>2. Unwinds(S, p1, h, {h1}) /\ h1 \in S
  <2> DEFINE names == <<"kvMgmt", "timer", "timerQueue">>
  <2>1. /\ ExtraNames \in SUBSET (CommonNames \ {"queueList", "cookies"}) /\ names \in Seq(ExtraNames)
        /\ Len(names) = 3 /\ names[1] = "kvMgmt" /\ names[2] = "timer" /\ names[3] = "timerQueue"
    BY DEF CommonNames, ExtraNames
  <2>2. /\ \A i \in 1..Len(names) : i = 1 \/ i = 2 \/ i = 3
        /\ 1 \in 1..Len(names) /\ 2 \in 1..Len(names) /\ 3 \in 1..Len(names)
    BY <2>1
  <2> HIDE DEF names
  <2>3. InOrder(m, h, names)
    <3>1. ASSUME NEW i \in 1..Len(names), NEW n \in Names, NEW q \in Nat,
                 <<n, q>> \in h, <<names[i], 0>> \in MadeFrom(<<n, q>>)
          PROVE  \E j \in 1..(i - 1) : n = names[j]
      <4>1. i = 3 /\ n = names[2]
        BY <2>1, <2>2, <3>1, UserNames
      <4> QED BY <4>1
    <3> QED BY <3>1 DEF InOrder
  <2>4. /\ \A n \in ExtraNames : \E i \in 1..Len(names) : n = names[i]
        /\ \A i, j \in 1..Len(names) : i # j => names[i] # names[j]
    BY <2>1, <2>2 DEF ExtraNames
  <2>5. Unwinds(S, Each("drop", Of(names)), h, {h \ Zero(ExtraNames)}) /\ h \ Zero(ExtraNames) \in S
    BY <1>1, <2>1, <2>3, <2>4, PutsCommon
  <2> QED BY <2>5 DEF names
<1>3. Unwinds(S, p2, h1, {h2}) /\ h2 \in S
  <2> DEFINE names == <<"registered", "controller">>
  <2>1. /\ CtrlNames \in SUBSET (CommonNames \ {"queueList", "cookies"}) /\ names \in Seq(CtrlNames)
        /\ Len(names) = 2 /\ names[1] = "registered" /\ names[2] = "controller"
    BY DEF CommonNames, CtrlNames
  <2>2. /\ \A i \in 1..Len(names) : i = 1 \/ i = 2
        /\ 1 \in 1..Len(names) /\ 2 \in 1..Len(names)
    BY <2>1
  <2> HIDE DEF names
  <2>3. InOrder(m, h1, names)
    <3>1. ASSUME NEW i \in 1..Len(names), NEW n \in Names, NEW q \in Nat,
                 <<n, q>> \in h1, <<names[i], 0>> \in MadeFrom(<<n, q>>)
          PROVE  \E j \in 1..(i - 1) : n = names[j]
      <4>1. i = 2 /\ n \in {"registered", "timer", "kvMgmt"}
        BY <2>1, <2>2, <3>1, UserNames
      <4>2. n \in CommonNames
        BY <4>1 DEF CommonNames, CtrlNames, ExtraNames
      <4>3. q = 0
        BY <1>1, <3>1, <4>2 DEF Proper
      <4>4. n \notin ExtraNames
        BY <3>1, <4>3 DEF Zero
      <4>5. n = "registered"
        BY <4>1, <4>4 DEF ExtraNames
      <4> QED BY <4>1, <4>5, <2>1
    <3> QED BY <3>1 DEF InOrder
  <2>4. /\ \A n \in CtrlNames : \E i \in 1..Len(names) : n = names[i]
        /\ \A i, j \in 1..Len(names) : i # j => names[i] # names[j]
    BY <2>1, <2>2 DEF CtrlNames
  <2>5. Zero(CtrlNames) \subseteq h1
    BY <1>1 DEF Zero, CtrlNames, ExtraNames
  <2> HIDE DEF h1
  <2>6. Unwinds(S, Each("put", Of(names)), h1, {h1 \ Zero(CtrlNames)}) /\ h1 \ Zero(CtrlNames) \in S
    BY <1>1, <1>2, <2>1, <2>3, <2>4, <2>5, PutsCommon
  <2> QED BY <2>6 DEF names
<1>4. h2 \in A
  <2>1. h2 \ Upper = h \ Upper
    BY DEF Zero, Upper
  <2>2. Zero(AdapterNames) \subseteq h2
    BY <1>1 DEF Zero, AdapterNames, CtrlNames, ExtraNames
  <2>3. h2 \cap Zero(CtrlNames \cup ExtraNames) = {}
    BY DEF Zero
  <2> HIDE DEF h2
  <2> QED BY <1>1, <1>3, <2>1, <2>2, <2>3, StageOne
<1> DEFINE G == {h2}
<1>5. G \subseteq A
  BY <1>4
<1>6. ControllerDestroy = p1 \o p2
  BY DEF ControllerDestroy
<1> HIDE DEF h1, h2, p1, p2, S, A, G
<1>7. Unwinds(S, p1 \o p2, h, G)
  BY <1>2, <1>3, UnwindsTwo DEF G
<1>8. Unwinds(S, p1 \o p2, h, A)
  BY <1>5, <1>7, UnwindsMore
<1> QED BY <1>6, <1>8, UnwindsDoes DEF Unwinds, S, A

-----------------------------------------------------------------------------
(* The module and the device.                                              *)

(* Two returns, one after the other.                                       *)
LEMMA EachTwo ==
  ASSUME NEW do, NEW a, NEW b
  PROVE  Each(do, Of(<<a, b>>)) = Each(do, Of(<<a>>)) \o Each(do, Of(<<b>>))
<1>1. Of(<<a, b>>) = <<<<a, 0>>, <<b, 0>>>> /\ Of(<<a>>) = <<<<a, 0>>>> /\ Of(<<b>>) = <<<<b, 0>>>>
  BY DEF Of, At
<1> DEFINE s == Step(do, <<a, 0>>)
           t == Step(do, <<b, 0>>)
<1>2. /\ Each(do, <<<<a, 0>>, <<b, 0>>>>) = <<s, t>>
      /\ Each(do, <<<<a, 0>>>>) = <<s>> /\ Each(do, <<<<b, 0>>>>) = <<t>>
  <2> HIDE DEF s, t
  <2>1. Each(do, <<<<a, 0>>, <<b, 0>>>>) = <<s, t>>
    BY DEF Each, s, t
  <2>2. Each(do, <<<<a, 0>>>>) = <<s>> /\ Each(do, <<<<b, 0>>>>) = <<t>>
    BY DEF Each, s, t
  <2> QED BY <2>1, <2>2
<1> HIDE DEF s, t
<1>3. <<s>> \o <<t>> = <<s, t>>
  <2> DEFINE V == {s, t}
             y == <<s>> \o <<t>>
             z == <<s, t>>
  <2>1. <<s>> \in Seq(V) /\ <<t>> \in Seq(V) /\ z \in Seq(V) /\ Len(z) = 2 /\ z[1] = s /\ z[2] = t
    OBVIOUS
  <2>2. Len(<<s>>) = 1 /\ Len(<<t>>) = 1 /\ <<s>>[1] = s /\ <<t>>[1] = t
    OBVIOUS
  <2>3. y \in Seq(V) /\ Len(y) = 2 /\ y[1] = s /\ y[2] = t
    BY <2>1, <2>2
  <2> HIDE DEF y, z, V
  <2>4. \A i \in 1..Len(y) : y[i] = z[i]
    <3>1. \A i \in 1..2 : i = 1 \/ i = 2
      OBVIOUS
    <3> QED BY <2>1, <2>3, <3>1
  <2>5. y = z
    BY <2>1, <2>3, <2>4
  <2> QED BY <2>5 DEF y, z
<1> QED BY <1>1, <1>2, <1>3

(* What is left behind.                                                    *)
LEMMA LeftFacts ==
  ASSUME NEW m
  PROVE  /\ Left(m) \subseteq Zero(CommonNames) /\ Left(m) \subseteq Tokens /\ Listed \notin Left(m)
         /\ <<"mgmt", 0>> \in Left(m) /\ <<"bar", 0>> \in Left(m)
         /\ m => {Handler, Cookies, Array} \subseteq Left(m)
         /\ ~m => {Handler, Cookies, Array} \cap Left(m) = {}
<1>1. Left(m) \subseteq Zero(CommonNames)
  BY DEF Left, Zero, CommonNames, ModuleNames, DeviceNames
<1>2. Zero(CommonNames) \subseteq Tokens
  BY NamesApart
<1>3. Listed \notin Left(m)
  BY DEF Left, Listed
<1>4. <<"mgmt", 0>> \in Left(m) /\ <<"bar", 0>> \in Left(m)
  BY DEF Left
<1>5. m => {Handler, Cookies, Array} \subseteq Left(m)
  BY DEF Left, Handler, Cookies, Array
<1>6. ~m => {Handler, Cookies, Array} \cap Left(m) = {}
  BY DEF Left, Handler, Cookies, Array
<1> QED BY <1>1, <1>2, <1>3, <1>4, <1>5, <1>6

(* What is left behind refers to nothing that matters.                     *)
LEMMA LowIsSafe ==
  ASSUME NEW m, NEW d, NEW h, h \subseteq Left(m)
  PROVE  h \in Safe(m, d)
BY LeftFacts DEF Safe, Closed

(* What init_module takes first.                                           *)
BaseNames == <<"heap", "log", "memPool", "lock">>
BaseSet == {"heap", "log", "memPool", "lock"}

(* The order in which init_module takes what needs no cleanup of its own.  *)
LEMMA BaseStacked ==
  ASSUME NEW m, NEW d, NEW b, b \subseteq Left(m)
  PROVE  /\ Stacked(Safe(m, d), b, Of(BaseNames)) /\ Elems(Of(BaseNames)) = Zero(BaseSet)
         /\ b \cup Zero(BaseSet) \in Safe(m, d)
<1> DEFINE ts == Of(BaseNames)
           S == Safe(m, d)
<1>1. b \in S
  BY LowIsSafe
<1>2. /\ ts = <<<<"heap", 0>>, <<"log", 0>>, <<"memPool", 0>>, <<"lock", 0>>>>
  BY DEF Of, At, BaseNames
<1>3. /\ ts \in Seq(Tokens) /\ Len(ts) = 4
      /\ ts[1] = <<"heap", 0>> /\ ts[2] = <<"log", 0>> /\ ts[3] = <<"memPool", 0>> /\ ts[4] = <<"lock", 0>>
  <2>1. {<<"heap", 0>>, <<"log", 0>>, <<"memPool", 0>>, <<"lock", 0>>} \subseteq Tokens
    BY DEF Tokens, Names
  <2> HIDE DEF ts
  <2> QED BY <1>2, <2>1
<1>4. \A i \in 1..Len(ts) : i = 1 \/ i = 2 \/ i = 3 \/ i = 4
  BY <1>3
<1> HIDE DEF ts
<1>5. Elems(ts) = Zero(BaseSet)
  <2>0. 1..4 = {1, 2, 3, 4}
    OBVIOUS
  <2>1. Elems(ts) = {ts[1], ts[2], ts[3], ts[4]}
    <3>1. Elems(ts) = {ts[j] : j \in {1, 2, 3, 4}}
      BY <1>3, <2>0 DEF Elems, Taken
    <3> QED BY <3>1
  <2> QED BY <2>1, <1>3 DEF Zero, BaseSet
<1>6. \A i, j \in 1..Len(ts) : i # j => ts[i] # ts[j]
  BY <1>3, <1>4
<1>7. ASSUME NEW i \in 1..Len(ts)
      PROVE  /\ ts[i] \notin b \cup {Cookies, Listed, QueueList}
             /\ \A t \in MadeFrom(ts[i]) : t \in b \/ \E j \in 1..(i - 1) : t = ts[j]
  <2>1. ts[i] \notin Left(m)
    BY <1>3, <1>4 DEF Left
  <2>2. ts[i] \notin {Cookies, Listed, QueueList}
    BY <1>3, <1>4 DEF Cookies, Listed, QueueList
  <2>3. CASE i = 1
    <3>1. MadeFrom(ts[1]) = {}
      BY <1>3, MadeOfCommon
    <3> QED BY <2>1, <2>2, <2>3, <3>1
  <2>4. CASE i # 1
    <3>1. MadeFrom(ts[i]) = {ts[1]}
      <4>1. MadeFrom(ts[i]) = Zero({"heap"})
        BY <1>3, <1>4, <2>4, MadeOfCommon
      <4> QED BY <4>1, <1>3 DEF Zero
    <3>2. 1 \in 1..(i - 1)
      BY <1>4, <2>4
    <3> QED BY <2>1, <2>2, <3>1, <3>2
  <2> QED BY <2>3, <2>4
<1>8. Stacked(S, b, ts)
  <2> HIDE DEF S
  <2> QED BY <1>1, <1>3, <1>6, <1>7, SafeStacked DEF S
<1>9. b \cup Elems(ts) \in S
  <2>1. Len(ts) \in 0..Len(ts)
    BY <1>3
  <2> QED BY <1>8, <2>1 DEF Stacked, Elems
<1> QED BY <1>5, <1>8, <1>9 DEF ts

(* init_module takes the module's resources or nothing.                    *)
LEMMA LoadedDoes ==
  ASSUME NEW m, NEW d, NEW h \in Settled(m, d), Unloaded(m, h), NEW k
  PROVE  Does(Safe(m, d), k, InitModule, {h}, Settled(m, d), Settled(m, d))
<1> DEFINE S == Safe(m, d)
           T == Settled(m, d)
           M == <<"mgmt", 0>>
           D == <<"driver", 0>>
           B == Zero(BaseSet)
           b == h \cup B
           g == b \cup {M}
           e == g \cup {D}
           base == Of(BaseNames)
           p1 == Chain(base)
           p2 == Chain(Of(<<"mgmt">>)) \o AskOnce
           p3 == Chain(Of(<<"driver">>))
           u == Each("put", Reverse(base))
           v == Each("put", Of(<<"mgmt">>))
<1>1. /\ h \subseteq Left(m) /\ h \cup {M} \subseteq Left(m) /\ h \ {M} \subseteq Left(m)
      /\ Cookies \in h <=> Array \in h
  BY LeftFacts DEF Unloaded, Settled, Array
<1>2. /\ M \in Tokens /\ D \in Tokens /\ {M, D} \cap {Cookies, Listed, QueueList, Array} = {}
      /\ M \notin B /\ Of(<<"mgmt">>) = <<M>> /\ Of(<<"driver">>) = <<D>>
  BY DEF Tokens, Names, Cookies, Listed, QueueList, Array, Zero, BaseSet, Of, At
<1>3. /\ Stacked(S, h, base) /\ Stacked(S, h \cup {M}, base) /\ Stacked(S, h \ {M}, base)
      /\ Elems(base) = B /\ h \cup B \in S /\ (h \cup {M}) \cup B \in S /\ (h \ {M}) \cup B \in S
  BY <1>1, BaseStacked
<1>4. /\ g = (h \cup {M}) \cup B /\ g \ {M} = (h \ {M}) \cup B
  BY <1>2
<1> HIDE DEF B, base, M, D
<1>5. /\ Unwinds(S, u, b, {h}) /\ Unwinds(S, u, g, {h \cup {M}}) /\ Unwinds(S, u, g \ {M}, {h \ {M}})
      /\ b \in S /\ g \in S /\ g \ {M} \in S
  <2> DEFINE h1 == h \cup {M}
             h2 == h \ {M}
  <2>0. \A f : Stacked(S, f, base) /\ f \cup B \in S => Unwinds(S, u, f \cup B, {f})
    <3> SUFFICES ASSUME NEW f, Stacked(S, f, base) PROVE Unwinds(S, u, f \cup B, {f})
      OBVIOUS
    <3>1. Unwinds(S, Each("put", Reverse(base)), f \cup Elems(base), {f})
      <4> HIDE DEF S
      <4> QED BY StackUnwinds
    <3> QED BY <3>1, <1>3
  <2>1. Unwinds(S, u, b, {h})
    BY <1>3, <2>0
  <2>2. Unwinds(S, u, h1 \cup B, {h1})
    BY <1>3, <2>0
  <2>3. Unwinds(S, u, h2 \cup B, {h2})
    BY <1>3, <2>0
  <2> QED BY <1>3, <1>4, <2>1, <2>2, <2>3
<1>6. Does(S, {}, p1, {h}, {b}, {h})
  BY <1>3, ChainDoes
<1>7. h \in T /\ h \cup {M} \in T /\ h \ {M} \in T
  <2>1. (Cookies \in h \cup {M} <=> Array \in h \cup {M}) /\ (Cookies \in h \ {M} <=> Array \in h \ {M})
    BY <1>1, <1>2
  <2>2. h \cup {M} \in S /\ h \ {M} \in S
    BY <1>1, LowIsSafe
  <2> QED BY <1>1, <2>1, <2>2 DEF Settled, Unloaded, Array
<1> HIDE DEF T, S, u, b
<1>8. Does(S, {}, p2, {b}, {g}, {b, g})
  <2>1. M \in Tokens \ {Cookies, Listed} /\ g = b \cup {M}
    BY <1>2
  <2> HIDE DEF g
  <2>2. Does(S, {}, Chain(<<M>>), {b}, {g}, {b})
    BY <1>5, <2>1, ChainOne
  <2>3. Does(S, {}, AskOnce, {g}, {g}, {g})
    BY <1>5, AskDoes DEF AskOnce
  <2> DEFINE F == {b, g}
             X == {b}
             Y == {g}
  <2>4. X \subseteq F /\ Y \subseteq F
    OBVIOUS
  <2> HIDE DEF F, X, Y
  <2>5. Does(S, {}, Chain(<<M>>), X, Y, F)
    BY <2>2, <2>4, DoesMore DEF X, Y
  <2>6. Does(S, {}, AskOnce, Y, Y, F)
    BY <2>3, <2>4, DoesMore DEF Y
  <2>7. Does(S, {}, Chain(<<M>>) \o AskOnce, X, Y, F)
    BY <2>5, <2>6, DoesBoth
  <2> QED BY <2>7, <1>2 DEF X, Y, F
<1>9. Does(S, {}, p3, {g}, {e}, {g}) /\ e \in S
  <2>1. MadeFrom(D) \subseteq g
    <3>1. MadeFrom(D) = Zero({"heap", "log", "memPool", "lock", "mgmt"})
      BY MadeOfCommon DEF D
    <3> QED BY <3>1 DEF Zero, B, b, M, BaseSet
  <2>2. D \in Tokens \ {Cookies, Listed} /\ D # Listed
    BY <1>2
  <2> HIDE DEF g
  <2>3. e \in S
    BY <1>5, <2>1, <2>2, SafeAdd DEF S
  <2>4. Does(S, {}, Chain(<<D>>), {g}, {e}, {g})
    BY <1>5, <2>2, <2>3, ChainOne
  <2> QED BY <2>3, <2>4, <1>2
<1>10. Unwinds(S, v \o u, g, T)
  <2>1. M \in Tokens \ {QueueList} /\ "put" \in {"put", "drop"} /\ M \in g
    BY <1>2
  <2> HIDE DEF g
  <2>2. Unwinds(S, Each("put", <<M>>), g, {g \ {M}})
    BY <1>5, <2>1, DropOne
  <2> DEFINE X == {h \ {M}}
  <2>3. X \subseteq T
    BY <1>7
  <2> HIDE DEF X
  <2>4. Unwinds(S, u, g \ {M}, X)
    BY <1>5 DEF X
  <2>5. Unwinds(S, u, g \ {M}, T)
    BY <2>3, <2>4, UnwindsMore
  <2>6. Unwinds(S, v, g, {g \ {M}})
    BY <2>2, <1>2
  <2> HIDE DEF v
  <2> QED BY <2>5, <2>6, UnwindsTwo
<1>11. \A f \in {b, g} : Unwinds(S, u, f, T)
  <2> DEFINE X == {h}
             Y == {h \cup {M}}
  <2>1. X \subseteq T /\ Y \subseteq T
    BY <1>7
  <2> HIDE DEF X, Y, g
  <2>2. Unwinds(S, u, b, X) /\ Unwinds(S, u, g, Y)
    BY <1>5 DEF X, Y
  <2>3. Unwinds(S, u, b, T) /\ Unwinds(S, u, g, T)
    BY <2>1, <2>2, UnwindsMore
  <2> QED BY <2>3
<1>12. u \in Seq(Undos) /\ v \o u \in Seq(Undos)
  BY <1>5, <1>10 DEF Unwinds
<1>13. e \in T
  <2>1. Zero(ModuleNames) = B \cup {M, D}
    BY DEF Zero, ModuleNames, BaseSet, B, M, D
  <2>2. Cookies \in e <=> Array \in e
    <3>1. Cookies \notin B /\ Array \notin B
      BY DEF Cookies, Array, B, Zero, BaseSet
    <3> QED BY <3>1, <1>1, <1>2 DEF b
  <2>3. Zero(ModuleNames) \subseteq e /\ e \subseteq Zero(ModuleNames) \cup Left(m)
    BY <2>1, <1>1 DEF b
  <2> QED BY <1>9, <2>2, <2>3 DEF T, S, Settled, Detached, Array
<1>14. InitModule = (p1 \o Within(p2, u)) \o Within(p3, v \o u)
  BY DEF InitModule, GlobalKeyValInit, BaseNames, base, u
<1> DEFINE O == {}
           H == {h}
           E == {e}
<1>15. "tries" \notin O /\ O \subseteq k /\ H \subseteq T /\ E \subseteq T
  BY <1>7, <1>13
<1> DEFINE F == {b, g}
           G == {g}
           P == {b}
<1>16. /\ Does(S, O, p1, H, P, H) /\ Does(S, O, p2, P, G, F) /\ Does(S, O, p3, G, E, G)
       /\ \A f \in F : Unwinds(S, u, f, T)
       /\ \A f \in G : Unwinds(S, v \o u, f, T)
  BY <1>6, <1>8, <1>9, <1>10, <1>11
<1> HIDE DEF O, H, E, F, G, P, p1, p2, p3, v
<1>17. Does(S, O, p1, H, P, T)
  BY <1>15, <1>16, DoesMore
<1>18. Does(S, O, p1 \o Within(p2, u), H, G, T)
  BY <1>12, <1>15, <1>16, <1>17, ThenWithin
<1>19. Does(S, O, (p1 \o Within(p2, u)) \o Within(p3, v \o u), H, E, T)
  BY <1>12, <1>15, <1>16, <1>18, ThenWithin
<1>20. Does(S, k, InitModule, H, T, T)
  BY <1>14, <1>15, <1>19, DoesMore
<1> QED BY <1>20 DEF S, T, H

(* What is made from the resources of the lowest levels.                   *)
LEMMA LowUsers ==
  ASSUME NEW n \in Names, NEW q \in Nat
  PROVE  /\ <<n, q>> \in Tokens
         /\ <<"heap", 0>> \in MadeFrom(<<n, q>>) =>
              n \in {"log", "memPool", "lock", "mgmt", "ctrlr", "driver"}
         /\ \A a \in {"log", "lock", "mgmt"} : <<a, 0>> \in MadeFrom(<<n, q>>) => n = "driver"
         /\ <<"memPool", 0>> \in MadeFrom(<<n, q>>) => n \in {"driver", "cqPages", "sqPages"}
         /\ <<"driver", 0>> \notin MadeFrom(<<n, q>>)
         /\ <<"ctrlr", 0>> \in MadeFrom(<<n, q>>) =>
              n \in {"dmaEngine", "lockDomain", "queueList", "intrArray", "listed", "adapter", "kvMgmt"}
         /\ <<"dmaEngine", 0>> \in MadeFrom(<<n, q>>) => n \in {"sgHandle", "cqSgOut", "sqSgOut"}
         /\ <<"sgHandle", 0>> \in MadeFrom(<<n, q>>) =>
              n \in {"cqSgIn", "sqSgIn", "cqSgOut", "sqSgOut"}
         /\ <<"lockDomain", 0>> \in MadeFrom(<<n, q>>) => n \in {"cqLock", "sqLock", "cmdLock"}
         /\ <<"queueList", 0>> \in MadeFrom(<<n, q>>) => n \in {"exists", "listed", "timer"}
         /\ <<"bar", 0>> \in MadeFrom(<<n, q>>) => n \in {"listed", "active"}
         /\ <<"listed", 0>> \in MadeFrom(<<n, q>>) => n = "device"
<1> DEFINE t == <<n, q>>
<1>1. t \in Tokens /\ t[1] = n
  BY DEF Tokens
<1> HIDE DEF t
<1>2. /\ <<"heap", 0>> \in MadeFrom(t) => n \in {"log", "memPool", "lock", "mgmt", "ctrlr", "driver"}
      /\ <<"log", 0>> \in MadeFrom(t) => n = "driver"
      /\ <<"lock", 0>> \in MadeFrom(t) => n = "driver"
      /\ <<"mgmt", 0>> \in MadeFrom(t) => n = "driver"
      /\ <<"memPool", 0>> \in MadeFrom(t) => n \in {"driver", "cqPages", "sqPages"}
      /\ <<"driver", 0>> \notin MadeFrom(t)
      /\ <<"ctrlr", 0>> \in MadeFrom(t) =>
           n \in {"dmaEngine", "lockDomain", "queueList", "intrArray", "listed", "adapter", "kvMgmt"}
      /\ <<"dmaEngine", 0>> \in MadeFrom(t) => n \in {"sgHandle", "cqSgOut", "sqSgOut"}
      /\ <<"sgHandle", 0>> \in MadeFrom(t) => n \in {"cqSgIn", "sqSgIn", "cqSgOut", "sqSgOut"}
      /\ <<"lockDomain", 0>> \in MadeFrom(t) => n \in {"cqLock", "sqLock", "cmdLock"}
      /\ <<"queueList", 0>> \in MadeFrom(t) => n \in {"exists", "listed", "timer"}
      /\ <<"bar", 0>> \in MadeFrom(t) => n \in {"listed", "active"}
      /\ <<"listed", 0>> \in MadeFrom(t) => n = "device"
  BY <1>1, UsersOf
<1>3. \A a \in {"log", "lock", "mgmt"} : <<a, 0>> \in MadeFrom(t) => n = "driver"
  BY <1>2
<1> QED BY <1>1, <1>2, <1>3 DEF t

(* The levels of attachDevice and detachDevice, without admin queue: N of  *)
(* the names are held.                                                     *)
Ex == {<<"exists", q>> : q \in Nat}
Low(m, N, h) ==
  /\ Zero(ModuleNames \cup N) \subseteq h
  /\ h \subseteq Zero(ModuleNames \cup N) \cup Left(m) \cup (IF "queueList" \in N THEN Ex ELSE {})
  /\ Cookies \in h <=> Array \in h
Lvl(m, d, N) == {h \in Safe(m, d) : Low(m, N, h)}
LowNames == {"ctrlr", "bar", "dmaEngine", "sgHandle", "lockDomain", "queueList"}
LeftNames == {"bar", "mgmt", "msiHandler", "cookies", "intrArray"}

(* What is held at the levels of attachDevice.                             *)
LEMMA LowHolds ==
  ASSUME NEW m, NEW d, NEW N \in SUBSET LowNames, NEW h \in Lvl(m, d, N)
  PROVE  /\ \A n \in Names, q \in Nat :
              <<n, q>> \in h => \/ n \in ModuleNames \cup N
                                \/ n \in LeftNames /\ <<n, q>> \in Left(m)
                                \/ n = "exists" /\ "queueList" \in N
         /\ Proper(h) /\ h \in Safe(m, d) /\ h \subseteq Tokens
         /\ Listed \notin h
         /\ \A n \in QueueNames, q \in Nat : <<n, q>> \in h => n = "exists"
<1>1. h \in Safe(m, d) /\ h \subseteq Tokens
  BY DEF Lvl, Safe
<1>2. ASSUME NEW n \in Names, NEW q \in Nat, <<n, q>> \in h
      PROVE  \/ n \in ModuleNames \cup N /\ q = 0
             \/ n \in LeftNames /\ <<n, q>> \in Left(m) /\ q = 0
             \/ n = "exists" /\ "queueList" \in N
  <2>1. CASE <<n, q>> \in Zero(ModuleNames \cup N)
    BY <2>1 DEF Zero
  <2>2. CASE <<n, q>> \in Left(m)
    BY <2>2 DEF Left, LeftNames
  <2>3. CASE <<n, q>> \in Ex /\ "queueList" \in N
    BY <2>3 DEF Ex
  <2> QED BY <1>2, <2>1, <2>2, <2>3 DEF Lvl, Low
<1>3. ModuleNames \cup N \subseteq CommonNames /\ LeftNames \subseteq CommonNames
  BY DEF CommonNames, LowNames, DeviceNames, LeftNames, ModuleNames
<1>4. CommonNames \cap QueueNames = {} /\ "exists" \in QueueNames /\ QueueNames \subseteq Names
  BY NamesApart, QueueNamesAre DEF QueueNames
<1>5. CommonNames \subseteq Names
  BY DEF CommonNames, Names, ModuleNames, DeviceNames, AdapterNames, CtrlNames, ExtraNames
<1>6. Proper(h)
  <2> SUFFICES ASSUME NEW n \in CommonNames, NEW q \in Nat, <<n, q>> \in h PROVE q = 0
    BY DEF Proper
  <2> QED BY <1>2, <1>4, <1>5
<1>7. \A n \in QueueNames, q \in Nat : <<n, q>> \in h => n = "exists"
  BY <1>2, <1>3, <1>4
<1>8. Listed \notin h
  <2>1. "listed" \in Names /\ "listed" \notin ModuleNames \cup N /\ "listed" \notin LeftNames /\ "listed" # "exists"
    BY DEF Names, ModuleNames, LowNames, LeftNames
  <2> QED BY <2>1, <1>2 DEF Listed
<1> QED BY <1>1, <1>2, <1>6, <1>7, <1>8

(* A label gives back the names of P. *)
LEMMA LowPut ==
  ASSUME NEW m, NEW d, NEW N \in SUBSET LowNames, NEW P \in SUBSET (LowNames \ {"queueList"}),
         N \cap P = {}, "queueList" \notin N, NEW names \in Seq(P),
         \A n \in P : \E i \in 1..Len(names) : n = names[i],
         \A i, j \in 1..Len(names) : i # j => names[i] # names[j],
         NEW h \in Lvl(m, d, N \cup P), InOrder(m, h, names)
  PROVE  Unwinds(Safe(m, d), Each("put", Of(names)), h, Lvl(m, d, N))
<1>1. N \cup P \in SUBSET LowNames /\ "put" \in {"put", "drop"} /\ "queueList" \notin N \cup P
  OBVIOUS
<1>2. Proper(h) /\ h \in Safe(m, d)
  BY <1>1, LowHolds
<1>3. P \in SUBSET (CommonNames \ {"queueList", "cookies"})
  BY DEF CommonNames, LowNames, DeviceNames
<1>4. Zero(P) \subseteq h
  BY DEF Lvl, Low, Zero
<1>5. /\ Unwinds(Safe(m, d), Each("put", Of(names)), h, {h \ Zero(P)})
      /\ h \ Zero(P) \in Safe(m, d)
  BY <1>1, <1>2, <1>3, <1>4, PutsCommon
<1>6. Low(m, N, h \ Zero(P))
  <2>1. Zero(ModuleNames \cup N) \subseteq h \ Zero(P)
    <3>1. ModuleNames \cap P = {}
      BY DEF ModuleNames, LowNames
    <3> QED BY <3>1 DEF Lvl, Low, Zero
  <2>2. h \ Zero(P) \subseteq Zero(ModuleNames \cup N) \cup Left(m)
    BY <1>1 DEF Lvl, Low, Zero
  <2>3. Cookies \notin Zero(P) /\ Array \notin Zero(P)
    BY DEF Zero, Cookies, Array, LowNames
  <2> QED BY <2>1, <2>2, <2>3 DEF Lvl, Low
<1> DEFINE X == {h \ Zero(P)}
<1>7. X \subseteq Lvl(m, d, N)
  BY <1>5, <1>6 DEF Lvl
<1> HIDE DEF X
<1>8. Unwinds(Safe(m, d), Each("put", Of(names)), h, X)
  BY <1>5 DEF X
<1> QED BY <1>7, <1>8, UnwindsMore

(* The levels, in the order of attachDevice.                               *)
L1 == {"ctrlr"}
L2 == {"ctrlr", "bar"}
L3 == {"ctrlr", "bar", "dmaEngine", "sgHandle"}
L4 == {"ctrlr", "bar", "dmaEngine", "sgHandle", "lockDomain"}
L5 == LowNames

(* The levels of attachDevice, by name.                                    *)
LEMMA LevelNames ==
  /\ {} \in SUBSET LowNames /\ L1 \in SUBSET LowNames /\ L2 \in SUBSET LowNames
  /\ L3 \in SUBSET LowNames /\ L4 \in SUBSET LowNames /\ L5 \in SUBSET LowNames
  /\ "queueList" \notin L4 /\ "queueList" \notin L3 /\ "queueList" \notin L2 /\ "queueList" \notin L1
BY DEF L1, L2, L3, L4, L5, LowNames

(* free_ctrlr.                                                             *)
LEMMA PutCtrlr ==
  ASSUME NEW m, NEW d, NEW h \in Lvl(m, d, L1)
  PROVE  Unwinds(Safe(m, d), Each("put", Of(<<"ctrlr">>)), h, Lvl(m, d, {}))
<1> DEFINE N == {}
           P == {"ctrlr"}
           names == <<"ctrlr">>
<1>1. /\ N \in SUBSET LowNames /\ P \in SUBSET (LowNames \ {"queueList"}) /\ N \cap P = {}
      /\ "queueList" \notin N /\ names \in Seq(P) /\ Len(names) = 1 /\ names[1] = "ctrlr"
      /\ N \cup P = L1
  BY DEF LowNames, L1
<1>2. /\ \A n \in P : \E i \in 1..Len(names) : n = names[i]
      /\ \A i, j \in 1..Len(names) : i # j => names[i] # names[j]
  BY <1>1
<1>3. InOrder(m, h, names)
  <2>1. ASSUME NEW n \in Names, NEW q \in Nat, <<"ctrlr", 0>> \in MadeFrom(<<n, q>>)
        PROVE  <<n, q>> \notin h \ Left(m)
    <3>1. n \in {"dmaEngine", "lockDomain", "queueList", "intrArray", "listed", "adapter", "kvMgmt"}
      BY <2>1, LowUsers
    <3>2. n \notin ModuleNames \cup L1 /\ n # "exists"
      BY <3>1 DEF ModuleNames, L1
    <3> QED BY <3>2, LevelNames, LowHolds
  <2> QED BY <2>1, OrderOne
<1> HIDE DEF N, P, names
<1>4. Unwinds(Safe(m, d), Each("put", Of(names)), h, Lvl(m, d, N))
  BY <1>1, <1>2, <1>3, LowPut
<1> QED BY <1>4 DEF N, names

(* cleanup_pci.                                                            *)
LEMMA PutBar ==
  ASSUME NEW m, NEW d, NEW h \in Lvl(m, d, L2)
  PROVE  Unwinds(Safe(m, d), PciCleanup, h, Lvl(m, d, L1))
<1> DEFINE N == L1
           P == {"bar"}
           names == <<"bar">>
<1>1. /\ N \in SUBSET LowNames /\ P \in SUBSET (LowNames \ {"queueList"}) /\ N \cap P = {}
      /\ "queueList" \notin N /\ names \in Seq(P) /\ Len(names) = 1 /\ names[1] = "bar"
      /\ N \cup P = L2
  BY DEF LowNames, L1, L2
<1>2. /\ \A n \in P : \E i \in 1..Len(names) : n = names[i]
      /\ \A i, j \in 1..Len(names) : i # j => names[i] # names[j]
  BY <1>1
<1>3. InOrder(m, h, names)
  <2>1. ASSUME NEW n \in Names, NEW q \in Nat, <<"bar", 0>> \in MadeFrom(<<n, q>>)
        PROVE  <<n, q>> \notin h \ Left(m)
    <3>1. n \in {"listed", "active"}
      BY <2>1, LowUsers
    <3>2. n \notin ModuleNames \cup L2 /\ n # "exists"
      BY <3>1 DEF ModuleNames, L2
    <3> QED BY <3>2, LevelNames, LowHolds
  <2> QED BY <2>1, OrderOne
<1> HIDE DEF N, P, names
<1>4. Unwinds(Safe(m, d), Each("put", Of(names)), h, Lvl(m, d, N))
  BY <1>1, <1>2, <1>3, LowPut
<1> QED BY <1>4 DEF N, names, PciCleanup

(* cleanup_dma.                                                            *)
LEMMA PutDma ==
  ASSUME NEW m, NEW d, NEW h \in Lvl(m, d, L3)
  PROVE  Unwinds(Safe(m, d), DmaCleanup, h, Lvl(m, d, L2))
<1> DEFINE N == L2
           P == {"sgHandle", "dmaEngine"}
           names == <<"sgHandle", "dmaEngine">>
<1>1. /\ N \in SUBSET LowNames /\ P \in SUBSET (LowNames \ {"queueList"}) /\ N \cap P = {}
      /\ "queueList" \notin N /\ names \in Seq(P) /\ Len(names) = 2 /\ names[1] = "sgHandle"
      /\ names[2] = "dmaEngine" /\ N \cup P = L3
  BY DEF LowNames, L2, L3
<1>2. /\ \A n \in P : \E i \in 1..Len(names) : n = names[i]
      /\ \A i, j \in 1..Len(names) : i # j => names[i] # names[j]
  <2>1. \A i \in 1..Len(names) : i = 1 \/ i = 2
    BY <1>1
  <2>2. 1 \in 1..Len(names) /\ 2 \in 1..Len(names)
    BY <1>1
  <2> HIDE DEF names
  <2> QED BY <1>1, <2>1, <2>2
<1>3. InOrder(m, h, names)
  <2>1. ASSUME NEW n \in Names, NEW q \in Nat, <<"sgHandle", 0>> \in MadeFrom(<<n, q>>)
        PROVE  <<n, q>> \notin h \ Left(m)
    <3>1. n \in {"cqSgIn", "sqSgIn", "cqSgOut", "sqSgOut"}
      BY <2>1, LowUsers
    <3>2. n \in QueueNames /\ n # "exists"
      BY <3>1 DEF QueueNames, BodyNames
    <3> QED BY <3>2, LevelNames, LowHolds
  <2>2. ASSUME NEW n \in Names, NEW q \in Nat, <<"dmaEngine", 0>> \in MadeFrom(<<n, q>>)
        PROVE  <<n, q>> \notin h \ Left(m) \/ n = "sgHandle"
    <3>1. n \in {"sgHandle", "cqSgOut", "sqSgOut"}
      BY <2>2, LowUsers
    <3>2. n = "sgHandle" \/ (n \in QueueNames /\ n # "exists")
      BY <3>1 DEF QueueNames, BodyNames
    <3> QED BY <3>2, LevelNames, LowHolds
  <2> QED BY <2>1, <2>2, OrderTwo
<1> HIDE DEF N, P, names
<1>4. Unwinds(Safe(m, d), Each("put", Of(names)), h, Lvl(m, d, N))
  BY <1>1, <1>2, <1>3, LowPut
<1> QED BY <1>4 DEF N, names, DmaCleanup

(* cleanup_lock_domain.                                                    *)
LEMMA PutDomain ==
  ASSUME NEW m, NEW d, NEW h \in Lvl(m, d, L4)
  PROVE  Unwinds(Safe(m, d), Each("put", Of(<<"lockDomain">>)), h, Lvl(m, d, L3))
<1> DEFINE N == L3
           P == {"lockDomain"}
           names == <<"lockDomain">>
<1>1. /\ N \in SUBSET LowNames /\ P \in SUBSET (LowNames \ {"queueList"}) /\ N \cap P = {}
      /\ "queueList" \notin N /\ names \in Seq(P) /\ Len(names) = 1 /\ names[1] = "lockDomain"
      /\ N \cup P = L4
  BY DEF LowNames, L3, L4
<1>2. /\ \A n \in P : \E i \in 1..Len(names) : n = names[i]
      /\ \A i, j \in 1..Len(names) : i # j => names[i] # names[j]
  BY <1>1
<1>3. InOrder(m, h, names)
  <2>1. ASSUME NEW n \in Names, NEW q \in Nat, <<"lockDomain", 0>> \in MadeFrom(<<n, q>>)
        PROVE  <<n, q>> \notin h \ Left(m)
    <3>1. n \in {"cqLock", "sqLock", "cmdLock"}
      BY <2>1, LowUsers
    <3>2. n \in QueueNames /\ n # "exists"
      BY <3>1 DEF QueueNames, BodyNames
    <3> QED BY <3>2, LevelNames, LowHolds
  <2> QED BY <2>1, OrderOne
<1> HIDE DEF N, P, names
<1>4. Unwinds(Safe(m, d), Each("put", Of(names)), h, Lvl(m, d, N))
  BY <1>1, <1>2, <1>3, LowPut
<1> QED BY <1>4 DEF N, names

(* The queue list takes the states of its queues with it.                  *)
LEMMA PutList ==
  ASSUME NEW m, NEW d, NEW h \in Lvl(m, d, L5)
  PROVE  Unwinds(Safe(m, d), Each("put", Of(<<"queueList">>)), h, Lvl(m, d, L4))
<1> DEFINE X == {QueueList} \cup {t \in h : t[1] = "exists"}
           g == h \ X
           ts == <<QueueList>>
           u == Each("put", ts)
<1>1. /\ h \in Safe(m, d) /\ h \subseteq Tokens /\ Listed \notin h
      /\ \A n \in QueueNames, q \in Nat : <<n, q>> \in h => n = "exists"
      /\ \A n \in Names, q \in Nat :
           <<n, q>> \in h => \/ n \in ModuleNames \cup L5
                             \/ n \in LeftNames /\ <<n, q>> \in Left(m)
                             \/ n = "exists" /\ "queueList" \in L5
  BY LevelNames, LowHolds
<1>2. ASSUME NEW t \in h \ X PROVE t \in Left(m) \/ MadeFrom(t) \cap X = {}
  <2>1. PICK n \in Names, q \in Nat : t = <<n, q>>
    BY <1>1 DEF Tokens
  <2>2. n # "exists" /\ n \notin QueueNames
    <3>1. n # "exists"
      BY <2>1
    <3> HIDE DEF X
    <3> QED BY <1>1, <2>1, <3>1
  <2>3. QueueList \notin MadeFrom(t)
    <3>1. QueueList \in MadeFrom(t) => n \in {"exists", "listed", "timer"}
      BY <2>1, LowUsers DEF QueueList
    <3>2. n \notin {"listed", "timer"}
      BY <1>1, <2>1, <2>2 DEF ModuleNames, L5, LowNames, LeftNames
    <3> QED BY <2>2, <3>1, <3>2
  <2>4. \A q1 \in Nat : <<"exists", q1>> \notin MadeFrom(t)
    <3> SUFFICES ASSUME NEW q1 \in Nat PROVE <<"exists", q1>> \notin MadeFrom(t)
      OBVIOUS
    <3>1. t \notin OfQueue(q1)
      BY <2>1, <2>2 DEF OfQueue
    <3>2. t \in Tokens
      BY <1>1
    <3>3. <<"exists", q1>> \in OfQueue(q1)
      BY DEF OfQueue, QueueNames
    <3> QED BY <3>1, <3>2, <3>3, QueueUsers
  <2>5. \A x \in X : x = QueueList \/ \E q1 \in Nat : x = <<"exists", q1>>
    BY <1>1 DEF Tokens
  <2> HIDE DEF X
  <2> QED BY <2>3, <2>4, <2>5
<1>3. Cookies \notin X
  BY DEF Cookies, QueueList
<1>4. g \in Safe(m, d)
  <2> HIDE DEF X
  <2> QED BY <1>1, <1>2, <1>3, SafeMinus
<1>5. Low(m, L4, g)
  <2>1. Zero(ModuleNames \cup L4) \subseteq g
    BY DEF Zero, Lvl, Low, L4, L5, LowNames, ModuleNames, QueueList
  <2>2. g \subseteq Zero(ModuleNames \cup L4) \cup Left(m)
    <3> SUFFICES ASSUME NEW t \in g PROVE t \in Zero(ModuleNames \cup L4) \cup Left(m)
      OBVIOUS
    <3>1. t \in Zero(ModuleNames \cup L5) \cup Left(m) \cup Ex
      BY DEF Lvl, Low
    <3>2. t # QueueList /\ t \notin Ex
      BY DEF Ex
    <3> QED BY <3>1, <3>2 DEF Zero, L5, L4, LowNames, QueueList
  <2>3. Cookies \in g <=> Array \in g
    BY DEF Lvl, Low, Cookies, Array, QueueList
  <2> HIDE DEF g
  <2> QED BY <2>1, <2>2, <2>3, LevelNames DEF Low
<1>6. /\ u \in Seq(Undos) /\ Len(u) = 1 /\ u[1].do = "put" /\ u[1].token = QueueList
  <2>1. ts \in Seq(Tokens) /\ Len(ts) = 1 /\ ts[1] = QueueList /\ "put" \in {"put", "drop"}
    BY CommonTokens
  <2> HIDE DEF ts
  <2> QED BY <2>1, PutsTyped
<1> HIDE DEF u
<1>7. Given(u, 0) = {} /\ Given(u, 1) = {QueueList}
  <2>1. 1..0 = {} /\ 1..1 = {1}
    OBVIOUS
  <2> QED BY <2>1, <1>6 DEF Given
<1>8. Without(h, {}) = h /\ Without(h, {QueueList}) = g
  BY DEF Without
<1>9. QueueList \in h
  BY DEF Lvl, Low, Zero, L5, LowNames, QueueList
<1> HIDE DEF g
<1>10. Unwinds(Safe(m, d), u, h, Lvl(m, d, L4))
  <2>1. \A i \in 1..Len(u) : i = 1
    BY <1>6
  <2>2. \A i \in 0..Len(u) : i = 0 \/ i = 1
    BY <1>6
  <2>3. g \in Lvl(m, d, L4)
    BY <1>4, <1>5 DEF Lvl
  <2>4. Len(u) = 1 /\ 1 - 1 = 0
    BY <1>6
  <2> QED BY <1>1, <1>4, <1>6, <1>7, <1>8, <1>9, <2>1, <2>2, <2>3, <2>4 DEF Unwinds
<1> QED BY <1>10 DEF u, ts, Of, At, QueueList

(* Below the first level, a module without a device.                       *)
LEMMA LowSettled ==
  ASSUME NEW m, NEW d, NEW h
  PROVE  h \in Lvl(m, d, {}) <=> h \in Settled(m, d) /\ Detached(m, h)
<1>1. ModuleNames \cup {} = ModuleNames /\ "queueList" \notin {}
  OBVIOUS
<1> QED BY <1>1 DEF Lvl, Low, Settled, Detached, Array

freeCtrlr == Each("put", Of(<<"ctrlr">>))
cleanupPci == PciCleanup \o freeCtrlr
cleanupDma == DmaCleanup \o cleanupPci
cleanupLockDomain == Each("put", Of(<<"lockDomain">>)) \o cleanupDma
freeQueueList == Each("put", Of(<<"queueList">>)) \o cleanupLockDomain

(* Labels after labels, from several states.                               *)
LEMMA UnwindsAll ==
  ASSUME NEW S, NEW u \in Seq(Undos), NEW v \in Seq(Undos), NEW P, NEW G, NEW F,
         \A h \in P : Unwinds(S, u, h, G), \A g \in G : Unwinds(S, v, g, F)
  PROVE  u \o v \in Seq(Undos) /\ \A h \in P : Unwinds(S, u \o v, h, F)
<1>1. u \o v \in Seq(Undos)
  OBVIOUS
<1>2. ASSUME NEW h \in P PROVE Unwinds(S, u \o v, h, F)
  <2>1. Unwinds(S, u, h, G)
    OBVIOUS
  <2> QED BY <2>1, UnwindsBoth
<1> QED BY <1>1, <1>2

(* The labels of attachDevice are labels.                                  *)
LEMMA LabelsTyped ==
  /\ Each("put", Of(<<"ctrlr">>)) \in Seq(Undos) /\ Each("put", Of(<<"lockDomain">>)) \in Seq(Undos)
  /\ Each("put", Of(<<"queueList">>)) \in Seq(Undos)
  /\ PciCleanup \in Seq(Undos) /\ DmaCleanup \in Seq(Undos)
<1>1. \A n \in LowNames : <<n, 0>> \in Tokens
  BY DEF LowNames, Tokens, Names
<1>2. /\ Of(<<"ctrlr">>) = <<<<"ctrlr", 0>>>> /\ Of(<<"lockDomain">>) = <<<<"lockDomain", 0>>>>
      /\ Of(<<"queueList">>) = <<<<"queueList", 0>>>> /\ Of(<<"bar">>) = <<<<"bar", 0>>>>
      /\ Of(<<"sgHandle", "dmaEngine">>) = <<<<"sgHandle", 0>>, <<"dmaEngine", 0>>>>
  BY DEF Of, At
<1>3. /\ Of(<<"ctrlr">>) \in Seq(Tokens) /\ Of(<<"lockDomain">>) \in Seq(Tokens)
      /\ Of(<<"queueList">>) \in Seq(Tokens) /\ Of(<<"bar">>) \in Seq(Tokens)
      /\ Of(<<"sgHandle", "dmaEngine">>) \in Seq(Tokens)
  <2>1. (\A x \in Tokens : <<x>> \in Seq(Tokens)) /\ \A x, y \in Tokens : <<x, y>> \in Seq(Tokens)
    OBVIOUS
  <2>2. /\ <<"ctrlr", 0>> \in Tokens /\ <<"lockDomain", 0>> \in Tokens /\ <<"queueList", 0>> \in Tokens
        /\ <<"bar", 0>> \in Tokens /\ <<"sgHandle", 0>> \in Tokens /\ <<"dmaEngine", 0>> \in Tokens
    BY <1>1 DEF LowNames
  <2> QED BY <1>2, <2>1, <2>2
<1>4. "put" \in {"put", "drop"}
  OBVIOUS
<1> QED BY <1>3, <1>4, PutsTyped DEF PciCleanup, DmaCleanup

(* The labels of attachDevice, each from the level that it is jumped to    *)
(* from.                                                                   *)
LEMMA Labels ==
  ASSUME NEW m, NEW d
  PROVE  /\ \A h \in Lvl(m, d, L1) : Unwinds(Safe(m, d), freeCtrlr, h, Lvl(m, d, {}))
         /\ \A h \in Lvl(m, d, L2) : Unwinds(Safe(m, d), cleanupPci, h, Lvl(m, d, {}))
         /\ \A h \in Lvl(m, d, L3) : Unwinds(Safe(m, d), cleanupDma, h, Lvl(m, d, {}))
         /\ \A h \in Lvl(m, d, L4) : Unwinds(Safe(m, d), cleanupLockDomain, h, Lvl(m, d, {}))
         /\ \A h \in Lvl(m, d, L5) : Unwinds(Safe(m, d), freeQueueList, h, Lvl(m, d, {}))
         /\ freeCtrlr \in Seq(Undos) /\ cleanupPci \in Seq(Undos) /\ cleanupDma \in Seq(Undos)
         /\ cleanupLockDomain \in Seq(Undos) /\ freeQueueList \in Seq(Undos)
<1> DEFINE u1 == Each("put", Of(<<"ctrlr">>))
           u3 == Each("put", Of(<<"lockDomain">>))
           u4 == Each("put", Of(<<"queueList">>))
           S == Safe(m, d)
           Z == Lvl(m, d, {})
<1>1. /\ u1 \in Seq(Undos) /\ u3 \in Seq(Undos) /\ u4 \in Seq(Undos)
      /\ PciCleanup \in Seq(Undos) /\ DmaCleanup \in Seq(Undos)
  BY LabelsTyped
<1>2. /\ \A h \in Lvl(m, d, L1) : Unwinds(S, u1, h, Z)
      /\ \A h \in Lvl(m, d, L2) : Unwinds(S, PciCleanup, h, Lvl(m, d, L1))
      /\ \A h \in Lvl(m, d, L3) : Unwinds(S, DmaCleanup, h, Lvl(m, d, L2))
      /\ \A h \in Lvl(m, d, L4) : Unwinds(S, u3, h, Lvl(m, d, L3))
      /\ \A h \in Lvl(m, d, L5) : Unwinds(S, u4, h, Lvl(m, d, L4))
  BY PutCtrlr, PutBar, PutDma, PutDomain, PutList
<1> HIDE DEF u1, u3, u4, S, Z
<1>3. /\ freeCtrlr = u1 /\ cleanupPci = PciCleanup \o freeCtrlr /\ cleanupDma = DmaCleanup \o cleanupPci
      /\ cleanupLockDomain = u3 \o cleanupDma /\ freeQueueList = u4 \o cleanupLockDomain
  BY DEF freeCtrlr, cleanupPci, cleanupDma, cleanupLockDomain, freeQueueList, u1, u3, u4
<1>4. /\ freeCtrlr \in Seq(Undos) /\ \A h \in Lvl(m, d, L1) : Unwinds(S, freeCtrlr, h, Z)
  BY <1>1, <1>2, <1>3
<1>5. /\ cleanupPci \in Seq(Undos) /\ \A h \in Lvl(m, d, L2) : Unwinds(S, cleanupPci, h, Z)
  BY <1>1, <1>2, <1>3, <1>4, UnwindsBoth
<1>6. /\ cleanupDma \in Seq(Undos) /\ \A h \in Lvl(m, d, L3) : Unwinds(S, cleanupDma, h, Z)
  BY <1>1, <1>2, <1>3, <1>5, UnwindsAll
<1>7. /\ cleanupLockDomain \in Seq(Undos) /\ \A h \in Lvl(m, d, L4) : Unwinds(S, cleanupLockDomain, h, Z)
  BY <1>1, <1>2, <1>3, <1>6, UnwindsAll
<1>8. /\ freeQueueList \in Seq(Undos) /\ \A h \in Lvl(m, d, L5) : Unwinds(S, freeQueueList, h, Z)
  BY <1>1, <1>2, <1>3, <1>7, UnwindsAll
<1> QED BY <1>4, <1>5, <1>6, <1>7, <1>8 DEF S, Z

(* cleanup_module.                                                         *)
LEMMA UnloadedDoes ==
  ASSUME NEW m, NEW d, NEW h \in Settled(m, d), Detached(m, h), NEW k
  PROVE  Does(Safe(m, d), k, CleanupModule, {h}, Settled(m, d), Settled(m, d))
<1> DEFINE N == ModuleNames
           names == <<"driver", "mgmt", "lock", "memPool", "log", "heap">>
           g == h \ Zero(N)
           O == {}
<1>1. h \in Lvl(m, d, O) /\ O \in SUBSET LowNames /\ ModuleNames \cup O = ModuleNames
  BY LowSettled
<1>2. /\ Proper(h) /\ h \in Safe(m, d)
      /\ \A n \in Names, q \in Nat :
           <<n, q>> \in h => n \in ModuleNames \/ (n \in LeftNames /\ <<n, q>> \in Left(m))
  <2> HIDE DEF O
  <2>1. Proper(h) /\ h \in Safe(m, d)
    BY <1>1, LowHolds
  <2>2. \A n \in Names, q \in Nat :
              <<n, q>> \in h => \/ n \in ModuleNames \cup O
                                \/ n \in LeftNames /\ <<n, q>> \in Left(m)
                                \/ n = "exists" /\ "queueList" \in O
    BY <1>1, LowHolds
  <2> QED BY <1>1, <2>1, <2>2 DEF O
<1>3. /\ N \in SUBSET (CommonNames \ {"queueList", "cookies"}) /\ "put" \in {"put", "drop"}
      /\ names \in Seq(N) /\ Len(names) = 6
      /\ names[1] = "driver" /\ names[2] = "mgmt" /\ names[3] = "lock"
      /\ names[4] = "memPool" /\ names[5] = "log" /\ names[6] = "heap"
  BY DEF ModuleNames, CommonNames
<1> HIDE DEF names
<1>4. /\ \A i \in 1..Len(names) : i = 1 \/ i = 2 \/ i = 3 \/ i = 4 \/ i = 5 \/ i = 6
      /\ 1 \in 1..Len(names) /\ 2 \in 1..Len(names) /\ 3 \in 1..Len(names)
      /\ 4 \in 1..Len(names) /\ 5 \in 1..Len(names) /\ 6 \in 1..Len(names)
  BY <1>3
<1>5. \A n \in N : \E i \in 1..Len(names) : n = names[i]
  BY <1>3, <1>4 DEF ModuleNames
<1>6. \A i, j \in 1..Len(names) : i # j => names[i] # names[j]
  BY <1>3, <1>4
<1>7. InOrder(m, h, names)
  <2> SUFFICES ASSUME NEW i \in 1..Len(names), NEW n \in Names, NEW q \in Nat, <<n, q>> \in h,
                      <<names[i], 0>> \in MadeFrom(<<n, q>>)
               PROVE  <<n, q>> \in Left(m) \/ \E j \in 1..(i - 1) : n = names[j]
    BY DEF InOrder
  <2>1. n \in ModuleNames \/ <<n, q>> \in Left(m)
    BY <1>2
  <2>2. CASE i \in {1, 2, 3, 4, 5}
    <3>1. n \in {"driver", "cqPages", "sqPages"} /\ i # 1
      BY <2>2, <1>3, LowUsers
    <3>2. n = "driver" \/ <<n, q>> \in Left(m)
      BY <2>1, <3>1 DEF ModuleNames
    <3>3. 1 \in 1..(i - 1)
      BY <2>2, <3>1
    <3> QED BY <3>2, <3>3, <1>3
  <2>3. CASE i = 6
    <3>1. n \in {"log", "memPool", "lock", "mgmt", "ctrlr", "driver"}
      BY <2>3, <1>3, LowUsers
    <3>2. n # "ctrlr" \/ <<n, q>> \in Left(m)
      BY <2>1 DEF ModuleNames
    <3>3. 1 \in 1..(i - 1) /\ 2 \in 1..(i - 1) /\ 3 \in 1..(i - 1) /\ 4 \in 1..(i - 1) /\ 5 \in 1..(i - 1)
      BY <2>3
    <3> QED BY <3>1, <3>2, <3>3, <1>3
  <2> QED BY <1>4, <2>2, <2>3
<1>8. Zero(N) \subseteq h
  BY DEF Detached
<1>9. Unwinds(Safe(m, d), Each("put", Of(names)), h, {g}) /\ g \in Safe(m, d)
  <2> HIDE DEF N
  <2> QED BY <1>2, <1>3, <1>5, <1>6, <1>7, <1>8, PutsCommon
<1>10. g \in Settled(m, d)
  <2>1. g \subseteq Left(m)
    BY DEF Detached
  <2>2. Cookies \in g <=> Array \in g
    BY DEF Settled, Array, Cookies, Zero, ModuleNames
  <2> QED BY <1>9, <2>1, <2>2 DEF Settled, Unloaded, Array
<1> DEFINE X == {g}
           u == Each("put", Of(names))
<1>11. X \subseteq Settled(m, d)
  BY <1>10
<1>12. u \in Seq(Undos)
  BY <1>9 DEF Unwinds
<1> HIDE DEF X, u
<1>13. Unwinds(Safe(m, d), u, h, X)
  BY <1>9 DEF X, u
<1>14. Unwinds(Safe(m, d), u, h, Settled(m, d))
  BY <1>11, <1>13, UnwindsMore
<1>15. Does(Safe(m, d), k, u, {h}, Settled(m, d), Settled(m, d))
  BY <1>12, <1>14, UnwindsDoes
<1> QED BY <1>15 DEF u, names, CleanupModule

(* One more resource of the lowest levels.                                 *)
LEMMA LowAdd ==
  ASSUME NEW m, NEW d, NEW N \in SUBSET LowNames, NEW h \in Lvl(m, d, N), NEW n \in LowNames,
         MadeFrom(<<n, 0>>) \subseteq h
  PROVE  /\ h \cup {<<n, 0>>} \in Lvl(m, d, N \cup {n})
         /\ <<n, 0>> \in Tokens \ {Cookies, Listed}
<1> DEFINE t == <<n, 0>>
<1>1. t \in Tokens /\ t # Listed /\ t # Cookies /\ t # Array
  BY DEF LowNames, Tokens, Names, Listed, Cookies, Array
<1>2. h \cup {t} \in Safe(m, d)
  <2>1. h \in Safe(m, d)
    BY DEF Lvl
  <2> HIDE DEF t
  <2> QED BY <1>1, <2>1, SafeAdd DEF t
<1>3. Low(m, N \cup {n}, h \cup {t})
  <2>1. Zero(ModuleNames \cup (N \cup {n})) = Zero(ModuleNames \cup N) \cup {t}
    BY DEF Zero
  <2>2. h \subseteq Zero(ModuleNames \cup N) \cup Left(m) \cup (IF "queueList" \in N \cup {n} THEN Ex ELSE {})
    BY DEF Lvl, Low
  <2>3. (Cookies \in h \cup {t} <=> Array \in h \cup {t}) /\ Zero(ModuleNames \cup N) \subseteq h
    BY <1>1 DEF Lvl, Low
  <2> HIDE DEF t
  <2> QED BY <2>1, <2>2, <2>3 DEF Low
<1> QED BY <1>1, <1>2, <1>3 DEF Lvl

(* The same, as a function that may fail.                                  *)
LEMMA ChainLow ==
  ASSUME NEW m, NEW d, NEW N \in SUBSET LowNames, NEW h \in Lvl(m, d, N), NEW n \in LowNames,
         MadeFrom(<<n, 0>>) \subseteq h, NEW k
  PROVE  Does(Safe(m, d), k, Chain(Of(<<n>>)), {h}, {h \cup {<<n, 0>>}}, {h})
<1> DEFINE t == <<n, 0>>
<1>1. Of(<<n>>) = <<t>>
  BY DEF Of, At
<1>2. /\ h \cup {t} \in Safe(m, d) /\ h \in Safe(m, d) /\ t \in Tokens \ {Cookies, Listed}
  BY LowAdd DEF Lvl
<1> HIDE DEF t
<1>3. Does(Safe(m, d), k, Chain(<<t>>), {h}, {h \cup {t}}, {h})
  BY <1>2, ChainOne
<1> QED BY <1>1, <1>3 DEF t

(* PciInit: what fails after the register space is mapped leaves it        *)
(* mapped.                                                                 *)
LEMMA PciTaken ==
  ASSUME NEW m, NEW d, NEW h \in Lvl(m, d, L1), NEW k
  PROVE  /\ Does(Safe(m, d), k, PciInit, {h}, {h \cup {<<"bar", 0>>}}, Lvl(m, d, L1))
         /\ h \cup {<<"bar", 0>>} \in Lvl(m, d, L2)
<1> DEFINE g == h \cup {<<"bar", 0>>}
           S == Safe(m, d)
           F == Lvl(m, d, L1)
           p == Chain(Of(<<"bar">>))
<1>1. MadeFrom(<<"bar", 0>>) = {} /\ "bar" \in LowNames /\ L1 \cup {"bar"} = L2
  BY MadeOfCommon DEF LowNames, L1, L2
<1>2. g \in Lvl(m, d, L2) /\ g \in S /\ h \in S
  <2>1. g \in Lvl(m, d, L1 \cup {"bar"})
    BY <1>1, LevelNames, LowAdd
  <2> QED BY <1>1, <2>1 DEF Lvl
<1>3. g \in F /\ h \in F
  <2>1. Low(m, L1, g)
    <3>1. <<"bar", 0>> \in Left(m) /\ <<"bar", 0>> \notin {Cookies, Array}
      BY LeftFacts DEF Cookies, Array
    <3> QED BY <3>1 DEF Lvl, Low
  <2> QED BY <1>2, <2>1 DEF Lvl
<1>4. Does(S, k, p, {h}, {g}, {h})
  BY <1>1, LevelNames, ChainLow
<1> HIDE DEF g, S, F, p
<1>5. Does(S, k, AskOnce, {h}, {h}, {h}) /\ Does(S, k, AskOnce, {g}, {g}, {g})
  BY <1>2, AskDoes DEF AskOnce
<1> DEFINE H == {h}
           G == {g}
<1>6. H \subseteq F /\ G \subseteq F /\ k \subseteq k
  BY <1>3
<1> HIDE DEF H, G
<1>7. Does(S, k, AskOnce, H, H, F) /\ Does(S, k, AskOnce, G, G, F) /\ Does(S, k, p, H, G, F)
  BY <1>4, <1>5, <1>6, DoesMore DEF H, G
<1>8. Does(S, k, (AskOnce \o p) \o AskOnce, H, G, F)
  BY <1>7, DoesBoth
<1> QED BY <1>2, <1>8 DEF PciInit, g, S, F, p, H, G

(* DmaInit takes both or none.                                             *)
LEMMA DmaTaken ==
  ASSUME NEW m, NEW d, NEW h \in Lvl(m, d, L2), NEW k
  PROVE  /\ Does(Safe(m, d), k, DmaInit, {h}, {h \cup Zero({"dmaEngine", "sgHandle"})}, Lvl(m, d, L2))
         /\ h \cup Zero({"dmaEngine", "sgHandle"}) \in Lvl(m, d, L3)
<1> DEFINE a == <<"dmaEngine", 0>>
           b == <<"sgHandle", 0>>
           ts == <<a, b>>
           g == h \cup Zero({"dmaEngine", "sgHandle"})
           M == L2 \cup {"dmaEngine"}
<1>1. /\ MadeFrom(a) \subseteq h /\ MadeFrom(b) = {a}
      /\ a \notin h /\ b \notin h /\ a # b
      /\ {a, b} \subseteq Tokens \ {Cookies, Listed, QueueList}
  <2>1. MadeFrom(a) = Zero({"ctrlr"}) /\ MadeFrom(b) = Zero({"dmaEngine"})
    BY MadeOfCommon
  <2>2. Zero({"ctrlr"}) \subseteq h
    BY DEF Lvl, Low, Zero, L2
  <2>3. a \notin h /\ b \notin h
    <3>1. \A n \in {"dmaEngine", "sgHandle"} :
            n \in Names /\ n \notin ModuleNames \cup L2 /\ n \notin LeftNames /\ n # "exists"
      BY DEF Names, ModuleNames, L2, LeftNames
    <3> QED BY <3>1, LevelNames, LowHolds
  <2>4. {a, b} \subseteq Tokens \ {Cookies, Listed, QueueList}
    BY DEF Tokens, Names, Cookies, Listed, QueueList
  <2> QED BY <2>1, <2>2, <2>3, <2>4 DEF Zero
<1>2. g \in Lvl(m, d, L3) /\ g = (h \cup {a}) \cup {b}
  <2>1. "dmaEngine" \in LowNames /\ "sgHandle" \in LowNames /\ M \in SUBSET LowNames /\ M \cup {"sgHandle"} = L3
    BY DEF LowNames, L2, L3
  <2>2. h \cup {a} \in Lvl(m, d, M)
    BY <1>1, <2>1, LevelNames, LowAdd
  <2>3. MadeFrom(b) \subseteq h \cup {a}
    BY <1>1
  <2> DEFINE f == h \cup {a}
  <2> HIDE DEF f, M
  <2>4. f \cup {b} \in Lvl(m, d, M \cup {"sgHandle"})
    BY <2>1, <2>2, <2>3, LowAdd DEF f
  <2>5. g = f \cup {b}
    BY DEF f, Zero
  <2> QED BY <2>1, <2>4, <2>5 DEF f
<1>3. /\ ts \in Seq(Tokens) /\ Len(ts) = 2 /\ ts[1] = a /\ ts[2] = b
  <2> HIDE DEF a, b
  <2> QED BY <1>1
<1> HIDE DEF a, b, ts, g
<1>4. \A i \in 1..Len(ts) : i = 1 \/ i = 2
  BY <1>3
<1>5. Stacked(Safe(m, d), h, ts)
  <2>1. \A i, j \in 1..Len(ts) : i # j => ts[i] # ts[j]
    BY <1>1, <1>3, <1>4
  <2>2. ASSUME NEW i \in 1..Len(ts)
        PROVE /\ ts[i] \notin h \cup {Cookies, Listed, QueueList}
              /\ \A t \in MadeFrom(ts[i]) : t \in h \/ \E j \in 1..(i - 1) : t = ts[j]
    <3>1. CASE i = 1
      BY <3>1, <1>1, <1>3
    <3>2. CASE i = 2
      <4>1. 1 \in 1..(i - 1)
        BY <3>2
      <4> QED BY <3>2, <4>1, <1>1, <1>3
    <3> QED BY <1>4, <3>1, <3>2
  <2>3. h \in Safe(m, d)
    BY DEF Lvl
  <2> QED BY <1>3, <2>1, <2>2, <2>3, SafeStacked
<1>6. h \cup Elems(ts) = g
  <2>0. 1..2 = {1, 2}
    OBVIOUS
  <2>1. Elems(ts) = {ts[j] : j \in {1, 2}}
    BY <1>3, <2>0 DEF Elems, Taken
  <2> QED BY <2>1, <1>2, <1>3
<1> DEFINE H == {h}
<1>7. H \subseteq Lvl(m, d, L2)
  OBVIOUS
<1> HIDE DEF H
<1>8. Does(Safe(m, d), k, Chain(ts), H, {g}, H)
  BY <1>5, <1>6, ChainDoes DEF H
<1>9. Does(Safe(m, d), k, Chain(ts), H, {g}, Lvl(m, d, L2))
  BY <1>7, <1>8, DoesMore
<1>10. DmaInit = Chain(ts)
  BY DEF DmaInit, Of, At, ts, a, b
<1> QED BY <1>2, <1>9, <1>10 DEF H, g

(* A state of the lowest levels with the interrupts of the admin queue: they are given back. *)
LEMMA IntrLow ==
  ASSUME NEW m, NEW h, NEW g, h \in Lvl(m, TRUE, L5), Array \notin h, Cookies \notin h,
         g \in Safe(m, TRUE), {Array, Cookies} \subseteq g,
         g \ {Array, Cookies} \subseteq h \cup {<<"exists", 0>>} \cup (IF m THEN {Handler} ELSE {}),
         h \subseteq g
  PROVE  Unwinds(Safe(m, TRUE), IntrFree, g, Lvl(m, TRUE, L5))
<1> DEFINE f == g \ {Array, Cookies}
           X == {f}
<1>1. /\ Proper(h) /\ \A n \in QueueNames, q \in Nat : <<n, q>> \in h => n = "exists"
  BY LevelNames, LowHolds
<1>2. Proper(g)
  <2> SUFFICES ASSUME NEW n \in CommonNames, NEW q \in Nat, <<n, q>> \in g, q # 0 PROVE FALSE
    BY DEF Proper
  <2>1. <<n, q>> \notin h
    BY <1>1 DEF Proper
  <2>2. <<n, q>> \notin {<<"exists", 0>>, Array, Cookies, Handler}
    BY DEF Array, Cookies, Handler
  <2> QED BY <2>1, <2>2
<1>3. \A q \in Nat : <<"vector", q>> \notin g
  <2> SUFFICES ASSUME NEW q \in Nat, <<"vector", q>> \in g PROVE FALSE
    OBVIOUS
  <2>1. <<"vector", q>> \notin h
    BY <1>1 DEF QueueNames
  <2>2. <<"vector", q>> \notin {<<"exists", 0>>, Array, Cookies, Handler}
    BY DEF Array, Cookies, Handler
  <2> QED BY <2>1, <2>2
<1>4. Unwinds(Safe(m, TRUE), IntrFree, g, {f}) /\ f \in Safe(m, TRUE)
  BY <1>2, <1>3, IntrFreed
<1>5. Low(m, L5, f)
  <2>1. /\ Zero(ModuleNames \cup L5) \subseteq h
        /\ h \subseteq Zero(ModuleNames \cup L5) \cup Left(m) \cup Ex
    BY DEF Lvl, Low, L5, LowNames
  <2>2. Zero(ModuleNames \cup L5) \subseteq f
    BY <2>1
  <2>3. (m => Handler \in Left(m)) /\ <<"exists", 0>> \in Ex
    BY LeftFacts DEF Ex
  <2>4. f \subseteq Zero(ModuleNames \cup L5) \cup Left(m) \cup Ex
    BY <2>1, <2>3
  <2>5. "queueList" \in L5
    BY DEF L5, LowNames
  <2> HIDE DEF f
  <2>6. Cookies \in f <=> Array \in f
    BY DEF f
  <2> QED BY <2>2, <2>4, <2>5, <2>6 DEF Low
<1>6. X \subseteq Lvl(m, TRUE, L5)
  BY <1>4, <1>5 DEF Lvl
<1> HIDE DEF X
<1>7. Unwinds(Safe(m, TRUE), IntrFree, g, X)
  BY <1>4 DEF X
<1> QED BY <1>6, <1>7, UnwindsMore

Bare(m, h) ==
  /\ h \in Lvl(m, TRUE, L5) /\ Array \notin h /\ Cookies \notin h /\ h \cap Ex = {}

(* The state from which the admin queue is set up.                         *)
LEMMA BareFacts ==
  ASSUME NEW m \in BOOLEAN, NEW h, Bare(m, h)
  PROVE  /\ h \in Safe(m, TRUE) /\ h \subseteq Tokens /\ <<"ctrlr", 0>> \in h /\ Listed \notin h
         /\ WithIntr(m, h) \in Safe(m, TRUE) /\ h \cup {Array, Cookies} \in Safe(m, TRUE)
         /\ Ready(m, TRUE, 0, ~m, WithIntr(m, h)) /\ <<"bar", 0>> \in WithIntr(m, h)
         /\ \A q \in Nat : WithIntr(m, h) \cap OfQueue(q) = {}
<1> DEFINE g == WithIntr(m, h)
<1>1. /\ h \in Safe(m, TRUE) /\ h \subseteq Tokens /\ Listed \notin h
      /\ \A n \in QueueNames, q \in Nat : <<n, q>> \in h => n = "exists"
  <2>1. h \in Lvl(m, TRUE, L5) /\ L5 \in SUBSET LowNames
    BY LevelNames DEF Bare
  <2> QED BY <2>1, LowHolds
<1>2. Zero(LowNames) \subseteq h
  BY DEF Bare, Lvl, Low, L5, Zero
<1>3. <<"ctrlr", 0>> \in h /\ <<"bar", 0>> \in h
  BY <1>2 DEF Zero, LowNames
<1>4. g \in Safe(m, TRUE) /\ h \cup {Array, Cookies} \in Safe(m, TRUE)
  BY <1>1, <1>3, IntrAllocated DEF Bare
<1>5. ASSUME NEW q \in Nat PROVE g \cap OfQueue(q) = {}
  <2>1. h \cap OfQueue(q) = {}
    BY <1>1 DEF OfQueue, Bare, Ex
  <2>2. \A n \in QueueNames : n \notin {"intrArray", "cookies", "msiHandler"}
    BY DEF QueueNames, BodyNames
  <2>3. {Array, Cookies, Handler} \cap OfQueue(q) = {}
    BY <2>2 DEF OfQueue, Array, Cookies, Handler
  <2> QED BY <2>1, <2>3 DEF WithIntr
<1>6. QueueBase \cup {QueueList} \subseteq g
  <2>1. Zero({"lockDomain", "memPool", "sgHandle", "dmaEngine"}) \cup {QueueList} \subseteq
          Zero(ModuleNames \cup L5)
    BY DEF Zero, ModuleNames, L5, LowNames, QueueList
  <2> QED BY <2>1 DEF QueueBase, WithIntr, Bare, Lvl, Low
<1>7. Ready(m, TRUE, 0, ~m, g)
  <2>1. Cookies \in g /\ 0 \in Nat
    BY DEF WithIntr
  <2> HIDE DEF g
  <2> QED BY <1>4, <1>5, <1>6, <2>1 DEF Ready
<1> QED BY <1>1, <1>3, <1>4, <1>5, <1>7 DEF WithIntr

(* SetupAdminQueue, on its own.                                            *)
LEMMA AdminTaken ==
  ASSUME NEW m \in BOOLEAN, NEW h, Bare(m, h), NEW k, "tries" \notin k
  PROVE  Does(Safe(m, TRUE), k, SetupAdminQueue(m), {h}, Made(m, TRUE, 0, ~m, WithIntr(m, h)),
              Lvl(m, TRUE, L5))
<1> DEFINE S == Safe(m, TRUE)
           F == Lvl(m, TRUE, L5)
           g == WithIntr(m, h)
           e == With(g, 0, {"exists"})
           P == Made(m, TRUE, 0, ~m, g)
           G == {g, e}
           I == {h} \cup (IF m THEN {h \cup {Array, Cookies}} ELSE {})
           p == IntrAlloc(m, 1)
           r == QueueCreate(0, ~m, ~m)
           x == ~m
<1>1. /\ h \in S /\ h \subseteq Tokens /\ <<"ctrlr", 0>> \in h /\ g \in S /\ h \cup {Array, Cookies} \in S
      /\ Ready(m, TRUE, 0, x, g) /\ <<"bar", 0>> \in g
  BY BareFacts
<1>2. Does(S, k, p, {h}, {g}, I)
  BY <1>1, IntrAllocated DEF Bare
<1>3. I \subseteq F
  <2>1. h \in F
    BY DEF Bare
  <2>2. m => h \cup {Array, Cookies} \in F
    <3>1. m => {Array, Cookies} \subseteq Left(m)
      BY LeftFacts
    <3>2. m => Low(m, L5, h \cup {Array, Cookies})
      BY <3>1 DEF Bare, Lvl, Low
    <3> QED BY <1>1, <3>2 DEF Lvl
  <2> QED BY <2>1, <2>2
<1>4. Does(S, k, r, {g}, P, G) /\ e \in S
  <2> DEFINE O == k
  <2>1. O \subseteq k /\ "tries" \notin O
    OBVIOUS
  <2> HIDE DEF g, x, O
  <2>2. Does(Safe(m, TRUE), k, QueueCreate(0, x, x), {g}, Made(m, TRUE, 0, x, g),
              {g, With(g, 0, {"exists"})})
    BY <1>1, <2>1, QueueCreated
  <2>3. With(g, 0, {"exists"}) \in Safe(m, TRUE)
    BY <1>1, <2>1, Constructed
  <2> QED BY <2>2, <2>3 DEF x
<1>5. \A f \in G : Unwinds(S, IntrFree, f, F)
  <2>1. Unwinds(S, IntrFree, g, F)
    <3>1. /\ {Array, Cookies} \subseteq g /\ h \subseteq g
          /\ g \ {Array, Cookies} \subseteq h \cup {<<"exists", 0>>} \cup (IF m THEN {Handler} ELSE {})
      BY DEF WithIntr
    <3> HIDE DEF g
    <3> QED BY <1>1, <3>1, IntrLow DEF Bare
  <2>2. Unwinds(S, IntrFree, e, F)
    <3>0. e = g \cup {<<"exists", 0>>}
      BY DEF With, Named
    <3>1. /\ {Array, Cookies} \subseteq e /\ h \subseteq e
          /\ e \ {Array, Cookies} \subseteq h \cup {<<"exists", 0>>} \cup (IF m THEN {Handler} ELSE {})
      BY <3>0 DEF WithIntr
    <3> HIDE DEF e
    <3> QED BY <1>4, <3>1, IntrLow DEF Bare
  <2> QED BY <2>1, <2>2
<1>6. IntrFree \in Seq(Undos)
  BY <1>5 DEF Unwinds
<1> DEFINE H == {h}
           D == {g}
<1> HIDE DEF S, F, P, G, I, p, r, H, D
<1>7. Does(S, k, p, H, D, F) /\ Does(S, k, r, D, P, G)
  BY <1>2, <1>3, <1>4, DoesMore DEF H, D
<1>8. Does(S, k, p \o Within(r, IntrFree), H, P, F)
  BY <1>5, <1>6, <1>7, ThenWithin
<1> QED BY <1>8 DEF SetupAdminQueue, S, F, P, G, p, r, H, g

(* The admin queue that was set up.                                        *)
LEMMA MadeFacts ==
  ASSUME NEW m, NEW d, NEW x, NEW b, NEW g \in Made(m, d, 0, x, b)
  PROVE  /\ g \in Safe(m, d) /\ g \ OfQueue(0) = b /\ Named(0, WholeNames(x) \cup {"active"}) \subseteq g
         /\ (<<"vector", 0>> \in g <=> x) /\ (<<"isIntrEnabled", 0>> \in g <=> x)
         /\ <<"counted", 0>> \notin g /\ <<"pollHandler", 0>> \notin g
BY DEF Made

(* DestroyAdminQueue, the label.                                           *)
LEMMA AdminDropped ==
  ASSUME NEW m \in BOOLEAN, NEW h, Bare(m, h), NEW g \in Made(m, TRUE, 0, ~m, WithIntr(m, h))
  PROVE  Unwinds(Safe(m, TRUE), DestroyAdminQueue(TRUE, ~m, TRUE), g, Lvl(m, TRUE, L5))
<1> DEFINE S == Safe(m, TRUE)
           F == Lvl(m, TRUE, L5)
           b == WithIntr(m, h)
           x == ~m
           u == SuspendQueue(0) \o QueueDestroy(0, x)
<1>1. /\ g \in S /\ g \ OfQueue(0) = b /\ Named(0, WholeNames(x)) \subseteq g
      /\ (<<"vector", 0>> \in g <=> x) /\ <<"counted", 0>> \notin g
  <2>1. g \in Made(m, TRUE, 0, x, b)
    OBVIOUS
  <2> HIDE DEF x, b, S, u, F
  <2>2. /\ g \in Safe(m, TRUE) /\ g \ OfQueue(0) = b /\ Named(0, WholeNames(x) \cup {"active"}) \subseteq g
        /\ (<<"vector", 0>> \in g <=> x) /\ (<<"isIntrEnabled", 0>> \in g <=> x)
        /\ <<"counted", 0>> \notin g /\ <<"pollHandler", 0>> \notin g
    BY <2>1, MadeFacts
  <2> QED BY <2>2 DEF Named, S
<1>2. Unwinds(S, u, g, {b})
  <2>1. Named(0, BodyNames \cup {"exists"}) \subseteq g
    BY <1>1 DEF Named, WholeNames
  <2>2. x \in BOOLEAN /\ (x <=> <<"vector", 0>> \in g)
    BY <1>1
  <2>3. g \ Named(0, GoneNames) = b
    <3>1. g \ OfQueue(0) = g \ Named(0, GoneNames \cup {"counted"})
      BY QueueNamesOf
    <3>2. g \ Named(0, GoneNames \cup {"counted"}) = g \ Named(0, GoneNames)
      BY <1>1 DEF Named
    <3> QED BY <1>1, <3>1, <3>2
  <2> HIDE DEF x
  <2> DEFINE f == g \ Named(0, GoneNames)
  <2>4. Unwinds(S, u, g, {f})
    BY <1>1, <2>1, <2>2, QueueStopped
  <2> HIDE DEF f, u, S, b
  <2> QED BY <2>3, <2>4 DEF f
<1>3. Unwinds(S, IntrFree, b, F)
  <2>1. b \in S
    BY BareFacts
  <2>2. /\ {Array, Cookies} \subseteq b /\ h \subseteq b
        /\ b \ {Array, Cookies} \subseteq h \cup {<<"exists", 0>>} \cup (IF m THEN {Handler} ELSE {})
    BY DEF WithIntr
  <2> HIDE DEF b
  <2> QED BY <2>1, <2>2, IntrLow DEF Bare
<1> HIDE DEF S, F, b, u
<1>4. Unwinds(S, u \o IntrFree, g, F)
  BY <1>2, <1>3, UnwindsTwo
<1> QED BY <1>4 DEF DestroyAdminQueue, S, F, u

(* What the attachment ends with.                                          *)
LEMMA ListedAttached ==
  ASSUME NEW m \in BOOLEAN, NEW h, Bare(m, h), NEW g \in Made(m, TRUE, 0, ~m, WithIntr(m, h))
  PROVE  g \cup {Listed} \in AttachedStates(m, TRUE)
<1> DEFINE b == WithIntr(m, h)
           f == g \cup {Listed}
           x == ~m
<1>1. /\ g \in Safe(m, TRUE) /\ g \ OfQueue(0) = b /\ Named(0, WholeNames(x) \cup {"active"}) \subseteq g
      /\ (<<"vector", 0>> \in g <=> x) /\ (<<"isIntrEnabled", 0>> \in g <=> x)
      /\ <<"counted", 0>> \notin g /\ <<"pollHandler", 0>> \notin g
  <2>1. g \in Made(m, TRUE, 0, x, b)
    OBVIOUS
  <2> HIDE DEF x, b
  <2> QED BY <2>1, MadeFacts
<1>2. /\ Zero(ModuleNames \cup L5) \subseteq h
      /\ h \subseteq Zero(ModuleNames \cup L5) \cup Left(m) \cup Ex
      /\ h \cap Ex = {} /\ {Array, Cookies} \subseteq b /\ h \subseteq b
      /\ \A q \in Nat : b \cap OfQueue(q) = {}
      /\ b \subseteq h \cup {Array, Cookies} \cup (IF m THEN {Handler} ELSE {})
  BY BareFacts DEF Bare, Lvl, Low, L5, LowNames, WithIntr
<1> HIDE DEF b, x
<1>3. h \subseteq Zero(ModuleNames \cup L5) \cup Left(m)
  BY <1>2
<1>4. b \subseteq g /\ Listed \in f /\ g \subseteq f
  BY <1>1
<1>5. f \in Safe(m, TRUE)
  <2>1. MadeFrom(Listed) = Zero({"ctrlr", "bar", "queueList"})
    BY MadeOfCommon DEF Listed
  <2>2. MadeFrom(Listed) \subseteq g
    BY <1>2, <1>4, <2>1 DEF Zero, L5, LowNames
  <2> QED BY <1>1, <2>2, CommonTokens, SafeAdd
<1>6. Listed \notin OfQueue(0) /\ \A n \in QueueNames : \A q \in Nat : <<n, q>> # Listed
  BY NamesApart DEF OfQueue
<1>7. Zero(ModuleNames \cup DeviceNames) \subseteq f
  <2>1. Zero(ModuleNames \cup DeviceNames) \subseteq Zero(ModuleNames \cup L5) \cup {Listed}
    BY DEF Zero, DeviceNames, L5, LowNames, Listed
  <2> QED BY <2>1, <1>2, <1>4
<1>8. b \cup {Listed} \subseteq Zero(CommonNames) /\ (b \cup {Listed}) \cap Zero(AdapterNames \cup CtrlNames \cup ExtraNames) = {}
  <2> DEFINE N == ModuleNames \cup DeviceNames \cup {"cookies", "intrArray", "msiHandler"}
  <2>1. b \cup {Listed} \subseteq Zero(N)
    <3>1. {Array, Cookies, Handler, Listed} \subseteq Zero(N)
      BY DEF Zero, Array, Cookies, Handler, Listed, DeviceNames
    <3>2. Left(m) \subseteq Zero(N)
      BY DEF Left, Zero, DeviceNames, ModuleNames
    <3>3. Zero(ModuleNames \cup L5) \subseteq Zero(N)
      BY DEF Zero, L5, LowNames, DeviceNames
    <3> QED BY <3>1, <3>2, <3>3, <1>2, <1>3
  <2>2. N \subseteq CommonNames
    BY DEF CommonNames
  <2>3. N \cap (AdapterNames \cup CtrlNames \cup ExtraNames) = {}
    BY DEF ModuleNames, DeviceNames, AdapterNames, CtrlNames, ExtraNames
  <2> HIDE DEF N
  <2> QED BY <2>1, <2>2, <2>3 DEF Zero
<1>9. f \subseteq (b \cup {Listed}) \cup OfQueue(0) /\ f \ OfQueue(0) = b \cup {Listed}
  BY <1>1, <1>6
<1>10. f \subseteq Zero(CommonNames) \cup UNION {OfQueue(q) : q \in 0..MaxIoQueues}
  <2>1. 0 \in 0..MaxIoQueues
    BY MaxIoQueuesAssumption
  <2> HIDE DEF f
  <2> QED BY <1>8, <1>9, <2>1
<1>11. \A q \in IoQueues : f \cap OfQueue(q) = {}
  <2> SUFFICES ASSUME NEW q \in IoQueues PROVE f \cap OfQueue(q) = {}
    OBVIOUS
  <2>1. q \in Nat /\ q # 0
    BY MaxIoQueuesAssumption DEF IoQueues
  <2>2. OfQueue(0) \cap OfQueue(q) = {} /\ Listed \notin OfQueue(q)
    BY <2>1, NamesApart
  <2>3. b \cap OfQueue(q) = {}
    BY <1>2, <2>1
  <2> HIDE DEF f
  <2> QED BY <1>9, <2>2, <2>3
<1>12. AdminQueueOk(m, f)
  <2>1. Named(0, BodyNames \cup {"exists"}) \subseteq f /\ <<"active", 0>> \in f
    BY <1>1, <1>4 DEF Named, WholeNames
  <2>2. f \cap Named(0, {"counted", "pollHandler"}) = {}
    BY <1>1, <1>6 DEF Named, QueueNames
  <2>3. Cookies \in f
    BY <1>2, <1>4
  <2>4. (<<"vector", 0>> \in f <=> ~m) /\ (<<"isIntrEnabled", 0>> \in f <=> ~m)
    BY <1>1, <1>6 DEF x, QueueNames
  <2> HIDE DEF f
  <2> QED BY <2>1, <2>2, <2>3, <2>4 DEF AdminQueueOk
<1>13. ~m => Handler \notin f
  <2>1. Handler \notin OfQueue(0) /\ Handler \notin {Array, Cookies, Listed}
    BY NamesApart, CommonTokens DEF Handler
  <2>2. Handler \notin Zero(ModuleNames \cup L5)
    BY DEF Handler, Zero, ModuleNames, L5, LowNames
  <2>3. ~m => Handler \notin Left(m)
    BY LeftFacts
  <2> HIDE DEF f
  <2> QED BY <1>2, <1>3, <1>9, <2>1, <2>2, <2>3
<1>14. Stage(f)
  <2>1. Quiet(f)
    BY <1>11 DEF Quiet, QuietQueue
  <2>2. f \cap Zero(AdapterNames \cup CtrlNames \cup ExtraNames) = {}
    <3>1. OfQueue(0) \cap Zero(CommonNames) = {}
      BY NamesApart
    <3>2. Zero(AdapterNames \cup CtrlNames \cup ExtraNames) \subseteq Zero(CommonNames)
      BY DEF Zero, CommonNames
    <3> HIDE DEF f
    <3> QED BY <1>8, <1>9, <3>1, <3>2
  <2> QED BY <2>1, <2>2 DEF Stage
<1>15. Cookies \in f /\ Array \in f
  BY <1>2, <1>4
<1> HIDE DEF f
<1>16. \A q \in IoQueues : IoQueueOk(m, f, q)
  BY <1>11 DEF IoQueueOk
<1>17. Attached(m, f)
  BY <1>7, <1>10, <1>12, <1>13, <1>14, <1>16 DEF Attached, Handler
<1> QED BY <1>5, <1>15, <1>17 DEF AttachedStates, Settled, f, Array

(* AskDoes, from several states.                                           *)
LEMMA AskEach ==
  ASSUME NEW S, NEW k, NEW P, P \subseteq S
  PROVE  Does(S, k, AskOnce, P, P, P)
<1> DEFINE s == Step("ask", <<"none", 0>>)
<1>1. /\ AskOnce = <<s>> /\ s \in StepRec /\ s.do = "ask" /\ s.token = <<"none", 0>> /\ s.undo = <<>>
  <2>1. "ask" \in Dos /\ <<"none", 0>> \in Tokens
    BY DEF Dos, Tokens, Names
  <2>2. Of(<<"none">>) = <<<<"none", 0>>>>
    BY DEF Of, At
  <2> QED BY <2>1, <2>2, TokenStep DEF AskOnce
<1> HIDE DEF s
<1>2. Kind(k, s)
  BY <1>1 DEF Kind, Cookies, Listed
<1>3. \A h \in P : StepOK(S, k, s, h, P, P)
  BY <1>1, NothingUndone DEF StepOK
<1>4. Does(S, k, <<s>>, P, P, P)
  BY <1>1, <1>2, <1>3, DoesStep
<1> QED BY <1>1, <1>4

(* DestroyAdminQueue is a sequence of labels.                              *)
LEMMA AdminLabelTyped ==
  ASSUME NEW m \in BOOLEAN, NEW h, Bare(m, h)
  PROVE  DestroyAdminQueue(TRUE, ~m, TRUE) \in Seq(Undos)
<1> DEFINE b == WithIntr(m, h)
           x == ~m
           N == WholeNames(x)
           g == With(b, 0, N)
           u == SuspendQueue(0) \o QueueDestroy(0, x)
           O == {}
<1>1. Ready(m, TRUE, 0, x, b) /\ "tries" \notin O /\ x \in BOOLEAN
  BY BareFacts
<1>2. IntrFree \in Seq(Undos)
  <2>1. b \in Safe(m, TRUE)
    BY BareFacts
  <2>2. /\ {Array, Cookies} \subseteq b /\ h \subseteq b
        /\ b \ {Array, Cookies} \subseteq h \cup {<<"exists", 0>>} \cup (IF m THEN {Handler} ELSE {})
    BY DEF WithIntr
  <2> HIDE DEF b
  <2>3. Unwinds(Safe(m, TRUE), IntrFree, b, Lvl(m, TRUE, L5))
    BY <2>1, <2>2, IntrLow DEF Bare
  <2> QED BY <2>3 DEF Unwinds
<1> HIDE DEF x, b
<1>3. g \in Safe(m, TRUE)
  <2> HIDE DEF O
  <2> QED BY <1>1, Constructed
<1>4. N \in SUBSET QueueNames /\ "vector" \in QueueNames /\ ("vector" \in N <=> x)
      /\ BodyNames \cup {"exists"} \subseteq N
  BY <1>1, QueueNamesAre DEF WholeNames, QueueNames, BodyNames
<1>5. \A n \in QueueNames : n \in N <=> <<n, 0>> \in g
  <2> HIDE DEF N
  <2> QED BY <1>1, <1>4, WithIs
<1>6. Named(0, BodyNames \cup {"exists"}) \subseteq g /\ (x <=> <<"vector", 0>> \in g)
  <2>1. Named(0, BodyNames \cup {"exists"}) \subseteq g
    BY <1>4 DEF With, Named
  <2> HIDE DEF N, g
  <2>2. x <=> <<"vector", 0>> \in g
    BY <1>4, <1>5
  <2> QED BY <2>1, <2>2
<1> HIDE DEF g, N
<1>7. Unwinds(Safe(m, TRUE), u, g, {g \ Named(0, GoneNames)})
  BY <1>1, <1>3, <1>6, QueueStopped
<1>8. u \in Seq(Undos)
  BY <1>7 DEF Unwinds
<1> HIDE DEF u
<1>9. u \o IntrFree \in Seq(Undos)
  BY <1>2, <1>8
<1> QED BY <1>9 DEF DestroyAdminQueue, u, x

(* attachDevice takes everything or nothing but what is left behind.       *)
LEMMA AttachedDoes ==
  ASSUME NEW m \in BOOLEAN, NEW h \in Settled(m, TRUE), Detached(m, h), Cookies \notin h,
         NEW k, "lists" \in k
  PROVE  Does(Safe(m, TRUE), k, AttachDevice(m), {h}, Settled(m, TRUE), Settled(m, TRUE))
<1> DEFINE S == Safe(m, TRUE)
           T == Settled(m, TRUE)
           A == AttachedStates(m, TRUE)
           Z == Lvl(m, TRUE, {})
           h1 == h \cup {<<"ctrlr", 0>>}
           h2 == h1 \cup {<<"bar", 0>>}
           h3 == h2 \cup Zero({"dmaEngine", "sgHandle"})
           h4 == h3 \cup {<<"lockDomain", 0>>}
           h5 == h4 \cup {<<"queueList", 0>>}
           M == Made(m, TRUE, 0, ~m, WithIntr(m, h5))
           O == {}
           destroyAdminq == DestroyAdminQueue(TRUE, ~m, TRUE) \o freeQueueList
           p0 == Chain(Of(<<"ctrlr">>))
           p3 == Chain(Of(<<"lockDomain">>))
           p4 == Chain(Of(<<"queueList">>))
           p5 == SetupAdminQueue(m)
           p7 == Each("add", Of(<<"listed">>))
<1>1. /\ h \in Z /\ {} \in SUBSET LowNames /\ {"ctrlr", "lockDomain", "queueList"} \subseteq LowNames
      /\ {} \cup {"ctrlr"} = L1 /\ L3 \cup {"lockDomain"} = L4 /\ L4 \cup {"queueList"} = L5
      /\ "tries" \notin O /\ O \subseteq k
  BY LowSettled DEF LowNames, L1, L3, L4, L5
<1>2. h1 \in Lvl(m, TRUE, L1) /\ Does(S, O, p0, {h}, {h1}, {h})
  <2>1. MadeFrom(<<"ctrlr", 0>>) \subseteq h
    <3>1. MadeFrom(<<"ctrlr", 0>>) = Zero({"heap"})
      BY MadeOfCommon
    <3> QED BY <3>1 DEF Detached, Zero, ModuleNames
  <2> DEFINE E == {}
  <2>2. E \in SUBSET LowNames /\ h \in Lvl(m, TRUE, E) /\ E \cup {"ctrlr"} = L1 /\ "ctrlr" \in LowNames
    BY <1>1
  <2> HIDE DEF E, O
  <2> QED BY <2>1, <2>2, LowAdd, ChainLow
<1> HIDE DEF h1
<1>3. h2 \in Lvl(m, TRUE, L2) /\ Does(S, O, PciInit, {h1}, {h2}, Lvl(m, TRUE, L1))
  <2> HIDE DEF O
  <2> QED BY <1>2, PciTaken
<1> HIDE DEF h2
<1>4. h3 \in Lvl(m, TRUE, L3) /\ Does(S, O, DmaInit, {h2}, {h3}, Lvl(m, TRUE, L2))
  <2> HIDE DEF O
  <2> QED BY <1>3, DmaTaken
<1> HIDE DEF h3
<1>5. h4 \in Lvl(m, TRUE, L4) /\ Does(S, O, p3, {h3}, {h4}, {h3})
  <2>1. MadeFrom(<<"lockDomain", 0>>) \subseteq h3
    <3>1. MadeFrom(<<"lockDomain", 0>>) = Zero({"ctrlr"})
      BY MadeOfCommon
    <3> QED BY <1>4, <3>1 DEF Lvl, Low, Zero, L3
  <2> HIDE DEF O
  <2> QED BY <1>1, <1>4, <2>1, LevelNames, LowAdd, ChainLow
<1> HIDE DEF h4
<1>6. h5 \in Lvl(m, TRUE, L5) /\ Does(S, O, p4, {h4}, {h5}, {h4})
  <2>1. MadeFrom(<<"queueList", 0>>) \subseteq h4
    <3>1. MadeFrom(<<"queueList", 0>>) = Zero({"ctrlr"})
      BY MadeOfCommon
    <3> QED BY <1>5, <3>1 DEF Lvl, Low, Zero, L4
  <2> HIDE DEF O
  <2> QED BY <1>1, <1>5, <2>1, LevelNames, LowAdd, ChainLow
<1>7. Bare(m, h5)
  <2>1. Cookies \notin h5
    BY <1>1 DEF h1, h2, h3, h4, Cookies, Zero
  <2>2. Array \notin h5
    BY <2>1, <1>6 DEF Lvl, Low
  <2>3. h5 \cap Ex = {}
    <3> SUFFICES ASSUME NEW q \in Nat, <<"exists", q>> \in h5 PROVE FALSE
      BY DEF Ex
    <3>1. <<"exists", q>> \in h4
      OBVIOUS
    <3>2. /\ "exists" \in Names /\ "exists" \notin ModuleNames \cup L4 /\ "exists" \notin LeftNames
          /\ "queueList" \notin L4
      BY DEF Names, QueueNames, ModuleNames, L4, LeftNames
    <3>3. L4 \in SUBSET LowNames /\ h4 \in Lvl(m, TRUE, L4)
      BY <1>5, LevelNames
    <3> HIDE DEF h5, S, T, A, Z, M, O
    <3> QED BY <3>1, <3>2, <3>3, LowHolds
  <2> HIDE DEF h5
  <2> QED BY <1>6, <2>1, <2>2, <2>3 DEF Bare
<1> HIDE DEF h5
<1>8. Does(S, O, p5, {h5}, M, Lvl(m, TRUE, L5))
  <2>1. "tries" \notin O
    OBVIOUS
  <2> HIDE DEF O
  <2> QED BY <1>7, <2>1, AdminTaken
<1>9. M \subseteq S
  BY DEF Made
<1>10. Does(S, O, AskOnce, M, M, M)
  <2> HIDE DEF O, M, S
  <2> QED BY <1>9, AskEach
<1>11. /\ \A g \in Lvl(m, TRUE, L1) : Unwinds(S, freeCtrlr, g, Z)
       /\ \A g \in Lvl(m, TRUE, L2) : Unwinds(S, cleanupPci, g, Z)
       /\ \A g \in Lvl(m, TRUE, L3) : Unwinds(S, cleanupDma, g, Z)
       /\ \A g \in Lvl(m, TRUE, L4) : Unwinds(S, cleanupLockDomain, g, Z)
       /\ \A g \in Lvl(m, TRUE, L5) : Unwinds(S, freeQueueList, g, Z)
       /\ freeCtrlr \in Seq(Undos) /\ cleanupPci \in Seq(Undos) /\ cleanupDma \in Seq(Undos)
       /\ cleanupLockDomain \in Seq(Undos) /\ freeQueueList \in Seq(Undos)
  BY Labels
<1>12. \A g \in M : Unwinds(S, destroyAdminq, g, Z)
  <2> SUFFICES ASSUME NEW g \in M PROVE Unwinds(S, destroyAdminq, g, Z)
    OBVIOUS
  <2> DEFINE u == DestroyAdminQueue(TRUE, ~m, TRUE)
             F == Lvl(m, TRUE, L5)
  <2>1. Unwinds(S, u, g, F)
    BY <1>7, AdminDropped
  <2>2. \A f \in F : Unwinds(S, freeQueueList, f, Z)
    BY <1>11
  <2>3. u \in Seq(Undos)
    BY <2>1 DEF Unwinds
  <2> HIDE DEF u, F, S, Z
  <2>4. Unwinds(S, u \o freeQueueList, g, Z)
    BY <1>11, <2>1, <2>2, <2>3, UnwindsBoth
  <2> QED BY <2>4 DEF u
<1>13. destroyAdminq \in Seq(Undos)
  <2>1. DestroyAdminQueue(TRUE, ~m, TRUE) \in Seq(Undos)
    BY <1>7, AdminLabelTyped
  <2> DEFINE u == DestroyAdminQueue(TRUE, ~m, TRUE)
  <2> HIDE DEF u
  <2>2. u \o freeQueueList \in Seq(Undos)
    <3>1. u \in Seq(Undos) /\ freeQueueList \in Seq(Undos)
      BY <2>1, <1>11 DEF u
    <3>2. \A v, w \in Seq(Undos) : v \o w \in Seq(Undos)
      OBVIOUS
    <3> QED BY <3>1, <3>2
  <2> QED BY <2>2 DEF u
<1>14. Z \subseteq T /\ A \subseteq T /\ A \subseteq S
  BY LowSettled DEF AttachedStates, Settled
<1>15. Does(S, k, p7, M, A, T)
  <2> DEFINE t == <<"listed", 0>>
  <2>1. \A g \in M : g \cup {t} \in A
    BY <1>7, ListedAttached DEF Listed
  <2>2. Of(<<"listed">>) = <<t>>
    BY DEF Of, At
  <2>3. t \in Tokens \ {Cookies} /\ (t = Listed => "lists" \in k)
    BY CommonTokens DEF Listed, Cookies
  <2> HIDE DEF M, A, S, T, t
  <2> QED BY <1>9, <1>14, <2>1, <2>2, <2>3, AddEach
<1> DEFINE P0 == {h}
           P1 == {h1}
           P2 == {h2}
           P3 == {h3}
           P4 == {h4}
           P5 == {h5}
           F1 == Lvl(m, TRUE, L1)
           F2 == Lvl(m, TRUE, L2)
           F5 == Lvl(m, TRUE, L5)
<1>16. /\ Does(S, O, p0, P0, P1, P0) /\ Does(S, O, PciInit, P1, P2, F1) /\ Does(S, O, DmaInit, P2, P3, F2)
       /\ Does(S, O, p3, P3, P4, P3) /\ Does(S, O, p4, P4, P5, P4) /\ Does(S, O, p5, P5, M, F5)
  BY <1>2, <1>3, <1>4, <1>5, <1>6, <1>8
<1>17. /\ P0 \subseteq Z
       /\ \A g \in F1 : Unwinds(S, freeCtrlr, g, Z)
       /\ \A g \in F2 : Unwinds(S, cleanupPci, g, Z)
       /\ \A g \in P3 : Unwinds(S, cleanupDma, g, Z)
       /\ \A g \in P4 : Unwinds(S, cleanupLockDomain, g, Z)
       /\ \A g \in F5 : Unwinds(S, freeQueueList, g, Z)
  BY <1>1, <1>4, <1>5, <1>11
<1> HIDE DEF S, T, A, Z, M, O, destroyAdminq, p0, p3, p4, p5, p7, P0, P1, P2, P3, P4, P5, F1, F2, F5
<1>18. Does(S, O, p0, P0, P1, Z)
  BY <1>16, <1>17, DoesMore
<1> DEFINE r1 == p0 \o Within(PciInit, freeCtrlr)
           r2 == r1 \o Within(DmaInit, cleanupPci)
           r3 == r2 \o Within(p3, cleanupDma)
           r4 == r3 \o Within(p4, cleanupLockDomain)
           r5 == r4 \o Within(p5, freeQueueList)
           r6 == r5 \o Within(AskOnce, destroyAdminq)
<1>19. Does(S, O, r1, P0, P2, Z)
  <2>1. /\ "tries" \notin O /\ Does(S, O, p0, P0, P1, Z) /\ Does(S, O, PciInit, P1, P2, F1)
        /\ freeCtrlr \in Seq(Undos) /\ \A g \in F1 : Unwinds(S, freeCtrlr, g, Z)
    BY <1>1, <1>11, <1>16, <1>17, <1>18
  <2> QED BY <2>1, ThenWithin
<1> HIDE DEF r1
<1>20. Does(S, O, r2, P0, P3, Z)
  <2>1. /\ "tries" \notin O /\ Does(S, O, r1, P0, P2, Z) /\ Does(S, O, DmaInit, P2, P3, F2)
        /\ cleanupPci \in Seq(Undos) /\ \A g \in F2 : Unwinds(S, cleanupPci, g, Z)
    BY <1>1, <1>11, <1>16, <1>17, <1>19
  <2> QED BY <2>1, ThenWithin
<1> HIDE DEF r2
<1>21. Does(S, O, r3, P0, P4, Z)
  <2>1. /\ "tries" \notin O /\ Does(S, O, r2, P0, P3, Z) /\ Does(S, O, p3, P3, P4, P3)
        /\ cleanupDma \in Seq(Undos) /\ \A g \in P3 : Unwinds(S, cleanupDma, g, Z)
    BY <1>1, <1>11, <1>16, <1>17, <1>20
  <2> QED BY <2>1, ThenWithin
<1> HIDE DEF r3
<1>22. Does(S, O, r4, P0, P5, Z)
  <2>1. /\ "tries" \notin O /\ Does(S, O, r3, P0, P4, Z) /\ Does(S, O, p4, P4, P5, P4)
        /\ cleanupLockDomain \in Seq(Undos) /\ \A g \in P4 : Unwinds(S, cleanupLockDomain, g, Z)
    BY <1>1, <1>11, <1>16, <1>17, <1>21
  <2> QED BY <2>1, ThenWithin
<1> HIDE DEF r4
<1>23. Does(S, O, r5, P0, M, Z)
  <2>1. /\ "tries" \notin O /\ Does(S, O, r4, P0, P5, Z) /\ Does(S, O, p5, P5, M, F5)
        /\ freeQueueList \in Seq(Undos) /\ \A g \in F5 : Unwinds(S, freeQueueList, g, Z)
    BY <1>1, <1>11, <1>16, <1>17, <1>22
  <2> QED BY <2>1, ThenWithin
<1> HIDE DEF r5
<1>24. Does(S, O, r6, P0, M, Z)
  BY <1>1, <1>10, <1>12, <1>13, <1>23, ThenWithin
<1> HIDE DEF r6
<1>25. Does(S, k, r6, P0, M, T)
  BY <1>1, <1>14, <1>24, DoesMore
<1>26. Does(S, k, r6 \o p7, P0, A, T)
  BY <1>15, <1>25, DoesBoth
<1>27. Does(S, k, r6 \o p7, P0, T, T)
  BY <1>14, <1>26, DoesMore
<1>28. AttachDevice(m) = r6 \o p7
  BY DEF AttachDevice, r1, r2, r3, r4, r5, r6, p0, p3, p4, p5, p7, destroyAdminq, freeCtrlr, cleanupPci,
         cleanupDma, cleanupLockDomain, freeQueueList
<1> QED BY <1>27, <1>28 DEF S, T, P0

(* Without the admin queue and the interrupts, the lowest levels are left. *)
LEMMA DetachedLow ==
  ASSUME NEW m, NEW d, NEW h \in AttachedStates(m, d), <<"device", 0>> \notin h, NEW g \in Safe(m, d),
         g \subseteq h \ Named(0, GoneNames), Listed \notin g, Cookies \notin g, Array \notin g,
         h \ (Named(0, GoneNames) \cup {Listed, Cookies, Array}) \subseteq g
  PROVE  g \in Lvl(m, d, L5)
<1>1. /\ h \cap Upper = {} /\ Quiet(h) /\ Attached(m, h) /\ h \subseteq Tokens
  BY StageFacts, AttachedFacts
<1>2. Zero(ModuleNames \cup L5) \subseteq g
  <2>1. Zero(ModuleNames \cup L5) \subseteq Zero(ModuleNames \cup DeviceNames)
    BY DEF Zero, DeviceNames, L5, LowNames
  <2>2. Zero(ModuleNames \cup L5) \cap {Listed, Cookies, Array} = {}
    BY DEF Zero, ModuleNames, L5, LowNames, Listed, Cookies, Array
  <2>3. Zero(ModuleNames \cup L5) \cap Named(0, GoneNames) = {}
    <3>1. Zero(ModuleNames \cup L5) \subseteq Zero(CommonNames)
      BY DEF Zero, CommonNames, L5, LowNames, DeviceNames
    <3>2. Zero(CommonNames) \cap OfQueue(0) = {} /\ Named(0, GoneNames) \subseteq OfQueue(0)
      <4>1. GoneNames \subseteq QueueNames
        BY QueueNamesOf
      <4> QED BY <4>1, NamesApart DEF Named, OfQueue
    <3> QED BY <3>1, <3>2
  <2> QED BY <2>1, <2>2, <2>3, <1>1 DEF Attached
<1>3. g \subseteq Zero(ModuleNames \cup L5) \cup Left(m) \cup Ex
  <2> SUFFICES ASSUME NEW t \in g PROVE t \in Zero(ModuleNames \cup L5) \cup Left(m) \cup Ex
    OBVIOUS
  <2>1. t \in h /\ t \notin Upper /\ t \notin {Listed, Cookies, Array}
    BY <1>1
  <2>2. CASE t \in Zero(CommonNames)
    <3>1. PICK n \in CommonNames : t = <<n, 0>>
      BY <2>2 DEF Zero
    <3>2. n \notin AdapterNames \cup CtrlNames \cup ExtraNames
      BY <2>1, <3>1 DEF Upper, Zero
    <3>3. n \notin {"listed", "cookies", "intrArray"}
      BY <2>1, <3>1 DEF Listed, Cookies, Array
    <3>4. n \in ModuleNames \cup L5 \/ n = "msiHandler"
      BY <3>2, <3>3 DEF CommonNames, DeviceNames, L5, LowNames
    <3>5. n = "msiHandler" => m
      BY <2>1, <3>1, <1>1 DEF Attached
    <3>6. n = "msiHandler" => t \in Left(m)
      BY <3>1, <3>5 DEF Left
    <3> QED BY <3>1, <3>4, <3>6 DEF Zero
  <2>3. CASE t \notin Zero(CommonNames)
    <3>1. PICK q \in 0..MaxIoQueues : t \in OfQueue(q)
      BY <2>1, <2>3, <1>1 DEF Attached
    <3>2. CASE q = 0
      <4>1. t \notin Named(0, GoneNames)
        BY <2>1
      <4>2. t = <<"counted", 0>>
        <5>1. GoneNames \cup {"counted"} = QueueNames
          BY QueueNamesOf
        <5> QED BY <3>1, <3>2, <4>1, <5>1 DEF OfQueue, Named
      <4>3. <<"counted", 0>> \notin h
        BY <1>1 DEF Attached, AdminQueueOk, Named
      <4> QED BY <2>1, <4>2, <4>3
    <3>3. CASE q # 0
      <4>1. q \in IoQueues /\ q \in Nat
        BY <3>3, MaxIoQueuesAssumption DEF IoQueues
      <4>2. t = <<"exists", q>>
        BY <2>1, <3>1, <4>1, <1>1 DEF Quiet, QuietQueue
      <4> QED BY <4>1, <4>2 DEF Ex
    <3> QED BY <3>2, <3>3
  <2> QED BY <2>2, <2>3
<1>4. "queueList" \in L5
  BY DEF L5, LowNames
<1> QED BY <1>2, <1>3, <1>4 DEF Lvl, Low

(* detachDevice, with the admin queue and the interrupts that there are.   *)
LEMMA DetachedDoes ==
  ASSUME NEW m, NEW d, NEW h \in AttachedStates(m, d), <<"device", 0>> \notin h,
         NEW x \in BOOLEAN, x <=> ~m /\ Cookies \in h, NEW a \in BOOLEAN, a <=> Cookies \in h, NEW k
  PROVE  Does(Safe(m, d), k, DetachDevice(TRUE, x, a), {h}, Settled(m, d), Settled(m, d))
<1> DEFINE S == Safe(m, d)
           T == Settled(m, d)
           Z == Lvl(m, d, {})
           F5 == Lvl(m, d, L5)
           h1 == h \ {Listed}
           h2 == h1 \ Named(0, GoneNames)
           p1 == Each("put", Of(<<"listed">>))
           u1 == SuspendQueue(0) \o QueueDestroy(0, x)
           u2 == IF a THEN IntrFree ELSE <<>>
           p2 == u1 \o u2
           p3 == Each("put", Of(<<"queueList", "lockDomain">>))
           v3 == Each("put", Of(<<"queueList">>))
           w3 == Each("put", Of(<<"lockDomain">>))
           p6 == Each("put", Of(<<"ctrlr">>))
<1>1. /\ h \in S /\ h \subseteq Tokens /\ Attached(m, h) /\ Proper(h) /\ Listed \in h
      /\ (Cookies \in h <=> Array \in h) /\ Quiet(h) /\ h \cap Upper = {}
      /\ (<<"vector", 0>> \in h <=> ~m /\ Cookies \in h)
      /\ Named(0, BodyNames \cup {"exists"}) \subseteq h
  BY StageFacts, AttachedFacts, AttachedProper DEF Attached, AdminQueueOk, Array
<1>2. h1 \in S
  <2>1. \A t \in h \ {Listed} : MadeFrom(t) \cap {Listed} = {}
    <3> SUFFICES ASSUME NEW t \in h, Listed \in MadeFrom(t) PROVE FALSE
      OBVIOUS
    <3>1. PICK n \in Names, q \in Nat : t = <<n, q>>
      BY <1>1 DEF Tokens
    <3>2. n = "device"
      BY <3>1, LowUsers DEF Listed
    <3>3. q = 0
      BY <1>1, <3>1, <3>2 DEF Proper, CommonNames, AdapterNames
    <3> QED BY <3>1, <3>2, <3>3
  <2>2. Cookies \notin {Listed}
    BY CommonTokens
  <2> QED BY <1>1, <2>1, <2>2, SafeMinus
<1>3. Unwinds(S, p1, h, {h1})
  <2>1. Listed \in Tokens \ {QueueList} /\ "put" \in {"put", "drop"} /\ Of(<<"listed">>) = <<Listed>>
    BY CommonTokens DEF Listed, Of, At
  <2> HIDE DEF S
  <2>2. Unwinds(S, Each("put", <<Listed>>), h, {h1})
    BY <1>1, <1>2, <2>1, DropOne
  <2> QED BY <2>1, <2>2
<1>4. Unwinds(S, u1, h1, {h2}) /\ h2 \in S
  <2>1. \A n \in QueueNames : <<n, 0>> # Listed
    BY QueueNamesAre
  <2>2. /\ Named(0, BodyNames \cup {"exists"}) \subseteq h1
        /\ (x <=> <<"vector", 0>> \in h1)
    BY <1>1, <2>1 DEF Named, QueueNames
  <2> HIDE DEF h1
  <2>3. Unwinds(Safe(m, d), u1, h1, {h2})
    BY <1>2, <2>2, QueueStopped
  <2> HIDE DEF h2, u1
  <2> QED BY <2>3, UnwindsEnd
<1>5. /\ Listed \notin h2 /\ h2 \subseteq h \ Named(0, GoneNames)
      /\ h \ (Named(0, GoneNames) \cup {Listed, Cookies, Array}) \subseteq h2 \ {Cookies, Array}
  OBVIOUS
<1>6. /\ Cookies \in h2 <=> Cookies \in h
      /\ Array \in h2 <=> Array \in h
  <2>1. Cookies \notin Named(0, GoneNames) /\ Array \notin Named(0, GoneNames)
    <3>1. GoneNames \subseteq QueueNames
      BY QueueNamesOf
    <3>2. "intrArray" \notin QueueNames /\ "cookies" \notin QueueNames
      BY DEF QueueNames, BodyNames
    <3> QED BY <3>1, <3>2 DEF Named, Cookies, Array
  <2> QED BY <2>1, CommonTokens
<1>7. Unwinds(S, u2, h2, F5)
  <2>1. CASE a
    <3> DEFINE g == h2 \ {Array, Cookies}
               X == {g}
    <3>1. Proper(h2)
      BY <1>1, <1>5, ProperLess
    <3>2. \A q \in Nat : <<"vector", q>> \notin h2
      <4> SUFFICES ASSUME NEW q \in Nat, <<"vector", q>> \in h2 PROVE FALSE
        OBVIOUS
      <4>1. "vector" \in QueueNames /\ <<"vector", q>> \in h
        BY <1>5 DEF QueueNames
      <4>2. q = 0
        BY <4>1, <1>1, QuietHandlers
      <4>3. <<"vector", 0>> \in Named(0, GoneNames)
        BY DEF Named, GoneNames
      <4> QED BY <4>2, <4>3, <1>5
    <3>3. {Array, Cookies} \subseteq h2
      BY <2>1, <1>1, <1>6
    <3> HIDE DEF h2
    <3>4. Unwinds(S, IntrFree, h2, {g}) /\ g \in S
      BY <3>1, <3>2, <3>3, <1>4, <1>5, IntrFreed
    <3>5. g \in F5
      <4>1. /\ g \subseteq h \ Named(0, GoneNames) /\ Listed \notin g /\ Cookies \notin g /\ Array \notin g
            /\ h \ (Named(0, GoneNames) \cup {Listed, Cookies, Array}) \subseteq g
        BY <1>5
      <4> HIDE DEF g
      <4> QED BY <3>4, <4>1, DetachedLow
    <3>6. X \subseteq F5
      BY <3>5
    <3> HIDE DEF X, F5, S
    <3>7. Unwinds(S, IntrFree, h2, X)
      BY <3>4 DEF X
    <3> QED BY <2>1, <3>6, <3>7, UnwindsMore
  <2>2. CASE ~a
    <3>1. Cookies \notin h2 /\ Array \notin h2
      BY <2>2, <1>1, <1>6
    <3> HIDE DEF h2
    <3>2. h2 \in F5
      BY <3>1, <1>4, <1>5, DetachedLow
    <3> HIDE DEF S, F5
    <3>3. Unwinds(S, <<>>, h2, F5)
      BY <1>4, <3>2, NothingUndone
    <3> QED BY <2>2, <3>3
  <2> QED BY <2>1, <2>2
<1>8. /\ \A g \in F5 : Unwinds(S, v3, g, Lvl(m, d, L4))
      /\ \A g \in Lvl(m, d, L4) : Unwinds(S, w3, g, Lvl(m, d, L3))
      /\ \A g \in Lvl(m, d, L3) : Unwinds(S, DmaCleanup, g, Lvl(m, d, L2))
      /\ \A g \in Lvl(m, d, L2) : Unwinds(S, PciCleanup, g, Lvl(m, d, L1))
      /\ \A g \in Lvl(m, d, L1) : Unwinds(S, p6, g, Z)
  BY PutList, PutDomain, PutDma, PutBar, PutCtrlr
<1>9. /\ v3 \in Seq(Undos) /\ w3 \in Seq(Undos) /\ p6 \in Seq(Undos)
      /\ PciCleanup \in Seq(Undos) /\ DmaCleanup \in Seq(Undos)
  BY LabelsTyped
<1>10. Z \subseteq T
  BY LowSettled
<1>11. p3 = v3 \o w3
  BY EachTwo
<1>12. u1 \in Seq(Undos) /\ u2 \in Seq(Undos) /\ p1 \in Seq(Undos)
  BY <1>3, <1>4, <1>7 DEF Unwinds
<1> DEFINE F4 == Lvl(m, d, L4)
           F3 == Lvl(m, d, L3)
           F2 == Lvl(m, d, L2)
           F1 == Lvl(m, d, L1)
           H == {h}
           H1 == {h1}
           H2 == {h2}
<1>13. /\ \A g \in H : Unwinds(S, p1, g, H1)
       /\ \A g \in H1 : Unwinds(S, u1, g, H2)
       /\ \A g \in H2 : Unwinds(S, u2, g, F5)
       /\ \A g \in F5 : Unwinds(S, v3, g, F4)
       /\ \A g \in F4 : Unwinds(S, w3, g, F3)
       /\ \A g \in F3 : Unwinds(S, DmaCleanup, g, F2)
       /\ \A g \in F2 : Unwinds(S, PciCleanup, g, F1)
       /\ \A g \in F1 : Unwinds(S, p6, g, Z)
  BY <1>3, <1>4, <1>7, <1>8
<1> DEFINE r1 == p1 \o p2
           r2 == r1 \o p3
           r3 == r2 \o DmaCleanup
           r4 == r3 \o PciCleanup
           r5 == r4 \o p6
<1> HIDE DEF S, T, Z, F5, F4, F3, F2, F1, H, H1, H2, h1, h2, p1, u1, u2, v3, w3, p3, p6
<1>14. p2 \in Seq(Undos) /\ \A g \in H1 : Unwinds(S, p2, g, F5)
  BY <1>12, <1>13, UnwindsAll
<1> HIDE DEF p2
<1>15. r1 \in Seq(Undos) /\ \A g \in H : Unwinds(S, r1, g, F5)
  BY <1>12, <1>13, <1>14, UnwindsAll
<1> HIDE DEF r1
<1>16. p3 \in Seq(Undos) /\ \A g \in F5 : Unwinds(S, p3, g, F3)
  BY <1>9, <1>11, <1>13, UnwindsAll
<1>17. r2 \in Seq(Undos) /\ \A g \in H : Unwinds(S, r2, g, F3)
  BY <1>15, <1>16, UnwindsAll
<1> HIDE DEF r2
<1>18. r3 \in Seq(Undos) /\ \A g \in H : Unwinds(S, r3, g, F2)
  BY <1>9, <1>13, <1>17, UnwindsAll
<1> HIDE DEF r3
<1>19. r4 \in Seq(Undos) /\ \A g \in H : Unwinds(S, r4, g, F1)
  BY <1>9, <1>13, <1>18, UnwindsAll
<1> HIDE DEF r4
<1>20. r5 \in Seq(Undos) /\ \A g \in H : Unwinds(S, r5, g, Z)
  BY <1>9, <1>13, <1>19, UnwindsAll
<1> HIDE DEF r5
<1>21. Unwinds(S, r5, h, T)
  <2>1. Unwinds(S, r5, h, Z)
    BY <1>20 DEF H
  <2> QED BY <2>1, <1>10, UnwindsMore
<1>22. Does(S, k, r5, {h}, T, T)
  BY <1>20, <1>21, UnwindsDoes
<1>23. DetachDevice(TRUE, x, a) = r5
  BY DEF DetachDevice, DestroyAdminQueue, r1, r2, r3, r4, r5, p1, p2, u1, u2, p3, p6
<1> QED BY <1>22, <1>23 DEF S, T

-----------------------------------------------------------------------------
(* A call under way.                                                       *)

(* Where the labels of step i of p end, and the place after them.          *)
Aim(m, d, p, i, C) == IF p[i].do = "try" THEN C[i + 1] ELSE Settled(m, d)
After(p, i) == IF p[i].do = "try" THEN i + 1 ELSE Len(p) + 1
(* The call is under way with certificate C: at step i in a state of C[i], *)
(* or at label b of that step in a state that the labels lead to.          *)
UnderAt(m, h, p, i, b, x, d, k, C) ==
  /\ p \in Programs /\ Certified(Safe(m, d), k, p, C, Settled(m, d))
  /\ C[Len(p) + 1] \subseteq Settled(m, d)
  /\ i \in 1..(Len(p) + 1) /\ b \in Nat
  /\ ("lists" \in k \/ (d /\ ~m)) /\ i <= Len(p) => x = 0
  /\ \A j \in 1..Len(p) : p[j].do = "grant" => j = Len(p)
  /\ b = 0 /\ i <= Len(p) => h \in C[i]
  /\ i = Len(p) + 1 => b = 0 /\ h \in Settled(m, d)
  /\ b > 0 => /\ i <= Len(p) /\ b <= Len(p[i].undo)
              /\ \E g : /\ Unwinds(Safe(m, d), p[i].undo, g, Aim(m, d, p, i, C))
                        /\ h = Without(g, Given(p[i].undo, b - 1))
Going(m, h, p, i, b, x) == \E d \in BOOLEAN : \E k, C : UnderAt(m, h, p, i, b, x, d, k, C)

(* The steps of a program.                                                 *)
LEMMA ProgramIs ==
  ASSUME NEW p \in Programs
  PROVE  /\ Len(p) \in Nat
         /\ \A i \in 1..Len(p) : /\ p[i] \in StepRec /\ p[i].do \in Dos /\ p[i].token \in Tokens
                                 /\ p[i].undo \in Seq(Undos) /\ Len(p[i].undo) \in Nat
<1>1. Len(p) \in Nat /\ \A i \in 1..Len(p) : p[i] \in StepRec
  BY DEF Programs
<1>2. \A s \in StepRec : s.do \in Dos /\ s.token \in Tokens /\ s.undo \in Seq(Undos)
  BY DEF StepRec
<1>3. \A u \in Seq(Undos) : Len(u) \in Nat
  OBVIOUS
<1> QED BY <1>1, <1>2, <1>3

(* A certified program is under way at its first step.                     *)
LEMMA Starts ==
  ASSUME NEW m, NEW h, NEW p, NEW x, NEW d \in BOOLEAN, NEW k,
         Does(Safe(m, d), k, p, {h}, Settled(m, d), Settled(m, d)),
         "lists" \in k \/ (d /\ ~m) => x = 0,
         \A j \in 1..Len(p) : p[j].do = "grant" => j = Len(p)
  PROVE  Going(m, h, p, 1, 0, x)
<1> DEFINE T == Settled(m, d)
<1>1. p \in Programs /\ Len(p) \in Nat
  BY ProgramIs DEF Does
<1>2. PICK C : Certified(Safe(m, d), k, p, C, T) /\ {h} \subseteq C[1] /\ C[Len(p) + 1] \subseteq T
  BY DEF Does
<1>3. 1 \in 1..(Len(p) + 1) /\ 0 \in Nat /\ ~(0 > 0)
  BY <1>1
<1>4. 1 = Len(p) + 1 => h \in T
  BY <1>2
<1>5. h \in C[1]
  BY <1>2
<1> HIDE DEF T
<1>6. UnderAt(m, h, p, 1, 0, x, d, k, C)
  BY <1>1, <1>2, <1>3, <1>4, <1>5 DEF UnderAt, T
<1> QED BY <1>6 DEF Going

(* A step is done, and the next one follows.                               *)
LEMMA MovesOn ==
  ASSUME NEW m, NEW h, NEW p, NEW i, NEW x, NEW d \in BOOLEAN, NEW k, NEW C,
         UnderAt(m, h, p, i, 0, x, d, k, C), i <= Len(p), NEW g \in C[i + 1], NEW y, i < Len(p) => y = x
  PROVE  UnderAt(m, g, p, i + 1, 0, y, d, k, C)
<1>1. Len(p) \in Nat /\ i \in 1..Len(p) /\ i + 1 \in 1..(Len(p) + 1) /\ ~(0 > 0) /\ 0 \in Nat
  BY ProgramIs DEF UnderAt
<1>2. i + 1 = Len(p) + 1 => g \in Settled(m, d)
  BY DEF UnderAt
<1>3. i + 1 <= Len(p) => i <= Len(p) /\ y = x
  BY <1>1
<1> QED BY <1>1, <1>2, <1>3 DEF UnderAt

(* The labels have been done: the call ends, or goes on after a failure    *)
(* that is ignored.                                                        *)
LEMMA Ends ==
  ASSUME NEW m, NEW h, NEW p, NEW i, NEW b, NEW x, NEW d \in BOOLEAN, NEW k, NEW C,
         UnderAt(m, h, p, i, b, x, d, k, C), i <= Len(p), NEW g \in Aim(m, d, p, i, C)
  PROVE  UnderAt(m, g, p, After(p, i), 0, x, d, k, C)
<1>1. Len(p) \in Nat /\ i \in 1..Len(p) /\ i + 1 \in 1..(Len(p) + 1) /\ Len(p) + 1 \in 1..(Len(p) + 1)
      /\ ~(0 > 0) /\ 0 \in Nat /\ ~(Len(p) + 1 <= Len(p))
  BY ProgramIs DEF UnderAt
<1>2. CASE p[i].do = "try"
  <2>1. g \in C[i + 1] /\ After(p, i) = i + 1
    BY <1>2 DEF Aim, After
  <2>2. i + 1 = Len(p) + 1 => g \in Settled(m, d)
    BY <2>1 DEF UnderAt
  <2> QED BY <1>1, <2>1, <2>2 DEF UnderAt
<1>3. CASE p[i].do # "try"
  <2>1. g \in Settled(m, d) /\ After(p, i) = Len(p) + 1
    BY <1>3 DEF Aim, After
  <2> QED BY <1>1, <2>1 DEF UnderAt
<1> QED BY <1>2, <1>3

(* What is given back by one more label.                                   *)
LEMMA WithoutFacts ==
  ASSUME NEW h, NEW u \in Seq(Undos)
  PROVE  /\ Without(h, {}) = h /\ Given(u, 0) = {}
         /\ \A b \in 1..Len(u) : Given(u, b) = Given(u, b - 1) \cup {u[b].token}
<1>1. Without(h, {}) = h
  BY DEF Without
<1>2. Given(u, 0) = {}
  <2>1. 1..0 = {}
    OBVIOUS
  <2> QED BY <2>1 DEF Given
<1>3. ASSUME NEW b \in 1..Len(u) PROVE Given(u, b) = Given(u, b - 1) \cup {u[b].token}
  <2>1. 1..b = 1..(b - 1) \cup {b}
    OBVIOUS
  <2> QED BY <2>1 DEF Given
<1> QED BY <1>1, <1>2, <1>3

(* A step fails: its labels follow, or what follows them.                  *)
LEMMA Fails ==
  ASSUME NEW m, NEW h, NEW p, NEW i, NEW x, NEW d \in BOOLEAN, NEW k, NEW C,
         UnderAt(m, h, p, i, 0, x, d, k, C), i <= Len(p),
         Unwinds(Safe(m, d), p[i].undo, h, Aim(m, d, p, i, C))
  PROVE  /\ p[i].undo # <<>> => UnderAt(m, h, p, i, 1, x, d, k, C)
         /\ p[i].undo = <<>> => UnderAt(m, h, p, After(p, i), 0, x, d, k, C)
<1> DEFINE u == p[i].undo
           F == Aim(m, d, p, i, C)
<1>1. Len(p) \in Nat /\ i \in 1..Len(p) /\ u \in Seq(Undos) /\ Len(u) \in Nat
  BY ProgramIs DEF UnderAt
<1>2. Without(h, {}) = h /\ Given(u, 0) = {}
  BY <1>1, WithoutFacts
<1>3. CASE u # <<>>
  <2>1. 1 <= Len(u) /\ 1 > 0 /\ 1 \in Nat /\ 1 - 1 = 0 /\ i # Len(p) + 1 /\ 1 # 0
    BY <1>1, <1>3
  <2>2. Unwinds(Safe(m, d), u, h, F) /\ h = Without(h, Given(u, 1 - 1))
    BY <1>2, <2>1
  <2> HIDE DEF F
  <2> QED BY <1>1, <1>3, <2>1, <2>2 DEF UnderAt, F
<1>4. CASE u = <<>>
  <2>1. Len(u) = 0
    BY <1>4
  <2>2. h \in F
    BY <1>2, <2>1 DEF Unwinds
  <2> QED BY <1>4, <2>2, Ends
<1> QED BY <1>3, <1>4

UndoFacts(m, h, p, i, b, x, d, k, C) ==
  /\ i \in 1..Len(p) /\ b \in 1..Len(p[i].undo)
  /\ p[i].undo[b] \in Undos /\ p[i].undo[b].do \in {"put", "drop"}
  /\ p[i].undo[b].do = "put" => p[i].undo[b].token \in h
  /\ h \in Safe(m, d) /\ Without(h, {p[i].undo[b].token}) \in Safe(m, d)
  /\ b < Len(p[i].undo) => UnderAt(m, Without(h, {p[i].undo[b].token}), p, i, b + 1, x, d, k, C)
  /\ ~(b < Len(p[i].undo)) =>
       UnderAt(m, Without(h, {p[i].undo[b].token}), p, After(p, i), 0, x, d, k, C)

(* A label is done: what it gives back is held and in use by nothing, and  *)
(* the next one follows.                                                   *)
LEMMA Undoes ==
  ASSUME NEW m, NEW h, NEW p, NEW i, NEW b, NEW x, NEW d \in BOOLEAN, NEW k, NEW C,
         UnderAt(m, h, p, i, b, x, d, k, C), b > 0
  PROVE  UndoFacts(m, h, p, i, b, x, d, k, C)
<1> DEFINE u == p[i].undo
           F == Aim(m, d, p, i, C)
           S == Safe(m, d)
           f == Without(h, {u[b].token})
<1>1. /\ Len(p) \in Nat /\ i \in 1..Len(p) /\ u \in Seq(Undos) /\ Len(u) \in Nat /\ b \in 1..Len(u)
      /\ i <= Len(p)
  BY ProgramIs DEF UnderAt
<1>2. PICK g : Unwinds(S, u, g, F) /\ h = Without(g, Given(u, b - 1))
  BY DEF UnderAt
<1>3. u[b] \in Undos /\ u[b].do \in {"put", "drop"}
  <2>1. u[b] \in Undos
    <3> HIDE DEF u
    <3> QED BY <1>1
  <2>2. \A v \in Undos : v.do \in {"put", "drop"}
    BY DEF Undos
  <2> QED BY <2>1, <2>2
<1>4. u[b].do = "put" => u[b].token \in h
  BY <1>1, <1>2 DEF Unwinds
<1>5. f = Without(g, Given(u, b)) /\ h \in S /\ f \in S
  <2>1. Given(u, b) = Given(u, b - 1) \cup {u[b].token}
    BY <1>1, WithoutFacts
  <2>2. f = Without(g, Given(u, b))
    BY <1>2, <2>1, WithoutTwice
  <2>3. b \in 0..Len(u) /\ b - 1 \in 0..Len(u)
    BY <1>1
  <2> HIDE DEF f, u, S
  <2> QED BY <1>2, <2>2, <2>3 DEF Unwinds
<1>6. ASSUME b < Len(u) PROVE UnderAt(m, f, p, i, b + 1, x, d, k, C)
  <2>1. b + 1 <= Len(u) /\ b + 1 > 0 /\ b + 1 \in Nat /\ (b + 1) - 1 = b /\ i # Len(p) + 1 /\ b + 1 # 0
    BY <1>1, <1>6
  <2>2. Unwinds(S, u, g, F) /\ f = Without(g, Given(u, (b + 1) - 1))
    BY <1>2, <1>5, <2>1
  <2> HIDE DEF F, f
  <2> QED BY <1>1, <2>1, <2>2 DEF UnderAt, F
<1>7. ASSUME ~(b < Len(u)) PROVE UnderAt(m, f, p, After(p, i), 0, x, d, k, C)
  <2>1. b = Len(u)
    BY <1>1, <1>7
  <2>2. f \in F
    BY <1>2, <1>5, <2>1 DEF Unwinds
  <2> HIDE DEF f
  <2> QED BY <1>1, <2>2, Ends
<1> QED BY <1>1, <1>3, <1>4, <1>5, <1>6, <1>7 DEF UndoFacts

Facts(m, h, p, i, b, x, d, k, C) ==
  /\ h \in Safe(m, d) /\ p \in Programs /\ Len(p) \in Nat /\ i \in 1..(Len(p) + 1) /\ b \in Nat
  /\ i <= Len(p) => i \in 1..Len(p)
  /\ b = 0 /\ i <= Len(p) => /\ Kind(k, p[i]) /\ h \in C[i]
                             /\ StepOK(Safe(m, d), k, p[i], h, C[i + 1], Settled(m, d))
                             /\ C[i + 1] \subseteq Safe(m, d)
  /\ i > Len(p) => b = 0 /\ h \in Settled(m, d)
  /\ ("lists" \in k \/ (d /\ ~m)) /\ i <= Len(p) => x = 0

(* A call that is under way: the step that it is at is certified for what  *)
(* is held.                                                                *)
LEMMA UnderFacts ==
  ASSUME NEW m, NEW h, NEW p, NEW i, NEW b, NEW x, NEW d \in BOOLEAN, NEW k, NEW C,
         UnderAt(m, h, p, i, b, x, d, k, C)
  PROVE  Facts(m, h, p, i, b, x, d, k, C)
<1>1. p \in Programs /\ Len(p) \in Nat /\ i \in 1..(Len(p) + 1) /\ b \in Nat
  BY ProgramIs DEF UnderAt
<1>2. i <= Len(p) => i \in 1..Len(p) /\ i + 1 \in 1..(Len(p) + 1)
  BY <1>1
<1>3. i > Len(p) => i = Len(p) + 1
  BY <1>1
<1>4. C \in [1..Len(p) + 1 -> SUBSET Safe(m, d)]
  BY DEF UnderAt, Certified
<1>5. h \in Safe(m, d)
  <2>1. CASE b > 0
    <3>1. \E g, F : Unwinds(Safe(m, d), p[i].undo, g, F) /\ h = Without(g, Given(p[i].undo, b - 1))
                     /\ b <= Len(p[i].undo)
      BY <2>1 DEF UnderAt
    <3>2. b - 1 \in 0..Len(p[i].undo)
      BY <2>1, <1>1, <3>1, ProgramIs DEF UnderAt
    <3> QED BY <3>1, <3>2 DEF Unwinds
  <2>2. CASE b = 0 /\ i <= Len(p)
    <3>1. h \in C[i]
      BY <2>2 DEF UnderAt
    <3> QED BY <1>1, <1>4, <3>1
  <2>3. CASE i > Len(p)
    BY <1>3, <2>3 DEF UnderAt, Settled
  <2> QED BY <1>1, <2>1, <2>2, <2>3
<1>6. ASSUME b = 0, i <= Len(p)
      PROVE  /\ Kind(k, p[i]) /\ h \in C[i]
             /\ StepOK(Safe(m, d), k, p[i], h, C[i + 1], Settled(m, d))
             /\ C[i + 1] \subseteq Safe(m, d)
  <2>1. i \in 1..Len(p) /\ h \in C[i]
    BY <1>2, <1>6 DEF UnderAt
  <2>2. Kind(k, p[i]) /\ StepOK(Safe(m, d), k, p[i], h, C[i + 1], Settled(m, d))
    BY <2>1 DEF UnderAt, Certified
  <2>3. C[i + 1] \subseteq Safe(m, d)
    BY <1>2, <1>4, <1>6
  <2> QED BY <2>1, <2>2, <2>3
<1>7. i > Len(p) => b = 0 /\ h \in Settled(m, d)
  BY <1>3 DEF UnderAt
<1>8. ("lists" \in k \/ (d /\ ~m)) /\ i <= Len(p) => x = 0
  BY DEF UnderAt
<1> QED BY <1>1, <1>2, <1>5, <1>6, <1>7, <1>8 DEF Facts

(* The invariant. The numbers: interrupts are counted while the cookies    *)
(* are held, and a controller with MSIX has more interrupts than IO        *)
(* queues. The call: settled, or under way with a certificate.             *)
CtrlNumbers ==
  /\ numIntrs \in Nat /\ maxIoQueues \in Nat /\ msi \in BOOLEAN /\ isRemoved \in BOOLEAN
  /\ numIntrs > 0 <=> Cookies \in held
  /\ ~msi /\ maxIoQueues > 0 /\ Listed \in held => maxIoQueues < numIntrs
CtrlCall ==
  \/ Idle /\ held \in Settled(msi, TRUE) /\ call = NoCall /\ pos = 0 /\ back = 0
  \/ ~Idle /\ Going(msi, held, call.steps, pos, back, maxIoQueues)
CtrlInv == CtrlNumbers /\ CtrlCall

(* A step of a call leaves a call that is under way.                       *)
LEMMA StillGoing ==
  ASSUME ~Idle, call' = call, msi' = msi, NEW d \in BOOLEAN, NEW k, NEW C,
         UnderAt(msi, held', call.steps, pos', back', maxIoQueues', d, k, C)
  PROVE  CtrlCall'
BY DEF CtrlCall, Going, Idle

(* UnderFacts and Undoes where the call is.                                *)
HereFacts(d, k, C) == Facts(msi, held, call.steps, pos, back, maxIoQueues, d, k, C)
HereUndo(d, k, C) == UndoFacts(msi, held, call.steps, pos, back, maxIoQueues, d, k, C)

(* The certificate of a call, at the place where the call is.              *)
LEMMA InCall ==
  ASSUME CtrlInv, ~Idle
  PROVE  \E d \in BOOLEAN : \E k, C :
           /\ UnderAt(msi, held, call.steps, pos, back, maxIoQueues, d, k, C)
           /\ HereFacts(d, k, C) /\ (back > 0 => HereUndo(d, k, C))
<1>1a. PICK d \in BOOLEAN : \E k, C : UnderAt(msi, held, call.steps, pos, back, maxIoQueues, d, k, C)
  BY DEF CtrlInv, CtrlCall, Going
<1>1. PICK k, C : UnderAt(msi, held, call.steps, pos, back, maxIoQueues, d, k, C)
  BY <1>1a
<1>2. HereFacts(d, k, C)
  BY <1>1, UnderFacts DEF HereFacts
<1>3. back > 0 => HereUndo(d, k, C)
  BY <1>1, Undoes DEF HereUndo
<1> QED BY <1>1, <1>2, <1>3

(* Only a step that gives back is a step of the labels. *)
LEMMA MainStep ==
  ASSUME CtrlInv, Running, NextStep.do \notin {"put", "drop"}
  PROVE  back = 0 /\ NextStep = call.steps[pos]
<1>1a. PICK d \in BOOLEAN : \E k, C :
          /\ UnderAt(msi, held, call.steps, pos, back, maxIoQueues, d, k, C)
          /\ HereFacts(d, k, C) /\ (back > 0 => HereUndo(d, k, C))
  BY InCall DEF Running
<1>1. PICK k, C :
          /\ UnderAt(msi, held, call.steps, pos, back, maxIoQueues, d, k, C)
          /\ HereFacts(d, k, C) /\ (back > 0 => HereUndo(d, k, C))
  BY <1>1a
<1>2. back \in Nat
  BY <1>1 DEF HereFacts, Facts
<1>3. CASE back > 0
  <2>1. call.steps[pos].undo[back].do \in {"put", "drop"}
    BY <1>1, <1>3 DEF HereUndo, UndoFacts
  <2> QED BY <2>1, <1>3 DEF NextStep
<1>4. CASE back = 0
  BY <1>4 DEF NextStep
<1> QED BY <1>2, <1>3, <1>4

(* Take preserves the invariant.                                           *)
LEMMA TakeStays ==
  ASSUME CtrlInv, Take
  PROVE  CtrlInv'
<1> DEFINE s == call.steps[pos]
<1>1. Running /\ ~Idle /\ pos <= Len(call.steps) /\ NextStep.do \in {"get", "add", "try"}
  BY DEF Take, StepIs, Running
<1>2. NextStep.do \notin {"put", "drop"} /\ NextStep.do # "cookies"
  BY <1>1
<1>3. back = 0 /\ NextStep = s
  BY <1>1, <1>2, MainStep
<1>4a. PICK d \in BOOLEAN : \E k, C :
          /\ UnderAt(msi, held, call.steps, pos, back, maxIoQueues, d, k, C)
          /\ HereFacts(d, k, C) /\ (back > 0 => HereUndo(d, k, C))
  BY <1>1, InCall
<1>4. PICK k, C :
          /\ UnderAt(msi, held, call.steps, pos, back, maxIoQueues, d, k, C)
          /\ HereFacts(d, k, C) /\ (back > 0 => HereUndo(d, k, C))
  BY <1>4a
<1>5. /\ Kind(k, s) /\ StepOK(Safe(msi, d), k, s, held, C[pos + 1], Settled(msi, d))
      /\ ("lists" \in k \/ (d /\ ~msi)) => maxIoQueues = 0
  BY <1>1, <1>3, <1>4 DEF HereFacts, Facts
<1>6. held' = held \cup {s.token} /\ pos' = pos + 1 /\ back' = 0
  BY <1>3 DEF Take, Forward
<1>7. held' \in C[pos + 1]
  <2>1. CASE s.do \in {"get", "add"}
    BY <2>1, <1>5, <1>6 DEF StepOK
  <2>2. CASE s.do = "try"
    <3>1. ~Skipped
      BY <1>3, <2>2 DEF Take, StepIs
    <3>2. ~(s.token \in held \/ ~(s.if \subseteq held))
      BY <3>1, <1>3 DEF Skipped
    <3> QED BY <2>2, <3>2, <1>5, <1>6 DEF StepOK
  <2> QED BY <1>1, <1>3, <2>1, <2>2
<1>8. UNCHANGED <<call, msi, numIntrs, maxIoQueues, isRemoved>>
  BY DEF Take
<1>9. CtrlCall'
  <2>1. UnderAt(msi, held', call.steps, pos + 1, 0, maxIoQueues, d, k, C)
    BY <1>1, <1>3, <1>4, <1>7, MovesOn
  <2>2. UnderAt(msi, held', call.steps, pos', back', maxIoQueues', d, k, C)
    BY <2>1, <1>6, <1>8
  <2> QED BY <2>2, <1>1, <1>8, StillGoing
<1>10. CtrlNumbers'
  <2>1. s.token # Cookies
    BY <1>1, <1>2, <1>3, <1>5 DEF Kind
  <2>2. Cookies \in held' <=> Cookies \in held
    BY <2>1, <1>6
  <2>3. s.token = Listed => "lists" \in k
    BY <1>1, <1>3, <1>5 DEF Kind
  <2>4. Listed \in held' => Listed \in held \/ maxIoQueues = 0
    BY <2>3, <1>5, <1>6
  <2> QED BY <2>2, <2>4, <1>8 DEF CtrlInv, CtrlNumbers
<1> QED BY <1>9, <1>10 DEF CtrlInv

(* A step that fails with nothing taken: its labels, or the end. *)
LEMMA FailStays ==
  ASSUME CtrlInv, Running, back = 0, FailStep, UNCHANGED <<held, call, msi, numIntrs, maxIoQueues, isRemoved>>,
         NextStep.do \in {"get", "ask", "refuse", "cookies", "gate", "grant"}
           \/ (NextStep.do = "try" /\ ~Skipped)
  PROVE  CtrlInv'
<1> DEFINE s == call.steps[pos]
<1>1. ~Idle /\ pos <= Len(call.steps) /\ NextStep = s
  BY DEF Running, NextStep
<1>2a. PICK d \in BOOLEAN : \E k, C :
          /\ UnderAt(msi, held, call.steps, pos, back, maxIoQueues, d, k, C)
          /\ HereFacts(d, k, C) /\ (back > 0 => HereUndo(d, k, C))
  BY <1>1, InCall
<1>2. PICK k, C :
          /\ UnderAt(msi, held, call.steps, pos, back, maxIoQueues, d, k, C)
          /\ HereFacts(d, k, C) /\ (back > 0 => HereUndo(d, k, C))
  BY <1>2a
<1>3. StepOK(Safe(msi, d), k, s, held, C[pos + 1], Settled(msi, d))
  BY <1>1, <1>2 DEF HereFacts, Facts
<1>4. Unwinds(Safe(msi, d), s.undo, held, Aim(msi, d, call.steps, pos, C))
  <2>1. CASE s.do = "try"
    <3>1. ~(s.token \in held \/ ~(s.if \subseteq held))
      BY <2>1, <1>1 DEF Skipped
    <3> QED BY <2>1, <3>1, <1>3 DEF StepOK, Aim
  <2>2. CASE s.do \in {"get", "ask", "refuse", "cookies", "gate", "grant"}
    <3>1. s.do # "try"
      BY <2>2
    <3> QED BY <2>2, <3>1, <1>3 DEF StepOK, Aim
  <2> QED BY <1>1, <2>1, <2>2
<1>5. /\ s.undo # <<>> => UnderAt(msi, held, call.steps, pos, 1, maxIoQueues, d, k, C)
      /\ s.undo = <<>> => UnderAt(msi, held, call.steps, After(call.steps, pos), 0, maxIoQueues, d, k, C)
  BY <1>1, <1>2, <1>4, Fails
<1>6. UnderAt(msi, held', call.steps, pos', back', maxIoQueues', d, k, C)
  <2>1. CASE s.undo # <<>>
    <3>1. pos' = pos /\ back' = 1
      BY <2>1, <1>1 DEF FailStep
    <3> QED BY <2>1, <3>1, <1>5
  <2>2. CASE s.undo = <<>>
    <3>1. back' = 0 /\ pos' = After(call.steps, pos)
      BY <2>2, <1>1 DEF FailStep, After
    <3> QED BY <2>2, <3>1, <1>5
  <2> QED BY <2>1, <2>2
<1>7. CtrlCall'
  BY <1>1, <1>6, StillGoing
<1>8. CtrlNumbers'
  BY DEF CtrlInv, CtrlNumbers
<1> QED BY <1>7, <1>8 DEF CtrlInv

(* Every failure preserves the invariant.                                  *)
LEMMA RefuseStays ==
  ASSUME CtrlInv, Refuse \/ Gate \/ GrantNothing
  PROVE  CtrlInv'
<1>1. Running /\ ( NextStep.do \in {"get", "ask", "refuse", "cookies", "gate", "grant"}
                   \/ (NextStep.do = "try" /\ ~Skipped) )
  BY DEF Refuse, Gate, GrantNothing, StepIs
<1>2. NextStep.do \notin {"put", "drop"}
  BY <1>1
<1>3. back = 0
  BY <1>1, <1>2, MainStep
<1> QED BY <1>1, <1>3, FailStays DEF Refuse, Gate, GrantNothing

(* Answer preserves the invariant.                                         *)
LEMMA AnswerStays ==
  ASSUME CtrlInv, Answer
  PROVE  CtrlInv'
<1> DEFINE s == call.steps[pos]
<1>1. /\ Running /\ ~Idle /\ pos <= Len(call.steps) /\ NextStep.do \in {"ask", "gate", "try"}
      /\ NextStep.do = "try" => Skipped
  BY DEF Answer, StepIs, Running
<1>2. NextStep.do \notin {"put", "drop"}
  BY <1>1
<1>3. back = 0 /\ NextStep = s
  BY <1>1, <1>2, MainStep
<1>4a. PICK d \in BOOLEAN : \E k, C :
          /\ UnderAt(msi, held, call.steps, pos, back, maxIoQueues, d, k, C)
          /\ HereFacts(d, k, C) /\ (back > 0 => HereUndo(d, k, C))
  BY <1>1, InCall
<1>4. PICK k, C :
          /\ UnderAt(msi, held, call.steps, pos, back, maxIoQueues, d, k, C)
          /\ HereFacts(d, k, C) /\ (back > 0 => HereUndo(d, k, C))
  BY <1>4a
<1>5. StepOK(Safe(msi, d), k, s, held, C[pos + 1], Settled(msi, d))
  BY <1>1, <1>3, <1>4 DEF HereFacts, Facts
<1>6. held \in C[pos + 1]
  <2>1. CASE s.do \in {"ask", "gate"}
    BY <2>1, <1>5 DEF StepOK
  <2>2. CASE s.do = "try"
    <3>1. s.token \in held \/ ~(s.if \subseteq held)
      BY <2>2, <1>1, <1>3 DEF Skipped
    <3> QED BY <2>2, <3>1, <1>5 DEF StepOK
  <2> QED BY <1>1, <1>3, <2>1, <2>2
<1>7. pos' = pos + 1 /\ back' = 0 /\ UNCHANGED <<held, call, msi, numIntrs, maxIoQueues, isRemoved>>
  BY <1>3 DEF Answer, Forward
<1>8. UnderAt(msi, held, call.steps, pos + 1, 0, maxIoQueues, d, k, C)
  BY <1>1, <1>3, <1>4, <1>6, MovesOn
<1>9. UnderAt(msi, held', call.steps, pos', back', maxIoQueues', d, k, C)
  BY <1>7, <1>8
<1>10. CtrlCall'
  BY <1>1, <1>7, <1>9, StillGoing
<1>11. CtrlNumbers'
  BY <1>7 DEF CtrlInv, CtrlNumbers
<1> QED BY <1>10, <1>11 DEF CtrlInv

(* TakeCookies preserves the invariant, whatever number is granted.        *)
LEMMA CookiesStay ==
  ASSUME CtrlInv, NEW n \in Nat \ {0}, TakeCookies(n)
  PROVE  CtrlInv'
<1> DEFINE s == call.steps[pos]
<1>1. Running /\ ~Idle /\ pos <= Len(call.steps) /\ NextStep.do = "cookies"
  BY DEF TakeCookies, StepIs, Running
<1>2. NextStep.do \notin {"put", "drop"}
  BY <1>1
<1>3. back = 0 /\ NextStep = s
  BY <1>1, <1>2, MainStep
<1>4a. PICK d \in BOOLEAN : \E k, C :
          /\ UnderAt(msi, held, call.steps, pos, back, maxIoQueues, d, k, C)
          /\ HereFacts(d, k, C) /\ (back > 0 => HereUndo(d, k, C))
  BY <1>1, InCall
<1>4. PICK k, C :
          /\ UnderAt(msi, held, call.steps, pos, back, maxIoQueues, d, k, C)
          /\ HereFacts(d, k, C) /\ (back > 0 => HereUndo(d, k, C))
  BY <1>4a
<1>5. Kind(k, s) /\ StepOK(Safe(msi, d), k, s, held, C[pos + 1], Settled(msi, d))
  BY <1>1, <1>3, <1>4 DEF HereFacts, Facts
<1>6. s.token = Cookies /\ (Cookies \notin held \/ Listed \notin held) /\ held \cup {s.token} \in C[pos + 1]
  BY <1>1, <1>3, <1>5 DEF Kind, StepOK
<1>7. /\ held' = held \cup {Cookies} /\ numIntrs' = n /\ pos' = pos + 1 /\ back' = 0
      /\ UNCHANGED <<call, msi, maxIoQueues, isRemoved>>
  BY <1>3, <1>6 DEF TakeCookies, Forward
<1>8. UnderAt(msi, held', call.steps, pos', back', maxIoQueues', d, k, C)
  <2>1. held' \in C[pos + 1]
    BY <1>6, <1>7
  <2>2. UnderAt(msi, held', call.steps, pos + 1, 0, maxIoQueues, d, k, C)
    BY <1>1, <1>3, <1>4, <2>1, MovesOn
  <2> QED BY <1>7, <2>2
<1>9. CtrlCall'
  BY <1>1, <1>7, <1>8, StillGoing
<1>10. CtrlNumbers'
  <2>1. Listed # Cookies
    BY CommonTokens
  <2>2. Listed \in held' => Listed \in held /\ Cookies \notin held
    BY <2>1, <1>6, <1>7
  <2>3. ~msi /\ maxIoQueues > 0 => Listed \notin held'
    BY <2>2 DEF CtrlInv, CtrlNumbers
  <2> QED BY <2>3, <1>7 DEF CtrlInv, CtrlNumbers
<1> QED BY <1>9, <1>10 DEF CtrlInv

(* Grant preserves the invariant: no more queues than interrupts.          *)
LEMMA GrantStays ==
  ASSUME CtrlInv, NEW n \in Nat \ {0}, Grant(n)
  PROVE  CtrlInv'
<1> DEFINE s == call.steps[pos]
<1>1. Running /\ ~Idle /\ pos <= Len(call.steps) /\ NextStep.do = "grant"
  BY DEF Grant, StepIs, Running
<1>2. NextStep.do \notin {"put", "drop"}
  BY <1>1
<1>3. back = 0 /\ NextStep = s
  BY <1>1, <1>2, MainStep
<1>4a. PICK d \in BOOLEAN : \E k, C :
          /\ UnderAt(msi, held, call.steps, pos, back, maxIoQueues, d, k, C)
          /\ HereFacts(d, k, C) /\ (back > 0 => HereUndo(d, k, C))
  BY <1>1, InCall
<1>4. PICK k, C :
          /\ UnderAt(msi, held, call.steps, pos, back, maxIoQueues, d, k, C)
          /\ HereFacts(d, k, C) /\ (back > 0 => HereUndo(d, k, C))
  BY <1>4a
<1>5. StepOK(Safe(msi, d), k, s, held, C[pos + 1], Settled(msi, d)) /\ pos \in 1..Len(call.steps)
  BY <1>1, <1>3, <1>4 DEF HereFacts, Facts
<1>6. held \in C[pos + 1] /\ pos = Len(call.steps)
  BY <1>1, <1>3, <1>4, <1>5 DEF StepOK, UnderAt
<1>7. /\ pos' = pos + 1 /\ back' = 0 /\ maxIoQueues' = n /\ OfferedQueues >= 1 /\ n \in 1..OfferedQueues
      /\ UNCHANGED <<held, call, msi, numIntrs, isRemoved>>
  BY <1>3 DEF Grant, Forward
<1>8. UnderAt(msi, held, call.steps, pos + 1, 0, n, d, k, C)
  <2>1. ~(pos < Len(call.steps))
    BY <1>5, <1>6
  <2> QED BY <1>1, <1>3, <1>4, <1>6, <2>1, MovesOn
<1>9. UnderAt(msi, held', call.steps, pos', back', maxIoQueues', d, k, C)
  BY <1>7, <1>8
<1>10. CtrlCall'
  BY <1>1, <1>7, <1>9, StillGoing
<1>11. CtrlNumbers'
  <2>1. ~msi => n < numIntrs
    BY <1>7 DEF CtrlInv, CtrlNumbers, OfferedQueues
  <2> QED BY <2>1, <1>7 DEF CtrlInv, CtrlNumbers
<1> QED BY <1>10, <1>11 DEF CtrlInv

(* What GiveBack takes away. *)
LEMMA ContentsAre ==
  ASSUME NEW t
  PROVE  held \ Contents(t) = Without(held, {t})
BY DEF Contents, Without, QueueList

(* GiveBack preserves the invariant, in a program and in its labels.       *)
LEMMA GiveBackStays ==
  ASSUME CtrlInv, GiveBack
  PROVE  CtrlInv'
<1> DEFINE s == call.steps[pos]
           t == NextStep.token
           g == Without(held, {t})
<1>1. Running /\ ~Idle /\ pos <= Len(call.steps) /\ NextStep.do \in {"put", "drop"}
  BY DEF GiveBack, StepIs, Running
<1>2a. PICK d \in BOOLEAN : \E k, C :
          /\ UnderAt(msi, held, call.steps, pos, back, maxIoQueues, d, k, C)
          /\ HereFacts(d, k, C) /\ (back > 0 => HereUndo(d, k, C))
  BY <1>1, InCall
<1>2. PICK k, C :
          /\ UnderAt(msi, held, call.steps, pos, back, maxIoQueues, d, k, C)
          /\ HereFacts(d, k, C) /\ (back > 0 => HereUndo(d, k, C))
  BY <1>2a
<1>3. back \in Nat /\ (("lists" \in k \/ (d /\ ~msi)) => maxIoQueues = 0)
  BY <1>1, <1>2 DEF HereFacts, Facts
<1>4. held' = g /\ UNCHANGED <<call, msi, maxIoQueues, isRemoved>>
  BY ContentsAre DEF GiveBack
<1>5. g \in Safe(msi, d) /\ UnderAt(msi, g, call.steps, pos', back', maxIoQueues, d, k, C)
  <2>1. CASE back = 0
    <3>1. NextStep = s /\ pos' = pos + 1 /\ back' = 0
      BY <2>1 DEF NextStep, GiveBack, Forward
    <3>2. StepOK(Safe(msi, d), k, s, held, C[pos + 1], Settled(msi, d)) /\ C[pos + 1] \subseteq Safe(msi, d)
      BY <1>1, <1>2, <2>1 DEF HereFacts, Facts
    <3>3. g \in C[pos + 1]
      BY <1>1, <3>1, <3>2 DEF StepOK
    <3> HIDE DEF g
    <3>4. UnderAt(msi, g, call.steps, pos + 1, 0, maxIoQueues, d, k, C)
      BY <1>1, <1>2, <2>1, <3>3, MovesOn
    <3> QED BY <3>1, <3>2, <3>3, <3>4
  <2>2. CASE back > 0
    <3>1. t = s.undo[back].token
      BY <2>2 DEF NextStep
    <3>2. /\ g \in Safe(msi, d)
          /\ back < Len(s.undo) => UnderAt(msi, g, call.steps, pos, back + 1, maxIoQueues, d, k, C)
          /\ ~(back < Len(s.undo)) =>
               UnderAt(msi, g, call.steps, After(call.steps, pos), 0, maxIoQueues, d, k, C)
      BY <1>2, <2>2, <3>1 DEF HereUndo, UndoFacts
    <3>3. /\ back < Len(s.undo) => pos' = pos /\ back' = back + 1
          /\ ~(back < Len(s.undo)) => pos' = After(call.steps, pos) /\ back' = 0
      BY <2>2 DEF GiveBack, Forward, After
    <3> HIDE DEF g
    <3> QED BY <3>2, <3>3
  <2> QED BY <1>3, <2>1, <2>2
<1>6. CtrlCall'
  <2>1. UnderAt(msi, held', call.steps, pos', back', maxIoQueues', d, k, C)
    BY <1>4, <1>5
  <2> QED BY <2>1, <1>1, <1>4, StillGoing
<1>7. CtrlNumbers'
  <2>1. CASE t = Cookies
    <3>1. numIntrs' = 0 /\ Cookies \notin held'
      BY <2>1, <1>4 DEF GiveBack, Cookies, Without
    <3>2. ~msi /\ Listed \in held' => maxIoQueues = 0
      <4>1. ~msi /\ ~d /\ Listed \in held' => Cookies \in held'
        BY <1>4, <1>5 DEF Safe
      <4> QED BY <3>1, <4>1, <1>3
    <3> QED BY <3>1, <3>2, <1>4 DEF CtrlInv, CtrlNumbers
  <2>2. CASE t # Cookies
    <3>1. numIntrs' = numIntrs
      BY <2>2 DEF GiveBack, Cookies
    <3>2. (Cookies \in held' <=> Cookies \in held) /\ held' \subseteq held
      BY <2>2, <1>4 DEF Without, Cookies
    <3> QED BY <3>1, <3>2, <1>4 DEF CtrlInv, CtrlNumbers
  <2> QED BY <2>1, <2>2
<1> QED BY <1>6, <1>7 DEF CtrlInv

(* A controller that has its interrupts is one that may have lost them.    *)
LEMMA SafeWeaker ==
  ASSUME NEW m, NEW d \in BOOLEAN
  PROVE  Settled(m, d) \subseteq Settled(m, TRUE)
BY DEF Settled, Safe

(* Return preserves the invariant.                                         *)
LEMMA ReturnStays ==
  ASSUME CtrlInv, Return
  PROVE  CtrlInv'
<1>1. /\ ~Idle /\ pos > Len(call.steps) /\ call' = NoCall /\ pos' = 0 /\ back' = 0
      /\ UNCHANGED <<held, msi, numIntrs, maxIoQueues, isRemoved>>
  BY DEF Return
<1>2a. PICK d \in BOOLEAN : \E k, C :
          /\ UnderAt(msi, held, call.steps, pos, back, maxIoQueues, d, k, C)
          /\ HereFacts(d, k, C) /\ (back > 0 => HereUndo(d, k, C))
  BY <1>1, InCall
<1>2. PICK k, C :
          /\ UnderAt(msi, held, call.steps, pos, back, maxIoQueues, d, k, C)
          /\ HereFacts(d, k, C) /\ (back > 0 => HereUndo(d, k, C))
  BY <1>2a
<1>3. held \in Settled(msi, TRUE)
  BY <1>1, <1>2, SafeWeaker DEF HereFacts, Facts
<1>4. Idle'
  BY <1>1 DEF Idle, NoCall
<1>5. CtrlCall'
  BY <1>1, <1>3, <1>4 DEF CtrlCall
<1>6. CtrlNumbers'
  BY <1>1 DEF CtrlInv, CtrlNumbers
<1> QED BY <1>5, <1>6 DEF CtrlInv

(* The device may be pulled at any moment.                                 *)
LEMMA ForgetStays ==
  ASSUME CtrlInv, ForgetDevice
  PROVE  CtrlInv'
<1>1. isRemoved' = TRUE /\ UNCHANGED <<held, call, pos, back, msi, numIntrs, maxIoQueues>>
  BY DEF ForgetDevice
<1>2. CtrlNumbers'
  BY <1>1 DEF CtrlInv, CtrlNumbers
<1>3. CtrlCall'
  BY <1>1 DEF CtrlInv, CtrlCall, Idle
<1> QED BY <1>2, <1>3 DEF CtrlInv

-----------------------------------------------------------------------------
(* The calls.                                                              *)

(* The programs that are certified without "grants" set no number of       *)
(* queues.                                                                 *)
LEMMA NoGrant ==
  ASSUME NEW S, NEW k, NEW p, NEW P, NEW Q, NEW F, Does(S, k, p, P, Q, F), "grants" \notin k
  PROVE  \A j \in 1..Len(p) : p[j].do # "grant"
<1>1. PICK C : Certified(S, k, p, C, F)
  BY DEF Does
<1> QED BY <1>1 DEF Certified, Kind

(* A call begins: its program is certified for what the driver holds. *)
LEMMA Begun ==
  ASSUME CtrlInv, NEW nm, nm # "none", NEW p, Begin(nm, p), UNCHANGED <<held, msi>>,
         NEW d \in BOOLEAN, NEW k,
         Does(Safe(msi, d), k, p, {held}, Settled(msi, d), Settled(msi, d)),
         "lists" \in k \/ (d /\ ~msi) => maxIoQueues' = 0,
         \A j \in 1..Len(p) : p[j].do = "grant" => j = Len(p)
  PROVE  CtrlCall'
<1>1. call' = [name |-> nm, steps |-> p] /\ pos' = 1 /\ back' = 0 /\ held' = held /\ msi' = msi
  BY DEF Begin
<1>2. call'.steps = p /\ call'.name # "none"
  BY <1>1
<1>3. Going(msi, held, p, 1, 0, maxIoQueues')
  BY Starts
<1>4. Going(msi', held', call'.steps, pos', back', maxIoQueues')
  BY <1>1, <1>2, <1>3
<1> QED BY <1>2, <1>4 DEF CtrlCall, Idle

(* Between two calls: the controller may have lost its interrupts only if it has no queues. *)
LEMMA IdleFacts ==
  ASSUME CtrlInv, Idle
  PROVE  \E d \in BOOLEAN : held \in Settled(msi, d) /\ (d /\ ~msi => maxIoQueues = 0)
<1>1. held \in Settled(msi, TRUE)
  BY DEF CtrlInv, CtrlCall
<1>2. CASE msi \/ Listed \notin held \/ Cookies \in held
  <2>1. held \in Settled(msi, FALSE)
    BY <1>1, <1>2 DEF Settled, Safe
  <2> QED BY <2>1
<1>3. CASE ~msi /\ Listed \in held /\ Cookies \notin held
  <2>1. numIntrs = 0 /\ maxIoQueues = 0
    BY <1>3 DEF CtrlInv, CtrlNumbers
  <2> QED BY <1>1, <2>1
<1> QED BY <1>2, <1>3

(* A call that begins and changes no field; what its program has to do.    *)
Plain == UNCHANGED <<held, msi, numIntrs, maxIoQueues, isRemoved>>
Performs(k, p) ==
  \A d \in BOOLEAN : held \in Settled(msi, d) =>
    Does(Safe(msi, d), k, p, {held}, Settled(msi, d), Settled(msi, d))

(* A call that begins and changes nothing preserves the invariant.         *)
LEMMA BegunPlain ==
  ASSUME CtrlInv, NEW nm, nm # "none", NEW p, Begin(nm, p), Plain, NEW k, "lists" \notin k,
         "grants" \notin k, Performs(k, p)
  PROVE  CtrlInv'
<1>1. Idle
  BY DEF Begin
<1>2. PICK d \in BOOLEAN : held \in Settled(msi, d) /\ (d /\ ~msi => maxIoQueues = 0)
  BY <1>1, IdleFacts
<1>3. Does(Safe(msi, d), k, p, {held}, Settled(msi, d), Settled(msi, d))
  BY <1>2 DEF Performs
<1>4. \A j \in 1..Len(p) : p[j].do = "grant" => j = Len(p)
  BY <1>3, NoGrant
<1>5. CtrlCall'
  <2>1. UNCHANGED <<held, msi>> /\ ("lists" \in k \/ (d /\ ~msi) => maxIoQueues' = 0)
    BY <1>2 DEF Plain
  <2> QED BY <1>3, <1>4, <2>1, Begun
<1>6. CtrlNumbers'
  BY DEF CtrlInv, CtrlNumbers, Plain
<1> QED BY <1>5, <1>6 DEF CtrlInv

(* What a guard of a call says of the stage that the driver is in.         *)
LEMMA WhichStage ==
  ASSUME NEW m, NEW d, NEW h \in Settled(m, d)
  PROVE  /\ <<"heap", 0>> \notin h => Unloaded(m, h)
         /\ <<"driver", 0>> \in h /\ <<"ctrlr", 0>> \notin h => Detached(m, h)
         /\ Listed \in h \/ <<"device", 0>> \in h \/ <<"registered", 0>> \in h =>
              h \in AttachedStates(m, d)
<1>1. Unloaded(m, h) \/ Detached(m, h) \/ Attached(m, h)
  BY DEF Settled
<1>2. Detached(m, h) \/ Attached(m, h) => <<"heap", 0>> \in h
  BY DEF Detached, Attached, Zero, ModuleNames
<1>3. Attached(m, h) => <<"ctrlr", 0>> \in h
  BY DEF Attached, Zero, DeviceNames
<1>4. /\ Unloaded(m, h) => <<"driver", 0>> \notin h
      /\ Unloaded(m, h) \/ Detached(m, h) =>
           {Listed, <<"device", 0>>, <<"registered", 0>>} \cap h = {}
  BY DEF Unloaded, Detached, Left, Listed, Zero, ModuleNames
<1> QED BY <1>1, <1>2, <1>3, <1>4 DEF AttachedStates

(* Without counted queues no IO queue has any of its parts.                *)
LEMMA QuietWhen ==
  ASSUME NEW d, held \in AttachedStates(msi, d), Counted = {}
  PROVE  Quiet(held)
<1> SUFFICES ASSUME NEW q \in IoQueues PROVE QuietQueue(held, q)
  BY DEF Quiet
<1>1. IoQueueOk(msi, held, q)
  BY DEF AttachedStates, Attached
<1>2. <<"counted", q>> \notin held
  BY DEF Counted
<1> QED BY <1>1, <1>2 DEF IoQueueOk, QuietQueue, Named

(* osRes.intrType is MSIX while the cookies are held.                      *)
LEMMA MsixHeld == Msix \in BOOLEAN /\ (Msix <=> ~msi /\ Cookies \in held)
BY DEF Msix, Holds, Cookies

(* The kinds of the calls.                                                 *)
Nothing == {}
Trying == {"tries"}

(* What the programs of the calls do not do.                               *)
LEMMA Kinds ==
  /\ "lists" \notin Nothing /\ "grants" \notin Nothing /\ "tries" \notin Nothing
  /\ "lists" \notin Trying /\ "grants" \notin Trying /\ "tries" \in Trying
BY DEF Nothing, Trying

(* Of a call on an attached controller. *)
Serving(k, p) ==
  \A d \in BOOLEAN : held \in AttachedStates(msi, d) =>
    Does(Safe(msi, d), k, p, {held}, AttachedStates(msi, d), AttachedStates(msi, d))

(* A call on an attached controller keeps it attached.                     *)
LEMMA ServingPerforms ==
  ASSUME NEW k, NEW p, Serving(k, p), <<"listed", 0>> \in held \/ <<"device", 0>> \in held \/ <<"registered", 0>> \in held
  PROVE  Performs(k, p)
<1> SUFFICES ASSUME NEW d \in BOOLEAN, held \in Settled(msi, d)
             PROVE  Does(Safe(msi, d), k, p, {held}, Settled(msi, d), Settled(msi, d))
  BY DEF Performs
<1>1. held \in AttachedStates(msi, d)
  BY WhichStage DEF Listed
<1>2. Does(Safe(msi, d), k, p, {held}, AttachedStates(msi, d), AttachedStates(msi, d))
  BY <1>1 DEF Serving
<1>3. AttachedStates(msi, d) \subseteq Settled(msi, d)
  BY DEF AttachedStates
<1> DEFINE P == {held}
<1> HIDE DEF P
<1>4. Does(Safe(msi, d), k, p, P, AttachedStates(msi, d), AttachedStates(msi, d))
  BY <1>2 DEF P
<1>5. P \subseteq P /\ k \subseteq k
  OBVIOUS
<1>6. Does(Safe(msi, d), k, p, P, Settled(msi, d), Settled(msi, d))
  BY <1>3, <1>4, <1>5, DoesMore
<1> QED BY <1>6 DEF P

(* LoadModule preserves the invariant.                                     *)
LEMMA LoadStays ==
  ASSUME CtrlInv, LoadModule
  PROVE  CtrlInv'
<1> DEFINE p == InitModule
<1>1. Begin("init_module", p) /\ Plain /\ <<"heap", 0>> \notin held
  BY DEF LoadModule, Plain, Holds
<1>2. Performs(Nothing, p)
  BY <1>1, WhichStage, LoadedDoes DEF Performs
<1> HIDE DEF p
<1>3. "init_module" # "none"
  OBVIOUS
<1> QED BY <1>1, <1>2, <1>3, Kinds, BegunPlain

(* UnloadModule preserves the invariant.                                   *)
LEMMA UnloadStays ==
  ASSUME CtrlInv, UnloadModule
  PROVE  CtrlInv'
<1> DEFINE p == CleanupModule
<1>1. Begin("cleanup_module", p) /\ Plain /\ <<"driver", 0>> \in held /\ <<"ctrlr", 0>> \notin held
  BY DEF UnloadModule, Plain, Holds
<1>2. Performs(Nothing, p)
  BY <1>1, WhichStage, UnloadedDoes DEF Performs
<1> HIDE DEF p
<1>3. "cleanup_module" # "none"
  OBVIOUS
<1> QED BY <1>1, <1>2, <1>3, Kinds, BegunPlain

(* Scan preserves the invariant.                                           *)
LEMMA ScanStays ==
  ASSUME CtrlInv, Scan
  PROVE  CtrlInv'
<1> DEFINE p == ScanDevice
<1>1. Begin("scanDevice", p) /\ Plain /\ <<"listed", 0>> \in held /\ <<"device", 0>> \notin held
  BY DEF Scan, Plain, Holds
<1>2. Serving(Nothing, p)
  BY <1>1, Scanned DEF Serving
<1> HIDE DEF p
<1>3. "scanDevice" # "none" /\ Performs(Nothing, p)
  BY <1>1, <1>2, ServingPerforms
<1> QED BY <1>1, <1>3, Kinds, BegunPlain

(* RemoveScanned preserves the invariant.                                  *)
LEMMA RemoveStays ==
  ASSUME CtrlInv, RemoveScanned
  PROVE  CtrlInv'
<1> DEFINE p == RemoveDevice
<1>1. Begin("removeDevice", p) /\ Plain /\ <<"device", 0>> \in held /\ <<"controller", 0>> \notin held
  BY DEF RemoveScanned, Plain, Holds
<1>2. Serving(Nothing, p)
  BY <1>1, RemovedDoes DEF Serving
<1> HIDE DEF p
<1>3. "removeDevice" # "none" /\ Performs(Nothing, p)
  BY <1>1, <1>2, ServingPerforms
<1> QED BY <1>1, <1>3, Kinds, BegunPlain

(* Detach preserves the invariant.                                         *)
LEMMA DetachStays ==
  ASSUME CtrlInv, Detach
  PROVE  CtrlInv'
<1> DEFINE e == Exists(0)
           x == Msix
           a == Holds("cookies")
           p == DetachDevice(e, x, a)
<1>1. Begin("detachDevice", p) /\ Plain /\ <<"listed", 0>> \in held /\ <<"device", 0>> \notin held
  BY DEF Detach, Plain, Holds
<1>2. x \in BOOLEAN /\ (x <=> ~msi /\ Cookies \in held) /\ a \in BOOLEAN /\ (a <=> Cookies \in held)
  BY MsixHeld DEF Holds, Cookies
<1>3. Performs(Nothing, p)
  <2> SUFFICES ASSUME NEW d \in BOOLEAN, held \in Settled(msi, d)
               PROVE  Does(Safe(msi, d), Nothing, p, {held}, Settled(msi, d), Settled(msi, d))
    BY DEF Performs
  <2>1. held \in AttachedStates(msi, d)
    BY <1>1, WhichStage DEF Listed
  <2>2. e = TRUE
    BY <2>1 DEF Exists, AttachedStates, Attached, AdminQueueOk, Named
  <2> HIDE DEF x, a, e
  <2>3. Does(Safe(msi, d), Nothing, DetachDevice(TRUE, x, a), {held}, Settled(msi, d), Settled(msi, d))
    BY <1>1, <1>2, <2>1, DetachedDoes
  <2> QED BY <2>2, <2>3
<1> HIDE DEF p
<1>4. "detachDevice" # "none"
  OBVIOUS
<1> QED BY <1>1, <1>3, <1>4, Kinds, BegunPlain

(* StartAdapter preserves the invariant.                                   *)
LEMMA StartStays ==
  ASSUME CtrlInv, StartAdapter
  PROVE  CtrlInv'
<1> DEFINE p == ControllerInit
<1>1. Begin("startAdapter", p) /\ Plain /\ <<"device", 0>> \in held /\ <<"controller", 0>> \notin held
  BY DEF StartAdapter, Plain, Holds
<1>2. Serving(Trying, p)
  BY <1>1, Kinds, StartedDoes DEF Serving
<1> HIDE DEF p
<1>3. "startAdapter" # "none" /\ Performs(Trying, p)
  BY <1>1, <1>2, ServingPerforms
<1> QED BY <1>1, <1>3, Kinds, BegunPlain

(* StopAdapter preserves the invariant.                                    *)
LEMMA StopStays ==
  ASSUME CtrlInv, StopAdapter
  PROVE  CtrlInv'
<1> DEFINE p == ControllerDestroy
<1>1. Begin("stopAdapter", p) /\ Plain /\ <<"registered", 0>> \in held /\ Counted = {}
  BY DEF StopAdapter, Plain, Holds
<1>2. Serving(Nothing, p)
  BY <1>1, QuietWhen, StoppedDoes DEF Serving
<1> HIDE DEF p
<1>3. "stopAdapter" # "none" /\ Performs(Nothing, p)
  BY <1>1, <1>2, ServingPerforms
<1> QED BY <1>1, <1>3, Kinds, BegunPlain

(* ResetAdminQueue preserves the invariant.                                *)
LEMMA ResetStays ==
  ASSUME CtrlInv, ResetAdminQueue
  PROVE  CtrlInv'
<1> DEFINE x == Msix
           p == SuspendQueue(0) \o Each("gate", Of(<<"none">>)) \o ResumeQueue(0, x)
<1>1. Begin("resetAdminQueue", p) /\ Plain /\ <<"registered", 0>> \in held
  BY DEF ResetAdminQueue, Plain, Holds
<1>2. Serving(Trying, p)
  <2>1. x \in BOOLEAN /\ (x <=> ~msi /\ Cookies \in held)
    BY MsixHeld
  <2> HIDE DEF x
  <2> QED BY <2>1, Kinds, ResetDoes DEF Serving
<1> HIDE DEF p
<1>3. "resetAdminQueue" # "none" /\ Performs(Trying, p)
  BY <1>1, <1>2, ServingPerforms
<1> QED BY <1>1, <1>3, Kinds, BegunPlain

(* QuiesceDevice preserves the invariant.                                  *)
LEMMA QuiesceStays ==
  ASSUME CtrlInv, QuiesceDevice
  PROVE  CtrlInv'
<1> DEFINE p == FlattenSeq([i \in 1..MaxIoQueues + 1 |-> SuspendQueue(1 + MaxIoQueues - i)])
<1>1. Begin("quiesceDevice", p) /\ Plain /\ <<"listed", 0>> \in held
  BY DEF QuiesceDevice, Plain, Holds
<1>2. Serving(Nothing, p)
  <2> SUFFICES ASSUME NEW d \in BOOLEAN, held \in AttachedStates(msi, d)
               PROVE  Does(Safe(msi, d), Nothing, p, {held}, AttachedStates(msi, d), AttachedStates(msi, d))
    BY DEF Serving
  <2> DEFINE A == AttachedStates(msi, d)
             H == {held}
  <2>1. A # {} /\ H \subseteq A /\ Nothing \subseteq Nothing
    OBVIOUS
  <2>2. Does(Safe(msi, d), Nothing, p, A, A, A)
    BY <2>1, QuiesceDoes
  <2> HIDE DEF A, H, p
  <2>3. Does(Safe(msi, d), Nothing, p, H, A, A)
    BY <2>1, <2>2, DoesMore
  <2> QED BY <2>3 DEF A, H
<1> HIDE DEF p
<1>3. "quiesceDevice" # "none" /\ Performs(Nothing, p)
  BY <1>1, <1>2, ServingPerforms
<1> QED BY <1>1, <1>3, Kinds, BegunPlain

(* Attach preserves the invariant: it clears the numbers of interrupts and *)
(* of queues.                                                              *)
LEMMA AttachStays ==
  ASSUME CtrlInv, Attach
  PROVE  CtrlInv'
<1> DEFINE p == AttachDevice(msi)
           K == {"lists", "tries"}
<1>1. /\ Begin("attachDevice", p) /\ UNCHANGED <<held, msi>> /\ <<"driver", 0>> \in held
      /\ <<"ctrlr", 0>> \notin held /\ Cookies \notin held
      /\ isRemoved' = FALSE /\ maxIoQueues' = 0 /\ numIntrs' = 0 /\ "attachDevice" # "none"
  BY DEF Attach, Holds, Cookies
<1>2. Idle /\ held \in Settled(msi, TRUE) /\ msi \in BOOLEAN
  BY <1>1 DEF Begin, CtrlInv, CtrlCall, CtrlNumbers
<1>3. "lists" \in K /\ "grants" \notin K
  OBVIOUS
<1> HIDE DEF K
<1>4. Does(Safe(msi, TRUE), K, p, {held}, Settled(msi, TRUE), Settled(msi, TRUE))
  BY <1>1, <1>2, <1>3, WhichStage, AttachedDoes
<1> HIDE DEF p
<1>5. \A j \in 1..Len(p) : p[j].do = "grant" => j = Len(p)
  BY <1>3, <1>4, NoGrant
<1>6. CtrlCall'
  BY <1>1, <1>4, <1>5, Begun
<1>7. CtrlNumbers'
  <2>1. numIntrs' \in Nat /\ maxIoQueues' \in Nat /\ ~(numIntrs' > 0) /\ ~(maxIoQueues' > 0)
    BY <1>1
  <2>2. msi' \in BOOLEAN /\ isRemoved' \in BOOLEAN
    BY <1>1, <1>2
  <2>3. Cookies \notin held'
    BY <1>1
  <2> QED BY <2>1, <2>2, <2>3 DEF CtrlNumbers
<1> QED BY <1>6, <1>7 DEF CtrlInv

(* ReallocIntr of a controller whose IO queues are gone, with MSIX or      *)
(* without.                                                                *)
LEMMA ReallocPerforms ==
  ASSUME held \in AttachedStates(msi, TRUE), Counted = {}, msi \in BOOLEAN, ~msi, NEW n \in Nat
  PROVE  Does(Safe(msi, TRUE), Trying, ReallocIntr(n), {held}, AttachedStates(msi, TRUE),
              Settled(msi, TRUE))
<1> DEFINE S == Safe(msi, TRUE)
           A == AttachedStates(msi, TRUE)
           T == Settled(msi, TRUE)
           H == {held}
<1>1. msi = FALSE /\ Quiet(held)
  BY QuietWhen
<1>2. A \subseteq T /\ T \subseteq S /\ held \in T /\ held \in S /\ A \subseteq A /\ Trying \subseteq Trying
      /\ H \subseteq H
  BY DEF AttachedStates, Settled
<1>3. CASE Msix
  <2> DEFINE p == SuspendQueue(0) \o Each("put", Of(<<"vector">>)) \o IntrFree
                  \o IntrAlloc(FALSE, n) \o Within(Chain(Of(<<"vector">>)), IntrFree)
                  \o ResumeQueue(0, TRUE)
  <2>1. Cookies \in held
    BY <1>3, MsixHeld
  <2>2. held \in AttachedStates(FALSE, TRUE)
    BY <1>1
  <2>3. Does(Safe(FALSE, TRUE), Trying, p, {held}, AttachedStates(FALSE, TRUE), AttachedStates(FALSE, TRUE))
    BY <1>1, <2>1, <2>2, Kinds, ReallocDoes
  <2>4. ReallocIntr(n) = p
    BY <1>3 DEF ReallocIntr
  <2> HIDE DEF p
  <2>5. Does(S, Trying, p, H, A, A)
    BY <1>1, <2>3
  <2> HIDE DEF S, A, T, H
  <2>6. Does(S, Trying, p, H, A, T)
    BY <1>2, <2>5, DoesMore
  <2> QED BY <2>4, <2>6 DEF S, A, T, H
<1>4. CASE ~Msix
  <2> DEFINE s == Step("refuse", <<"none", 0>>)
  <2>1. /\ Each("refuse", Of(<<"none">>)) = <<s>> /\ s \in StepRec /\ s.do = "refuse"
        /\ s.token = <<"none", 0>> /\ s.undo = <<>>
    <3>1. "refuse" \in Dos /\ <<"none", 0>> \in Tokens /\ Of(<<"none">>) = <<<<"none", 0>>>>
      BY DEF Dos, Tokens, Names, Of, At
    <3> QED BY <3>1, TokenStep
  <2>2. ReallocIntr(n) = <<s>>
    BY <1>4, <2>1 DEF ReallocIntr
  <2> HIDE DEF s, S, A, T
  <2>3. Kind(Trying, s)
    BY <2>1 DEF Kind, Cookies, Listed
  <2>4. StepOK(S, Trying, s, held, A, T)
    BY <1>2, <2>1, NothingUndone DEF StepOK
  <2>5. H \subseteq S /\ A \subseteq S /\ \A h \in H : StepOK(S, Trying, s, h, A, T)
    BY <1>2, <2>4
  <2> HIDE DEF H
  <2>6. Does(S, Trying, <<s>>, H, A, T)
    BY <2>1, <2>3, <2>5, DoesStep
  <2> QED BY <2>2, <2>6 DEF S, A, T, H
<1> QED BY <1>3, <1>4

(* SetNumberIOQueues preserves the invariant: maxIoQueues is 0 until the   *)
(* number is granted.                                                      *)
LEMMA NumberStays ==
  ASSUME CtrlInv, NEW desired \in Nat, SetNumberIOQueues(desired)
  PROVE  CtrlInv'
<1> DEFINE n == WantedQueues(desired)
           realloc == ~msi /\ (numIntrs = 1 \/ numIntrs # 1 + n)
           r == IF realloc THEN ReallocIntr(1 + n) ELSE <<>>
           g == Each("grant", Of(<<"none">>))
           p == r \o g
           S == Safe(msi, TRUE)
           A == AttachedStates(msi, TRUE)
           T == Settled(msi, TRUE)
           H == {held}
           K == {"tries", "grants"}
           s == Step("grant", <<"none", 0>>)
<1>1. /\ <<"registered", 0>> \in held /\ Counted = {} /\ Begin("setNumberIOQueues", p)
      /\ maxIoQueues' = 0 /\ UNCHANGED <<held, msi, numIntrs, isRemoved>> /\ "setNumberIOQueues" # "none"
  BY DEF SetNumberIOQueues, Holds
<1>2. n \in Nat /\ 1 + n \in Nat
  BY MaxIoQueuesAssumption DEF WantedQueues
<1>3. Idle /\ held \in T /\ msi \in BOOLEAN
  BY <1>1 DEF Begin, CtrlInv, CtrlCall, CtrlNumbers
<1>4. held \in A /\ A \subseteq S /\ A \subseteq T /\ H \subseteq A /\ H \subseteq S /\ held \in S
  BY <1>1, <1>3, WhichStage DEF AttachedStates, Settled
<1>5. Does(S, Trying, r, H, A, T)
  <2>1. CASE realloc
    <3> HIDE DEF n
    <3>1. Does(Safe(msi, TRUE), Trying, ReallocIntr(1 + n), {held}, AttachedStates(msi, TRUE),
               Settled(msi, TRUE))
      BY <1>1, <1>2, <1>3, <1>4, <2>1, ReallocPerforms
    <3> QED BY <2>1, <3>1
  <2>2. CASE ~realloc
    <3>1. r = <<>>
      BY <2>2
    <3>2. Trying \subseteq Trying /\ H \subseteq H /\ T \subseteq T
      OBVIOUS
    <3> HIDE DEF H, S, A, T
    <3>3. Does(S, Trying, <<>>, H, H, T)
      BY <1>4, DoesNothing
    <3>4. Does(S, Trying, <<>>, H, A, T)
      BY <1>4, <3>2, <3>3, DoesMore
    <3> HIDE DEF r
    <3> QED BY <3>1, <3>4
  <2> QED BY <2>1, <2>2
<1>6. /\ g = <<s>> /\ s \in StepRec /\ s.do = "grant" /\ s.token = <<"none", 0>> /\ s.undo = <<>>
  <2>1. "grant" \in Dos /\ <<"none", 0>> \in Tokens /\ Of(<<"none">>) = <<<<"none", 0>>>>
    BY DEF Dos, Tokens, Names, Of, At
  <2> QED BY <2>1, TokenStep
<1>7. Trying \subseteq K /\ "grants" \in K /\ "lists" \notin K
  BY DEF Trying
<1> HIDE DEF n, r, g, S, A, T, H, K, s
<1>8. Does(S, K, g, A, A, T)
  <2>1. Kind(K, s)
    BY <1>6, <1>7 DEF Kind, Cookies, Listed
  <2>2. \A h \in A : StepOK(S, K, s, h, A, T)
    BY <1>4, <1>6, NothingUndone DEF StepOK
  <2>3. Does(S, K, <<s>>, A, A, T)
    BY <1>4, <1>6, <2>1, <2>2, DoesStep
  <2> QED BY <1>6, <2>3
<1>9. Does(S, K, r, H, A, T)
  <2>1. H \subseteq H /\ A \subseteq A /\ T \subseteq T
    OBVIOUS
  <2> QED BY <1>5, <1>7, <2>1, DoesMore
<1>10. Does(S, K, p, H, T, T)
  <2>1. Does(S, K, p, H, A, T)
    BY <1>8, <1>9, DoesBoth
  <2>2. H \subseteq H /\ K \subseteq K /\ T \subseteq T
    OBVIOUS
  <2> HIDE DEF p
  <2> QED BY <1>4, <2>1, <2>2, DoesMore
<1>11. \A j \in 1..Len(p) : p[j].do = "grant" => j = Len(p)
  <2>1. \A j \in 1..Len(r) : r[j].do # "grant"
    BY <1>5, Kinds, NoGrant
  <2>2. r \in Programs /\ Len(r) \in Nat /\ g \in Programs
    BY <1>5, <1>8, ProgramIs DEF Does
  <2>3. Len(g) = 1
    BY <1>6
  <2>4. Len(p) = Len(r) + 1 /\ \A j \in 1..Len(r) : p[j] = r[j]
    <3>1. r \in Seq(StepRec) /\ g \in Seq(StepRec)
      BY <2>2 DEF Programs
    <3>2. \A u, v \in Seq(StepRec) :
             Len(u \o v) = Len(u) + Len(v) /\ \A j \in 1..Len(u) : (u \o v)[j] = u[j]
      OBVIOUS
    <3>3. Len(r \o g) = Len(r) + Len(g) /\ \A j \in 1..Len(r) : (r \o g)[j] = r[j]
      BY <3>1, <3>2
    <3> QED BY <2>2, <2>3, <3>3
  <2> HIDE DEF p
  <2> QED BY <2>1, <2>2, <2>4
<1> HIDE DEF p
<1>12. CtrlCall'
  BY <1>1, <1>10, <1>11, Begun DEF S, T, H
<1>13. CtrlNumbers'
  BY <1>1 DEF CtrlInv, CtrlNumbers
<1> QED BY <1>12, <1>13 DEF CtrlInv

(* CreateIOQueue preserves the invariant: a queue within maxIoQueues has   *)
(* an interrupt.                                                           *)
LEMMA CreateStays ==
  ASSUME CtrlInv, NEW q \in IoQueues, CreateIOQueue(q)
  PROVE  CtrlInv'
<1> DEFINE skip == q > maxIoQueues \/ Exists(q)
           x == Msix
           y == Msix /\ q < numIntrs
           p == IF skip THEN <<>> ELSE QueueCreate(q, y, x)
<1>1. Begin("createIOQueue", p) /\ Plain /\ <<"registered", 0>> \in held /\ "createIOQueue" # "none"
  BY DEF CreateIOQueue, Plain, Holds
<1>2. q \in Nat /\ q >= 1
  BY MaxIoQueuesAssumption DEF IoQueues
<1>3. CASE skip
  <2>1. Performs(Nothing, p)
    <3> SUFFICES ASSUME NEW d \in BOOLEAN, held \in Settled(msi, d)
                 PROVE  Does(Safe(msi, d), Nothing, p, {held}, Settled(msi, d), Settled(msi, d))
      BY DEF Performs
    <3> DEFINE H == {held}
               S == Safe(msi, d)
               T == Settled(msi, d)
    <3>1. H \subseteq S /\ H \subseteq T /\ T \subseteq T /\ Nothing \subseteq Nothing /\ H \subseteq H
      BY DEF Settled
    <3>2. p = <<>>
      BY <1>3
    <3> HIDE DEF H, S, T, p
    <3>3. Does(S, Nothing, <<>>, H, H, T)
      BY <3>1, DoesNothing
    <3>4. Does(S, Nothing, <<>>, H, T, T)
      BY <3>1, <3>3, DoesMore
    <3> QED BY <3>2, <3>4 DEF H, S, T
  <2> HIDE DEF p
  <2> QED BY <1>1, <2>1, Kinds, BegunPlain
<1>4. CASE ~skip
  <2>1. <<"exists", q>> \notin held /\ q <= maxIoQueues /\ maxIoQueues > 0
    BY <1>2, <1>4 DEF Exists, CtrlInv, CtrlNumbers
  <2>2. x \in BOOLEAN /\ (x <=> ~msi /\ Cookies \in held)
    BY MsixHeld
  <2>3. Serving(Trying, p)
    <3> SUFFICES ASSUME NEW d \in BOOLEAN, held \in AttachedStates(msi, d)
                 PROVE  Does(Safe(msi, d), Trying, p, {held}, AttachedStates(msi, d), AttachedStates(msi, d))
      BY DEF Serving
    <3>1. Listed \in held
      BY AttachedFacts
    <3>2. ~msi => maxIoQueues < numIntrs /\ numIntrs > 0
      BY <2>1, <3>1 DEF CtrlInv, CtrlNumbers
    <3>3. msi \/ Cookies \in held
      BY <3>2 DEF CtrlInv, CtrlNumbers
    <3>4. Msix => q < numIntrs
      <4>1. Msix => ~msi
        BY DEF Msix
      <4>2. numIntrs \in Nat /\ maxIoQueues \in Nat
        BY DEF CtrlInv, CtrlNumbers
      <4> QED BY <1>2, <2>1, <3>2, <4>1, <4>2
    <3>5. y = x
      BY <3>4, <2>2
    <3>6. p = QueueCreate(q, y, x)
      BY <1>4
    <3> HIDE DEF p, x, y
    <3>7. Does(Safe(msi, d), Trying, QueueCreate(q, x, x), {held}, AttachedStates(msi, d),
               AttachedStates(msi, d))
      BY <1>1, <2>1, <2>2, <3>3, Kinds, QueueMade
    <3> QED BY <3>5, <3>6, <3>7
  <2> HIDE DEF p
  <2>4. Performs(Trying, p)
    BY <1>1, <2>3, ServingPerforms
  <2> QED BY <1>1, <2>4, Kinds, BegunPlain
<1> QED BY <1>3, <1>4

(* DeleteIOQueue preserves the invariant.                                  *)
LEMMA DeleteStays ==
  ASSUME CtrlInv, NEW q \in IoQueues, DeleteIOQueue(q)
  PROVE  CtrlInv'
<1> DEFINE x == Msix
           p == QueueStopAndDestroy(q, x)
<1>1. /\ Begin("deleteIOQueue", p) /\ Plain /\ <<"registered", 0>> \in held /\ <<"counted", q>> \in held
      /\ "deleteIOQueue" # "none"
  BY DEF DeleteIOQueue, Plain, Holds, Counted
<1>2. Serving(Nothing, p)
  <2>1. x \in BOOLEAN /\ (x <=> ~msi /\ Cookies \in held)
    BY MsixHeld
  <2> HIDE DEF x
  <2> QED BY <1>1, <2>1, QueueDeleted DEF Serving
<1> HIDE DEF p
<1>3. Performs(Nothing, p)
  BY <1>1, <1>2, ServingPerforms
<1> QED BY <1>1, <1>3, Kinds, BegunPlain

(* NotifyAdapterIOAllowed preserves the invariant.                         *)
LEMMA NotifyStays ==
  ASSUME CtrlInv, NotifyAdapterIOAllowed
  PROVE  CtrlInv'
<1> DEFINE n == Cardinality(Counted)
           e == Holds("kvMgmt")
           p == StoragePollSetup(n) \o KeyValInit(e)
<1>1. /\ Begin("notifyIOAllowed", p) /\ Plain /\ <<"registered", 0>> \in held
      /\ \A q \in IoQueues : <<"exists", q>> \in held => <<"counted", q>> \in held
  BY DEF NotifyAdapterIOAllowed, Plain, Holds, Exists, Counted
<1>2. n \in Nat
  <2>1. IsFiniteSet(IoQueues)
    BY MaxIoQueuesAssumption, FS_Interval DEF IoQueues
  <2>2. Counted \subseteq IoQueues
    BY DEF Counted
  <2> QED BY <2>1, <2>2, FS_Subset, FS_CardinalityType
<1>3. Serving(Trying, p)
  <2> SUFFICES ASSUME NEW d \in BOOLEAN, held \in AttachedStates(msi, d)
               PROVE  Does(Safe(msi, d), Trying, p, {held}, AttachedStates(msi, d), AttachedStates(msi, d))
    BY DEF Serving
  <2>1. held \in WholeStates(msi, d)
    BY <1>1 DEF WholeStates
  <2>2. e \in BOOLEAN
    BY DEF Holds
  <2> HIDE DEF n, e
  <2> QED BY <1>2, <2>1, <2>2, Kinds, IoAllowed
<1> HIDE DEF p
<1>4. "notifyIOAllowed" # "none" /\ Performs(Trying, p)
  BY <1>1, <1>3, ServingPerforms
<1> QED BY <1>1, <1>4, Kinds, BegunPlain

-----------------------------------------------------------------------------
(* The invariant and the properties.                                       *)

(* Before the module is loaded the driver holds nothing.                   *)
LEMMA InitHolds ==
  ASSUME Init
  PROVE  CtrlInv
<1>1. /\ held = {} /\ call = NoCall /\ pos = 0 /\ back = 0
      /\ msi \in BOOLEAN /\ numIntrs = 0 /\ maxIoQueues = 0 /\ isRemoved = FALSE
  BY DEF Init
<1>2. CtrlNumbers
  <2>1. numIntrs \in Nat /\ maxIoQueues \in Nat /\ ~(numIntrs > 0) /\ ~(maxIoQueues > 0)
    BY <1>1
  <2>2. msi \in BOOLEAN /\ isRemoved \in BOOLEAN /\ Cookies \notin held
    BY <1>1
  <2> QED BY <2>1, <2>2 DEF CtrlNumbers
<1>3. Idle
  BY <1>1 DEF Idle, NoCall
<1>4. {} \in Safe(msi, TRUE)
  BY DEF Safe, Closed
<1>5. {} \in Settled(msi, TRUE)
  BY <1>4 DEF Settled, Unloaded
<1> QED BY <1>1, <1>2, <1>3, <1>5 DEF CtrlInv, CtrlCall

(* A stuttering step preserves the invariant.                              *)
LEMMA StutterStays ==
  ASSUME CtrlInv, UNCHANGED vars
  PROVE  CtrlInv'
<1>1. UNCHANGED <<held, call, pos, back, msi, numIntrs, maxIoQueues, isRemoved>>
  BY DEF vars
<1>2. CtrlNumbers'
  BY <1>1 DEF CtrlInv, CtrlNumbers
<1>3. CtrlCall'
  BY <1>1 DEF CtrlInv, CtrlCall, Idle
<1> QED BY <1>2, <1>3 DEF CtrlInv

(* The beginning of every call preserves the invariant.                    *)
LEMMA CallStays ==
  ASSUME CtrlInv, BeginCall
  PROVE  CtrlInv'
<1>1. CASE LoadModule \/ UnloadModule \/ Attach \/ Scan \/ RemoveScanned \/ Detach
  BY <1>1, LoadStays, UnloadStays, AttachStays, ScanStays, RemoveStays, DetachStays
<1>2. CASE StartAdapter \/ StopAdapter \/ ResetAdminQueue \/ QuiesceDevice \/ NotifyAdapterIOAllowed
  BY <1>2, StartStays, StopStays, ResetStays, QuiesceStays, NotifyStays
<1>3. CASE \E n \in 0..MaxDesired : SetNumberIOQueues(n)
  <2>1. PICK n \in 0..MaxDesired : SetNumberIOQueues(n)
    BY <1>3
  <2>2. n \in Nat
    BY MaxDesiredAssumption
  <2> QED BY <2>1, <2>2, NumberStays
<1>4. CASE \E q \in IoQueues : CreateIOQueue(q) \/ DeleteIOQueue(q)
  BY <1>4, CreateStays, DeleteStays
<1> QED BY <1>1, <1>2, <1>3, <1>4 DEF BeginCall

(* Every step of a call preserves the invariant.                           *)
LEMMA StepStays ==
  ASSUME CtrlInv, StepCall
  PROVE  CtrlInv'
<1>1. CASE Take \/ Refuse \/ Answer \/ Gate \/ GiveBack \/ GrantNothing \/ Return
  BY <1>1, TakeStays, RefuseStays, AnswerStays, GiveBackStays, ReturnStays
<1>2. CASE \E n \in 1..(MaxDesired + 1) : TakeCookies(n) \/ Grant(n)
  <2>1. PICK n \in 1..(MaxDesired + 1) : TakeCookies(n) \/ Grant(n)
    BY <1>2
  <2>2. n \in Nat \ {0}
    BY MaxDesiredAssumption
  <2> QED BY <2>1, <2>2, CookiesStay, GrantStays
<1> QED BY <1>1, <1>2 DEF StepCall

(* Every step preserves the invariant.                                     *)
LEMMA NextStays ==
  ASSUME CtrlInv, [Next]_vars
  PROVE  CtrlInv'
BY CallStays, StepStays, ForgetStays, StutterStays DEF Next

(* Every state has a certificate: between two calls the driver is settled  *)
(* in one of its three stages, and in a call the rest of the call's        *)
(* program is certified for what is held.                                  *)
THEOREM CtrlInvHolds == Spec => []CtrlInv
<1>1. Init => CtrlInv
  BY InitHolds
<1>2. CtrlInv /\ [Next]_vars => CtrlInv'
  BY NextStays
<1> QED BY <1>1, <1>2, PTL DEF Spec

(* What is held is closed, between the calls and in the middle of them.    *)
LEMMA HeldIsSafe ==
  ASSUME CtrlInv
  PROVE  \E d \in BOOLEAN : held \in Safe(msi, d)
<1>1. CASE Idle
  BY <1>1 DEF CtrlInv, CtrlCall, Settled
<1>2. CASE ~Idle
  BY <1>2, InCall DEF HereFacts, Facts
<1> QED BY <1>1, <1>2

(* The invariant implies NothingDangles.                                   *)
LEMMA InvNothingDangles ==
  ASSUME CtrlInv
  PROVE  NothingDangles
<1>1. PICK d \in BOOLEAN : held \in Safe(msi, d)
  BY HeldIsSafe
<1>2. LeftBehind = Left(msi)
  BY DEF LeftBehind, Left
<1> QED BY <1>1, <1>2 DEF NothingDangles, Safe, Closed

(* The invariant implies GivesBackHeld, in the programs and in their       *)
(* labels.                                                                 *)
LEMMA InvGivesBackHeld ==
  ASSUME CtrlInv
  PROVE  GivesBackHeld
<1> SUFFICES ASSUME Running, NextStep.do = "put" PROVE NextStep.token \in held
  BY DEF GivesBackHeld, StepIs
<1>1a. PICK d \in BOOLEAN : \E k, C :
          /\ UnderAt(msi, held, call.steps, pos, back, maxIoQueues, d, k, C)
          /\ HereFacts(d, k, C) /\ (back > 0 => HereUndo(d, k, C))
  BY InCall DEF Running
<1>1. PICK k, C :
          /\ UnderAt(msi, held, call.steps, pos, back, maxIoQueues, d, k, C)
          /\ HereFacts(d, k, C) /\ (back > 0 => HereUndo(d, k, C))
  BY <1>1a
<1>2. pos <= Len(call.steps) /\ back \in Nat
  BY <1>1 DEF Running, HereFacts, Facts
<1>3. CASE back = 0
  <2>1. NextStep = call.steps[pos]
    BY <1>3 DEF NextStep
  <2>2. StepOK(Safe(msi, d), k, call.steps[pos], held, C[pos + 1], Settled(msi, d))
    BY <1>1, <1>2, <1>3 DEF HereFacts, Facts
  <2> QED BY <2>1, <2>2 DEF StepOK
<1>4. CASE back > 0
  <2>1. NextStep = call.steps[pos].undo[back]
    BY <1>4 DEF NextStep
  <2> QED BY <1>1, <1>4, <2>1 DEF HereUndo, UndoFacts
<1> QED BY <1>2, <1>3, <1>4

(* Between two calls.                                                      *)
LEMMA AtRest ==
  ASSUME CtrlInv, Idle
  PROVE  /\ held \in Settled(msi, TRUE) /\ held \subseteq Tokens /\ Closed(msi, held)
         /\ msi \in BOOLEAN
         /\ Cookies \in held \/ (numIntrs = 0 /\ (~msi /\ Listed \in held => maxIoQueues = 0))
<1>1. held \in Settled(msi, TRUE)
  BY DEF CtrlInv, CtrlCall
<1>2. held \subseteq Tokens /\ Closed(msi, held)
  BY <1>1 DEF Settled, Safe
<1>3. /\ msi \in BOOLEAN /\ numIntrs \in Nat /\ maxIoQueues \in Nat
      /\ numIntrs > 0 <=> Cookies \in held
      /\ ~msi /\ maxIoQueues > 0 /\ Listed \in held => maxIoQueues < numIntrs
  BY DEF CtrlInv, CtrlNumbers
<1>4. CASE Cookies \notin held
  <2>1. numIntrs = 0
    BY <1>3, <1>4
  <2>2. ~msi /\ Listed \in held => maxIoQueues = 0
    BY <1>3, <2>1
  <2> QED BY <1>1, <1>2, <1>3, <2>1, <2>2
<1> QED BY <1>1, <1>2, <1>3, <1>4

(* The names of the levels of AllOrNothing. *)
LEMMA LevelsAre ==
  /\ ModuleLevel = Zero(ModuleNames \ {"mgmt"})
  /\ DeviceLevel = Zero(DeviceNames \ {"bar"}) \cup Named(0, BodyNames)
  /\ AdapterLevel = Zero(AdapterNames) /\ ControllerLevel = Zero(CtrlNames)
  /\ \A q : Bodies(q) = Named(q, BodyNames)
<1>1. \A q : Bodies(q) = Named(q, BodyNames)
  BY BodiesAre DEF Named
<1>2. ModuleNames \ {"mgmt"} = {"heap", "log", "memPool", "lock", "driver"}
  BY DEF ModuleNames
<1>3. DeviceNames \ {"bar"} =
        {"ctrlr", "dmaEngine", "sgHandle", "lockDomain", "queueList", "listed"}
  BY DEF DeviceNames
<1>4. ModuleLevel = Zero(ModuleNames \ {"mgmt"})
  BY <1>2 DEF ModuleLevel, Zero
<1>5. DeviceLevel = Zero(DeviceNames \ {"bar"}) \cup Named(0, BodyNames)
  BY <1>1, <1>3 DEF DeviceLevel, Zero
<1>6. AdapterLevel = Zero(AdapterNames) /\ ControllerLevel = Zero(CtrlNames)
  BY DEF AdapterLevel, ControllerLevel, AdapterNames, CtrlNames, Zero
<1> QED BY <1>1, <1>4, <1>5, <1>6

(* An IO queue at rest has all of its parts or none. *)
LEMMA QueueWhole ==
  ASSUME NEW m, NEW h, NEW q \in Nat, IoQueueOk(m, h, q)
  PROVE  \/ /\ Named(q, BodyNames) \subseteq h /\ <<"counted", q>> \in h
         \/ /\ Named(q, BodyNames) \cap h = {} /\ <<"counted", q>> \notin h
            /\ <<"active", q>> \notin h /\ <<"vector", q>> \notin h
<1>1. CASE h \cap OfQueue(q) \subseteq {<<"exists", q>>}
  <2>1. "exists" \notin BodyNames /\ BodyNames \subseteq QueueNames
        /\ {"counted", "active", "vector"} \subseteq QueueNames
    BY DEF BodyNames, QueueNames
  <2>2. \A n \in QueueNames : n # "exists" => <<n, q>> \notin h
    BY <1>1 DEF OfQueue
  <2>3. <<"counted", q>> \notin h /\ <<"active", q>> \notin h /\ <<"vector", q>> \notin h
    BY <2>1, <2>2
  <2>4. Named(q, BodyNames) \cap h = {}
    BY <2>1, <2>2 DEF Named
  <2> QED BY <2>3, <2>4
<1>2. CASE Named(q, BodyNames \cup {"exists", "counted"}) \subseteq h
  BY <1>2 DEF Named
<1> QED BY <1>1, <1>2 DEF IoQueueOk

(* Without a device, nothing of one but what it leaves behind. *)
LEMMA NoDevice ==
  ASSUME NEW m, NEW h, Unloaded(m, h) \/ Detached(m, h)
  PROVE  /\ \A n : \A q : n \notin ModuleNames \cup {"bar", "msiHandler", "cookies", "intrArray"} =>
                            <<n, q>> \notin h
         /\ ModuleLevel \subseteq h \/ ModuleLevel \cap h = {}
         /\ <<"driver", 0>> \in h => <<"mgmt", 0>> \in h
         /\ Listed \notin h
<1>1. \A n : \A q : n \notin ModuleNames \cup {"bar", "msiHandler", "cookies", "intrArray"} =>
                     <<n, q>> \notin h
  <2> SUFFICES ASSUME NEW n, NEW q, <<n, q>> \in h
               PROVE  n \in ModuleNames \cup {"bar", "msiHandler", "cookies", "intrArray"}
    OBVIOUS
  <2>1. <<n, q>> \in Zero(ModuleNames) \cup Left(m)
    BY DEF Unloaded, Detached
  <2>2. <<n, q>> \in Left(m) => n \in {"bar", "mgmt", "msiHandler", "cookies", "intrArray"}
    BY DEF Left
  <2>3. <<n, q>> \in Zero(ModuleNames) => n \in ModuleNames
    BY DEF Zero
  <2>4. "mgmt" \in ModuleNames
    BY DEF ModuleNames
  <2> QED BY <2>1, <2>2, <2>3, <2>4
<1>2. Listed \notin h
  <2>1. "listed" \notin ModuleNames \cup {"bar", "msiHandler", "cookies", "intrArray"}
    BY DEF ModuleNames
  <2> QED BY <1>1, <2>1 DEF Listed
<1>3. CASE Detached(m, h)
  <2>1. ModuleLevel \subseteq h
    BY <1>3, LevelsAre DEF Detached, Zero
  <2>2. <<"mgmt", 0>> \in h
    BY <1>3 DEF Detached, Zero, ModuleNames
  <2> QED BY <1>1, <1>2, <2>1, <2>2
<1>4. CASE Unloaded(m, h)
  <2>1. Zero(ModuleNames \ {"mgmt"}) \cap Left(m) = {}
    BY DEF Zero, ModuleNames, Left
  <2>2. ModuleLevel \cap h = {}
    BY <1>4, <2>1, LevelsAre DEF Unloaded
  <2>3. <<"driver", 0>> \in ModuleLevel
    BY DEF ModuleLevel
  <2> QED BY <1>1, <1>2, <2>2, <2>3
<1> QED BY <1>3, <1>4

(* The invariant implies AllOrNothing.                                     *)
LEMMA InvAllOrNothing ==
  ASSUME CtrlInv
  PROVE  AllOrNothing
<1> SUFFICES ASSUME Idle
             PROVE  /\ \A level \in {ModuleLevel, DeviceLevel, AdapterLevel, ControllerLevel}
                                    \cup {Bodies(q) : q \in IoQueues} :
                         level \subseteq held \/ level \cap held = {}
                    /\ <<"driver", 0>> \in held => <<"mgmt", 0>> \in held
                    /\ <<"listed", 0>> \in held => <<"bar", 0>> \in held
                    /\ \A q \in IoQueues : q \in Counted <=> Bodies(q) \subseteq held
  BY DEF AllOrNothing, Holds
<1> DEFINE Whole(level) == level \subseteq held \/ level \cap held = {}
<1>1. held \in Settled(msi, TRUE)
  BY AtRest
<1>2. \A q : Bodies(q) = Named(q, BodyNames)
  BY LevelsAre
<1>3. \A q \in IoQueues : q \in Nat
  BY MaxIoQueuesAssumption DEF IoQueues
<1>4. \A q : <<"cqInfo", q>> \in Named(q, BodyNames)
  BY DEF Named, BodyNames
<1>5. CASE Attached(msi, held)
  <2>1. /\ Zero(ModuleNames \cup DeviceNames) \subseteq held
        /\ Named(0, BodyNames \cup {"exists"}) \subseteq held
    BY <1>5 DEF Attached, AdminQueueOk
  <2>2. ModuleLevel \subseteq held /\ DeviceLevel \subseteq held
    BY <2>1, LevelsAre DEF Zero, Named
  <2>3. <<"mgmt", 0>> \in held /\ <<"bar", 0>> \in held
    BY <2>1 DEF Zero, ModuleNames, DeviceNames
  <2>4. Whole(AdapterLevel) /\ Whole(ControllerLevel)
    <3>1. Stage(held)
      BY <1>5 DEF Attached
    <3>2. AdapterLevel = Zero(AdapterNames) /\ ControllerLevel = Zero(CtrlNames)
      BY LevelsAre
    <3>3. /\ Zero(AdapterNames \cup CtrlNames) = Zero(AdapterNames) \cup Zero(CtrlNames)
          /\ Zero(AdapterNames \cup CtrlNames \cup ExtraNames)
               = Zero(AdapterNames) \cup Zero(CtrlNames) \cup Zero(ExtraNames)
          /\ Zero(CtrlNames \cup ExtraNames) = Zero(CtrlNames) \cup Zero(ExtraNames)
      BY DEF Zero
    <3> QED BY <3>1, <3>2, <3>3 DEF Stage
  <2>5. ASSUME NEW q \in IoQueues
        PROVE  Whole(Bodies(q)) /\ (q \in Counted <=> Bodies(q) \subseteq held)
    <3>1. IoQueueOk(msi, held, q)
      BY <1>5 DEF Attached
    <3>2. q \in Nat
      BY <1>3
    <3>3. \/ Bodies(q) \subseteq held /\ <<"counted", q>> \in held
          \/ Bodies(q) \cap held = {} /\ <<"counted", q>> \notin held
      BY <1>2, <3>1, <3>2, QueueWhole
    <3>4. q \in Counted <=> <<"counted", q>> \in held
      BY DEF Counted
    <3>5. <<"cqInfo", q>> \in Bodies(q)
      BY <1>2, <1>4
    <3> QED BY <3>3, <3>4, <3>5
  <2> QED BY <2>2, <2>3, <2>4, <2>5
<1>6. CASE Unloaded(msi, held) \/ Detached(msi, held)
  <2> DEFINE Kept == ModuleNames \cup {"bar", "msiHandler", "cookies", "intrArray"}
  <2>1. /\ \A n : \A q : n \notin Kept => <<n, q>> \notin held
        /\ Whole(ModuleLevel)
        /\ <<"driver", 0>> \in held => <<"mgmt", 0>> \in held
        /\ <<"listed", 0>> \notin held
    BY <1>6, NoDevice DEF Listed
  <2>2. /\ (DeviceNames \ {"bar"}) \cap Kept = {} /\ AdapterNames \cap Kept = {}
        /\ CtrlNames \cap Kept = {} /\ BodyNames \cap Kept = {} /\ "counted" \notin Kept
    BY DEF DeviceNames, AdapterNames, CtrlNames, BodyNames, ModuleNames
  <2> HIDE DEF Kept
  <2>3. \A names : names \cap Kept = {} =>
          /\ Zero(names) \cap held = {}
          /\ \A q : Named(q, names) \cap held = {}
    BY <2>1 DEF Zero, Named
  <2>4. /\ Zero(DeviceNames \ {"bar"}) \cap held = {} /\ Zero(AdapterNames) \cap held = {}
        /\ Zero(CtrlNames) \cap held = {}
        /\ \A q : Named(q, BodyNames) \cap held = {}
    BY <2>2, <2>3
  <2>5. Whole(DeviceLevel) /\ Whole(AdapterLevel) /\ Whole(ControllerLevel)
    BY <2>4, LevelsAre
  <2>6. ASSUME NEW q \in IoQueues
        PROVE  Whole(Bodies(q)) /\ (q \in Counted <=> Bodies(q) \subseteq held)
    <3>1. Bodies(q) \cap held = {} /\ <<"cqInfo", q>> \in Bodies(q)
      BY <1>2, <1>4, <2>4
    <3>2. <<"counted", q>> \notin held
      BY <2>1, <2>2
    <3> QED BY <3>1, <3>2 DEF Counted
  <2> QED BY <2>1, <2>5, <2>6
<1> QED BY <1>1, <1>5, <1>6 DEF Settled

(* The invariant implies VectorPerQueue.                                   *)
LEMMA InvVectorPerQueue ==
  ASSUME CtrlInv
  PROVE  VectorPerQueue
<1> SUFFICES ASSUME Idle, ~msi, NEW q \in 0..MaxIoQueues, <<"active", q>> \in held
             PROVE  \/ {<<"vector", q>>, <<"isIntrEnabled", q>>} \subseteq held
                    \/ q = 0 /\ Cookies \notin held
  BY DEF VectorPerQueue, Holds, Cookies
<1>1. held \in Settled(msi, TRUE)
  BY AtRest
<1>2. Attached(msi, held)
  <2>1. "active" \notin ModuleNames \cup {"bar", "msiHandler", "cookies", "intrArray"}
    BY DEF ModuleNames
  <2>2. ~(Unloaded(msi, held) \/ Detached(msi, held))
    BY <2>1, NoDevice
  <2> QED BY <1>1, <2>2 DEF Settled
<1>3. CASE q = 0
  BY <1>2, <1>3 DEF Attached, AdminQueueOk
<1>4. CASE q # 0
  <2>1. q \in IoQueues /\ q \in Nat
    BY <1>4, MaxIoQueuesAssumption DEF IoQueues
  <2>2. IoQueueOk(msi, held, q)
    BY <1>2, <2>1 DEF Attached
  <2>3. ~(held \cap OfQueue(q) \subseteq {<<"exists", q>>})
    BY DEF OfQueue, QueueNames
  <2> QED BY <2>2, <2>3 DEF IoQueueOk
<1> QED BY <1>3, <1>4

(* The invariant implies DeafServesNothing.                                *)
LEMMA InvDeafServesNothing ==
  ASSUME CtrlInv
  PROVE  DeafServesNothing
<1> SUFFICES ASSUME Idle, Listed \in held, Cookies \notin held
             PROVE  Counted = {} /\ maxIoQueues = 0
  BY DEF DeafServesNothing, Holds, Cookies, Listed
<1>1. held \in Settled(msi, TRUE) /\ Closed(msi, held)
      /\ (~msi => maxIoQueues = 0)
  BY AtRest
<1>2. Attached(msi, held)
  BY <1>1, NoDevice DEF Settled
<1>3. ~msi
  BY <1>2 DEF Attached, AdminQueueOk
<1>4. ASSUME NEW q \in Counted PROVE FALSE
  <2>1. q \in IoQueues /\ <<"counted", q>> \in held
    BY DEF Counted
  <2>2. q \in Nat
    BY <2>1, MaxIoQueuesAssumption DEF IoQueues
  <2>3. IoQueueOk(msi, held, q)
    BY <1>2, <2>1 DEF Attached
  <2>4. <<"counted", q>> \in OfQueue(q)
    BY DEF OfQueue, QueueNames
  <2>5. <<"vector", q>> \in held
    BY <1>3, <2>1, <2>3, <2>4 DEF IoQueueOk
  <2>6. <<"vector", q>> \notin Left(msi)
    BY DEF Left
  <2>7. Cookies \in MadeFrom(<<"vector", q>>)
    BY DEF MadeFrom, Cookies
  <2> QED BY <1>1, <2>5, <2>6, <2>7 DEF Closed
<1> QED BY <1>1, <1>3, <1>4

(* In every state of every call, and whatever step fails: nothing that the *)
(* driver holds, or that can call it, refers to what it has given back,    *)
(* but for what is left behind.                                            *)
THEOREM NothingDanglesHolds == Spec => []NothingDangles
<1>1. CtrlInv => NothingDangles
  BY InvNothingDangles
<1> QED BY <1>1, CtrlInvHolds, PTL

(* No label and no destructor gives back what is not held, also when the   *)
(* device is detached after ReallocIntr has failed.                        *)
THEOREM GivesBackHeldHolds == Spec => []GivesBackHeld
<1>1. CtrlInv => GivesBackHeld
  BY InvGivesBackHeld
<1> QED BY <1>1, CtrlInvHolds, PTL

(* A call that returns has taken everything or nothing.                    *)
THEOREM AllOrNothingHolds == Spec => []AllOrNothing
<1>1. CtrlInv => AllOrNothing
  BY InvAllOrNothing
<1> QED BY <1>1, CtrlInvHolds, PTL

(* Between two calls, a queue that accepts commands under MSIX has a       *)
(* vector of its own, and it is enabled; the admin queue of a controller   *)
(* that has lost its interrupts may have none.                             *)
THEOREM VectorPerQueueHolds == Spec => []VectorPerQueue
<1>1. CtrlInv => VectorPerQueue
  BY InvVectorPerQueue
<1> QED BY <1>1, CtrlInvHolds, PTL

(* A controller whose interrupts could not be allocated again serves no IO *)
(* queue and is offered none.                                              *)
THEOREM DeafServesNothingHolds == Spec => []DeafServesNothing
<1>1. CtrlInv => DeafServesNothing
  BY InvDeafServesNothing
<1> QED BY <1>1, CtrlInvHolds, PTL

=============================================================================
