--------------------------- MODULE WorkspaceTypes ---------------------------
(*************************************************************************)
(* The types of Workspace, for every number of terminals, projects,      *)
(* ports and files.                                                      *)
(*                                                                       *)
(* What a command remembers has its type once the step that reads it is  *)
(* done, and the steps that use it come later: it is the order of the    *)
(* steps that types rest on. So the invariant says of every agenda that  *)
(* it has an outline, in the manner of the proof outlines of a program:  *)
(* what is known before each of its steps. Facts are named. A table T    *)
(* says of each fact which steps need it, which ones give it and which   *)
(* ones lose it; what a fact means is up to the proof that has the       *)
(* table.                                                                *)
(*************************************************************************)
EXTENDS Workspace, SequenceTheorems, WellFoundedInduction, TLAPS

-----------------------------------------------------------------------------
(* Outlines *)

\* The names of the steps.
Steps == {"ensure", "root", "unlock", "readSecrets", "writeSecret", "readSecret",
          "decrypt", "dropSecret", "checkRecovery", "writeRecovery", "printRecovery",
          "openRecovery", "wrap", "countRun", "share", "countEnd", "move", "create",
          "makeRoot", "confirmRoot", "open", "configure", "start", "readEntry",
          "readRegistry", "saveRegistry", "detect", "stop", "readSpec", "writeUnit",
          "markSpec", "removeUnit", "clearSpec", "running", "reserve", "probe", "list",
          "pack", "store", "readIndex", "saveIndex", "find", "wasRunning", "halt",
          "unpack", "revive", "report", "edit"}


\* F has what step x needs.
Ready(F, x, T) == \A f \in DOMAIN T : x \in T[f].need => f \in F

\* What is known after step x, if F is known before it.
After(F, x, T) == {f \in DOMAIN T : x \in T[f].give \/ (f \in F /\ x \notin T[f].lose)}

\* An outline of the steps s: what is known between them (K) begins with no more than F,
\* has what each step needs, gains no more than each step gives, and ends with P.
Outline(s, F, P, T) ==
    /\ s \in Seq(Steps)
    /\ \E K \in [1..(Len(s) + 1) -> SUBSET DOMAIN T] :
        /\ K[1] \subseteq F
        /\ \A i \in 1..Len(s) : Ready(K[i], s[i], T) /\ K[i+1] \subseteq After(K[i], s[i], T)
        /\ P \subseteq K[Len(s) + 1]

\* Nothing to do: what is known stays known.
LEMMA Empty ==
    ASSUME NEW T, NEW F \in SUBSET DOMAIN T, NEW P, P \subseteq F
    PROVE  Outline(<<>>, F, P, T)
<1> DEFINE K == [i \in 1..1 |-> F]
<1>1. <<>> \in Seq(Steps) /\ Len(<<>>) = 0
  OBVIOUS
<1>2. K \in [1..(Len(<<>>) + 1) -> SUBSET DOMAIN T] /\ K[1] = F /\ 1..Len(<<>>) = {}
  BY <1>1
<1> HIDE DEF K
<1> QED
  BY <1>1, <1>2 DEF Outline

\* More may be known before, and less be asked for after.
LEMMA Wider ==
    ASSUME NEW T, NEW s, NEW F, NEW P, Outline(s, F, P, T),
           NEW G, F \subseteq G, NEW Q, Q \subseteq P
    PROVE  Outline(s, G, Q, T)
<1>1. PICK K \in [1..(Len(s) + 1) -> SUBSET DOMAIN T] :
        /\ K[1] \subseteq F
        /\ \A i \in 1..Len(s) : Ready(K[i], s[i], T) /\ K[i+1] \subseteq After(K[i], s[i], T)
        /\ P \subseteq K[Len(s) + 1]
  BY DEF Outline
<1>2. K[1] \subseteq G /\ Q \subseteq K[Len(s) + 1]
  BY <1>1
<1> QED
  BY <1>1, <1>2 DEF Outline

\* The outline of one step.
LEMMA One ==
    ASSUME NEW T, NEW x \in Steps, NEW F \in SUBSET DOMAIN T, Ready(F, x, T),
           NEW P \in SUBSET DOMAIN T, P \subseteq After(F, x, T)
    PROVE  Outline(<<x>>, F, P, T)
<1> DEFINE K == [i \in 1..2 |-> IF i = 1 THEN F ELSE P]
           s == <<x>>
<1>1. s \in Seq(Steps) /\ Len(s) = 1 /\ s[1] = x
  OBVIOUS
<1> HIDE DEF s
<1>2. K \in [1..(Len(s) + 1) -> SUBSET DOMAIN T] /\ K[1] = F /\ K[2] = P
  BY <1>1
<1> HIDE DEF K
<1>3. \A i \in 1..Len(s) : Ready(K[i], s[i], T) /\ K[i+1] \subseteq After(K[i], s[i], T)
  BY <1>1, <1>2
<1>4. Outline(s, F, P, T)
  BY <1>1, <1>2, <1>3 DEF Outline
<1> QED
  BY <1>4 DEF s

\* What no step of s loses, and what every step of s can do with.
LEMMA Steady ==
    ASSUME NEW T, NEW s \in Seq(Steps), NEW F \in SUBSET DOMAIN T,
           \A i \in 1..Len(s) : Ready(F, s[i], T),
           \A i \in 1..Len(s) : \A f \in F : s[i] \notin T[f].lose
    PROVE  Outline(s, F, F, T)
<1> DEFINE K == [i \in 1..(Len(s) + 1) |-> F]
<1>1. Len(s) \in Nat
  OBVIOUS
<1>2. K \in [1..(Len(s) + 1) -> SUBSET DOMAIN T]
      /\ K[1] = F /\ K[Len(s) + 1] = F /\ \A i \in 1..Len(s) : K[i] = F /\ K[i+1] = F
  BY <1>1
<1> HIDE DEF K
<1>3. \A i \in 1..Len(s) : Ready(F, s[i], T) /\ F \subseteq After(F, s[i], T)
  BY DEF Ready, After
<1> QED
  BY <1>2, <1>3 DEF Outline

\* When the first step is done, what is known after it outlines the rest.
LEMMA Rest ==
    ASSUME NEW T, NEW s, NEW F, NEW P, Outline(s, F, P, T), s # <<>>
    PROVE  Ready(F, Head(s), T) /\ Outline(Tail(s), After(F, Head(s), T), P, T)
<1>1. s \in Seq(Steps) /\ Len(s) \in Nat /\ Len(s) > 0 /\ Head(s) = s[1]
  BY DEF Outline
<1> DEFINE r == Tail(s)
<1>2. r \in Seq(Steps) /\ Len(r) = Len(s) - 1 /\ \A i \in 1..Len(r) : r[i] = s[i+1]
  BY <1>1
<1> HIDE DEF r
<1>3. PICK K \in [1..(Len(s) + 1) -> SUBSET DOMAIN T] :
        /\ K[1] \subseteq F
        /\ \A i \in 1..Len(s) : Ready(K[i], s[i], T) /\ K[i+1] \subseteq After(K[i], s[i], T)
        /\ P \subseteq K[Len(s) + 1]
  BY DEF Outline
<1>4. Ready(K[1], s[1], T) /\ K[2] \subseteq After(K[1], s[1], T)
  BY <1>1, <1>3
<1>5. Ready(F, Head(s), T) /\ K[2] \subseteq After(F, Head(s), T)
  BY <1>1, <1>3, <1>4 DEF Ready, After
<1> DEFINE L == [i \in 1..(Len(r) + 1) |-> K[i+1]]
<1>6. L \in [1..(Len(r) + 1) -> SUBSET DOMAIN T]
  BY <1>1, <1>2
<1>7. /\ L[1] = K[2] /\ L[Len(r) + 1] = K[Len(s) + 1]
      /\ \A i \in 1..Len(r) : L[i] = K[i+1] /\ L[i+1] = K[(i+1)+1] /\ i + 1 \in 1..Len(s)
  BY <1>1, <1>2
<1> HIDE DEF L
<1>8. Outline(r, After(F, Head(s), T), P, T)
  BY <1>2, <1>3, <1>5, <1>6, <1>7 DEF Outline
<1> QED
  BY <1>5, <1>8 DEF r

\* Outlines are joined where one ends with what the other begins with.
LEMMA Join ==
    ASSUME NEW T, NEW a, NEW F, NEW G, Outline(a, F, G, T), NEW b, NEW P, Outline(b, G, P, T)
    PROVE  Outline(a \o b, F, P, T)
<1> DEFINE n == Len(a)
           s == a \o b
<1>1. a \in Seq(Steps) /\ b \in Seq(Steps) /\ n \in Nat /\ Len(b) \in Nat
  BY DEF Outline
<1>2. /\ s \in Seq(Steps) /\ Len(s) = n + Len(b)
      /\ \A i \in 1..n : s[i] = a[i]
      /\ \A i \in 1..Len(b) : s[n+i] = b[i]
  BY <1>1
<1> HIDE DEF s
<1>3. PICK K \in [1..(Len(a) + 1) -> SUBSET DOMAIN T] :
        /\ K[1] \subseteq F
        /\ \A i \in 1..Len(a) : Ready(K[i], a[i], T) /\ K[i+1] \subseteq After(K[i], a[i], T)
        /\ G \subseteq K[Len(a) + 1]
  BY DEF Outline
<1>4. PICK L \in [1..(Len(b) + 1) -> SUBSET DOMAIN T] :
        /\ L[1] \subseteq G
        /\ \A i \in 1..Len(b) : Ready(L[i], b[i], T) /\ L[i+1] \subseteq After(L[i], b[i], T)
        /\ P \subseteq L[Len(b) + 1]
  BY DEF Outline
<1> HIDE DEF n
<1> DEFINE M == [i \in 1..(Len(s) + 1) |-> IF i <= n THEN K[i] ELSE L[i-n]]
<1>5. M \in [1..(Len(s) + 1) -> SUBSET DOMAIN T]
  BY <1>1, <1>2, <1>3, <1>4 DEF n
<1>6. \A i \in 1..(Len(s) + 1) : M[i] = IF i <= n THEN K[i] ELSE L[i-n]
  OBVIOUS
<1> HIDE DEF M
<1>7. M[n + 1] = L[1] /\ M[n + 1] \subseteq K[n + 1] /\ M[Len(s) + 1] = L[Len(b) + 1]
  <2>1. n + 1 \in 1..(Len(s) + 1) /\ (n + 1) - n = 1 /\ ~(n + 1 <= n)
    BY <1>1, <1>2
  <2>2. Len(s) + 1 \in 1..(Len(s) + 1) /\ (Len(s) + 1) - n = Len(b) + 1 /\ ~(Len(s) + 1 <= n)
    BY <1>1, <1>2
  <2>3. M[n + 1] = L[1] /\ M[Len(s) + 1] = L[Len(b) + 1]
    BY <1>6, <2>1, <2>2
  <2> QED
    BY <1>3, <1>4, <2>3 DEF n
<1>8. M[1] \subseteq F
  <2>1. CASE n = 0
    BY <1>3, <1>7, <2>1 DEF n
  <2>2. CASE n > 0
    <3>1. 1 \in 1..(Len(s) + 1) /\ 1 <= n
      BY <1>1, <1>2, <2>2
    <3> QED
      BY <1>3, <1>6, <3>1
  <2> QED
    BY <1>1, <2>1, <2>2
<1>9. ASSUME NEW i \in 1..Len(s)
      PROVE  Ready(M[i], s[i], T) /\ M[i+1] \subseteq After(M[i], s[i], T)
  <2>1. i \in 1..(Len(s) + 1) /\ i + 1 \in 1..(Len(s) + 1) /\ i \in Nat
    BY <1>1, <1>2
  <2>2. CASE i < n
    <3>1. i <= n /\ i + 1 <= n /\ i \in 1..Len(a)
      BY <1>1, <2>1, <2>2 DEF n
    <3>2. M[i] = K[i] /\ s[i] = a[i] /\ M[i+1] = K[i+1]
      BY <1>2, <1>6, <2>1, <3>1 DEF n
    <3> QED
      BY <1>3, <3>1, <3>2
  <2>3. CASE i = n
    <3>1. i <= n /\ i \in 1..Len(a)
      BY <1>1, <2>1, <2>3 DEF n
    <3>2. M[i] = K[i] /\ s[i] = a[i] /\ M[i+1] \subseteq K[i+1]
      BY <1>2, <1>6, <1>7, <2>1, <2>3, <3>1 DEF n
    <3> QED
      BY <1>3, <3>1, <3>2
  <2>4. CASE i > n
    <3>1. ~(i <= n) /\ ~(i + 1 <= n) /\ n + (i - n) = i /\ (i + 1) - n = (i - n) + 1
      BY <1>1, <2>1, <2>4
    <3>2. i - n \in 1..Len(b)
      BY <1>1, <1>2, <2>4
    <3>3. M[i] = L[i-n] /\ M[i+1] = L[(i-n)+1] /\ s[i] = b[i-n]
      BY <1>2, <1>6, <2>1, <3>1, <3>2
    <3> QED
      BY <1>4, <3>2, <3>3
  <2> QED
    BY <1>1, <2>1, <2>2, <2>3, <2>4
<1> QED
  BY <1>2, <1>4, <1>5, <1>7, <1>8, <1>9 DEF Outline, s

\* The outline of two steps.
LEMMA Two ==
    ASSUME NEW T, NEW x \in Steps, NEW y \in Steps, NEW F \in SUBSET DOMAIN T, Ready(F, x, T),
           NEW G \in SUBSET DOMAIN T, G \subseteq After(F, x, T), Ready(G, y, T),
           NEW P \in SUBSET DOMAIN T, P \subseteq After(G, y, T)
    PROVE  Outline(<<x, y>>, F, P, T)
<1>1. Outline(<<x>> \o <<y>>, F, P, T)
  BY One, Join
<1> DEFINE r == <<x>> \o <<y>>
           s == <<x, y>>
<1>2. r \in Seq(Steps) /\ Len(r) = 2 /\ r[1] = x /\ r[2] = y
  OBVIOUS
<1>3. s \in Seq(Steps) /\ Len(s) = 2 /\ s[1] = x /\ s[2] = y
  OBVIOUS
<1> HIDE DEF r, s
<1>4. Len(r) = Len(s) /\ \A i \in 1..Len(r) : r[i] = s[i]
  BY <1>2, <1>3
<1>5. r = s
  BY <1>2, <1>3, <1>4, SeqEqual
<1> QED
  BY <1>1, <1>5 DEF r, s

\* The outline of three steps.
LEMMA Three ==
    ASSUME NEW T, NEW x \in Steps, NEW y \in Steps, NEW z \in Steps,
           NEW F \in SUBSET DOMAIN T, Ready(F, x, T),
           NEW G \in SUBSET DOMAIN T, G \subseteq After(F, x, T), Ready(G, y, T),
           NEW H \in SUBSET DOMAIN T, H \subseteq After(G, y, T), Ready(H, z, T),
           NEW P \in SUBSET DOMAIN T, P \subseteq After(H, z, T)
    PROVE  Outline(<<x, y, z>>, F, P, T)
<1>1. Outline(<<x, y>> \o <<z>>, F, P, T)
  BY Two, One, Join
<1> DEFINE r == <<x, y>> \o <<z>>
           s == <<x, y, z>>
<1>2. r \in Seq(Steps) /\ Len(r) = 3 /\ r[1] = x /\ r[2] = y /\ r[3] = z
  OBVIOUS
<1>3. s \in Seq(Steps) /\ Len(s) = 3 /\ s[1] = x /\ s[2] = y /\ s[3] = z
  OBVIOUS
<1> HIDE DEF r, s
<1>4. Len(r) = Len(s) /\ \A i \in 1..Len(r) : r[i] = s[i]
  BY <1>2, <1>3
<1>5. r = s
  BY <1>2, <1>3, <1>4, SeqEqual
<1> QED
  BY <1>1, <1>5 DEF r, s

\* Four, five and six steps are two and two, two and three, three and three.
LEMMA Four ==
    ASSUME NEW T, NEW v \in Steps, NEW w \in Steps, NEW x \in Steps, NEW y \in Steps,
           NEW F, NEW G, NEW P, Outline(<<v, w>>, F, G, T), Outline(<<x, y>>, G, P, T)
    PROVE  Outline(<<v, w, x, y>>, F, P, T)
<1> DEFINE r == <<v, w>> \o <<x, y>>
           s == <<v, w, x, y>>
<1>1. Outline(r, F, P, T)
  BY Join
<1>2. r \in Seq(Steps) /\ Len(r) = 4 /\ r[1] = v /\ r[2] = w /\ r[3] = x /\ r[4] = y
  OBVIOUS
<1>3. s \in Seq(Steps) /\ Len(s) = 4 /\ s[1] = v /\ s[2] = w /\ s[3] = x /\ s[4] = y
  OBVIOUS
<1> HIDE DEF r, s
<1>4. Len(r) = Len(s) /\ \A i \in 1..Len(r) : r[i] = s[i]
  BY <1>2, <1>3
<1>5. r = s
  BY <1>2, <1>3, <1>4, SeqEqual
<1> QED
  BY <1>1, <1>5 DEF r, s

\* Five.
LEMMA Five ==
    ASSUME NEW T, NEW v \in Steps, NEW w \in Steps, NEW x \in Steps, NEW y \in Steps,
           NEW z \in Steps,
           NEW F, NEW G, NEW P, Outline(<<v, w>>, F, G, T), Outline(<<x, y, z>>, G, P, T)
    PROVE  Outline(<<v, w, x, y, z>>, F, P, T)
<1> DEFINE r == <<v, w>> \o <<x, y, z>>
           s == <<v, w, x, y, z>>
<1>1. Outline(r, F, P, T)
  BY Join
<1>2. r \in Seq(Steps) /\ Len(r) = 5
      /\ r[1] = v /\ r[2] = w /\ r[3] = x /\ r[4] = y /\ r[5] = z
  OBVIOUS
<1>3. s \in Seq(Steps) /\ Len(s) = 5
      /\ s[1] = v /\ s[2] = w /\ s[3] = x /\ s[4] = y /\ s[5] = z
  OBVIOUS
<1> HIDE DEF r, s
<1>4. Len(r) = Len(s) /\ \A i \in 1..Len(r) : r[i] = s[i]
  BY <1>2, <1>3
<1>5. r = s
  BY <1>2, <1>3, <1>4, SeqEqual
<1> QED
  BY <1>1, <1>5 DEF r, s

\* Six.
LEMMA Six ==
    ASSUME NEW T, NEW u \in Steps, NEW v \in Steps, NEW w \in Steps, NEW x \in Steps,
           NEW y \in Steps, NEW z \in Steps,
           NEW F, NEW G, NEW P, Outline(<<u, v, w>>, F, G, T), Outline(<<x, y, z>>, G, P, T)
    PROVE  Outline(<<u, v, w, x, y, z>>, F, P, T)
<1> DEFINE r == <<u, v, w>> \o <<x, y, z>>
           s == <<u, v, w, x, y, z>>
<1>1. Outline(r, F, P, T)
  BY Join
<1>2. r \in Seq(Steps) /\ Len(r) = 6
      /\ r[1] = u /\ r[2] = v /\ r[3] = w /\ r[4] = x /\ r[5] = y /\ r[6] = z
  OBVIOUS
<1>3. s \in Seq(Steps) /\ Len(s) = 6
      /\ s[1] = u /\ s[2] = v /\ s[3] = w /\ s[4] = x /\ s[5] = y /\ s[6] = z
  OBVIOUS
<1> HIDE DEF r, s
<1>4. Len(r) = Len(s) /\ \A i \in 1..Len(r) : r[i] = s[i]
  BY <1>2, <1>3
<1>5. r = s
  BY <1>2, <1>3, <1>4, SeqEqual
<1> QED
  BY <1>1, <1>5 DEF r, s

\* Steps that need nothing have an outline from anything.
LEMMA Needless ==
    ASSUME NEW T, NEW s \in Seq(Steps), NEW F, \A i \in 1..Len(s) : \A f \in DOMAIN T : s[i] \notin T[f].need
    PROVE  Outline(s, F, {}, T)
<1> DEFINE K == [i \in 1..(Len(s) + 1) |-> {}]
<1>1. Len(s) \in Nat
  OBVIOUS
<1>2. K \in [1..(Len(s) + 1) -> SUBSET DOMAIN T]
      /\ K[1] = {} /\ K[Len(s) + 1] = {} /\ \A i \in 1..Len(s) : K[i] = {} /\ K[i+1] = {}
  BY <1>1
<1> HIDE DEF K
<1>3. \A i \in 1..Len(s) : Ready({}, s[i], T)
  BY DEF Ready
<1> QED
  BY <1>2, <1>3 DEF Outline

\* The first step is done, and the steps m are put in front of the rest.
LEMMA Goes ==
    ASSUME NEW T, NEW s, NEW F \in SUBSET DOMAIN T, NEW P, Outline(s, F, P, T), s # <<>>,
           NEW m, NEW G, Outline(m, G, After(F, Head(s), T), T)
    PROVE  Outline(m \o Tail(s), G, P, T)
BY Rest, Join

\* A set of numbers has a least one.
LEMMA LeastExists ==
    ASSUME NEW S \in SUBSET Nat, S # {}
    PROVE  \E x \in S : \A y \in S : x <= y
<1> DEFINE R == OpToRel(<, Nat)
<1>1. PICK x \in S : \A y \in S : ~(<<y, x>> \in R)
  BY WFMin, NatLessThanWellFounded
<1>2. ASSUME NEW y \in S
      PROVE  x <= y
  <2>1. <<y, x>> \in Nat \X Nat /\ <<y, x>>[1] = y /\ <<y, x>>[2] = x
    OBVIOUS
  <2>2. ~(y < x)
    BY <1>1, <2>1 DEF OpToRel
  <2> QED
    BY <2>2
<1> QED
  BY <1>2

-----------------------------------------------------------------------------
(* Types *)

\* The facts about the memory of a command: the steps that need them, those that give
\* them, and those that lose them.
Types == [
    arg  |-> [need |-> {"detect"}, give |-> {}, lose |-> {}],
    seen |-> [need |-> {"countRun", "countEnd", "wrap", "writeSecret", "writeRecovery"},
              give |-> {"ensure", "create"}, lose |-> {}],
    root |-> [need |-> {"makeRoot", "wrap"}, give |-> {"root"}, lose |-> {}],
    key  |-> [need |-> {"wrap", "writeSecret", "writeRecovery"},
              give |-> {"unlock", "openRecovery"}, lose |-> {}],
    held |-> [need |-> {"writeSecret", "dropSecret"}, give |-> {"readSecrets"},
              lose |-> {"readSecret"}],
    lock |-> [need |-> {"printRecovery"}, give |-> {"writeRecovery"}, lose |-> {}],
    port |-> [need |-> {"running", "configure", "saveRegistry"},
              give |-> {"detect", "probe", "readEntry"}, lose |-> {}],
    apps |-> [need |-> {"saveRegistry"}, give |-> {"readRegistry"}, lose |-> {}],
    spec |-> [need |-> {"markSpec", "clearSpec"}, give |-> {"readSpec"}, lose |-> {}] ]

\* The facts that hold of the command at terminal t.
KnownTypes(t) == {f \in DOMAIN Types :
    /\ f = "arg" => Arg(t) \in Ports \cup {0}
    /\ f = "seen" => km[t].seen \in Manifests /\ km[t].app \in Tags
    /\ f = "root" => km[t].root \in Tags
    /\ f = "key" => km[t].key \in Tags
    /\ f = "held" => km[t].held \in [Names -> Envelopes \cup {None}]
    /\ f = "lock" => km[t].lock \in Tags
    /\ f = "port" => pm[t].port \in Ports
    /\ f = "apps" => pm[t].apps \in [Projects -> Ports \cup {None}]
    /\ f = "spec" => pm[t].spec \in Specs}

\* What a snapshot and a rollback remember.
WorkShaped(w) ==
    /\ DOMAIN w = DOMAIN NoWork
    /\ w.todo \subseteq Files /\ DOMAIN w.zip \subseteq Files /\ DOMAIN w.pick \subseteq Files

\* The files of the snapshots and what their commands remember.
SnapshotsShaped ==
    /\ DOMAIN src = Projects /\ DOMAIN archives = Projects /\ DOMAIN sm = Terminals
    /\ \A t \in Terminals : WorkShaped(sm[t])
    /\ \A p \in Projects :
        /\ DOMAIN src[p] = Files
        /\ \A a \in archives[p] : DOMAIN a = {"id", "files"} /\ DOMAIN a.files \subseteq Files

\* What TypeOK leaves out and its proof needs.
Shaped ==
    /\ script \in [Terminals -> Seq(Commands)]
    /\ count \in [Terminals -> Nat]
    /\ DOMAIN agenda = Terminals /\ DOMAIN cmd = Terminals
    /\ DOMAIN km = Terminals /\ DOMAIN pm = Terminals
    /\ \A t \in Terminals :
        /\ DOMAIN pm[t] = DOMAIN NoMemory
        /\ Busy(t) => cmd[t] \in Commands
    /\ SnapshotsShaped

\* Every command has an outline of what it has still to do.
Planned == \A t \in Terminals : Outline(agenda[t], KnownTypes(t), {}, Types)

\* The inductive invariant of this module.
Typed == Shaped /\ TypeOK /\ Planned

\* A step that is done, and puts the steps m in front of the rest.
LEMMA TypesDone ==
    ASSUME Typed, NEW t \in Terminals, NEW x, NEW m, Do(t, x, m),
           Outline(m, KnownTypes(t)', After(KnownTypes(t), x, Types), Types)
    PROVE  Outline(agenda'[t], KnownTypes(t)', {}, Types)
<1>1. agenda[t] # <<>> /\ Head(agenda[t]) = x /\ agenda'[t] = m \o Tail(agenda[t])
  BY DEF Do, At, Busy, Typed, Shaped
<1>2. Outline(agenda[t], KnownTypes(t), {}, Types) /\ KnownTypes(t) \in SUBSET DOMAIN Types
  BY DEF Typed, Planned, KnownTypes
<1> QED
  BY <1>1, <1>2, Goes

\* A step that is done, and adds none.
LEMMA TypesNext ==
    ASSUME Typed, NEW t \in Terminals, NEW x, Do(t, x, <<>>),
           After(KnownTypes(t), x, Types) \subseteq KnownTypes(t)'
    PROVE  Outline(agenda'[t], KnownTypes(t)', {}, Types)
<1>1. KnownTypes(t)' \in SUBSET DOMAIN Types
  BY DEF KnownTypes
<1>2. Outline(<<>>, KnownTypes(t)', After(KnownTypes(t), x, Types), Types)
  BY <1>1, Empty
<1> QED
  BY <1>2, TypesDone

\* A command that ends has nothing left to do.
LEMMA TypesQuit ==
    ASSUME Typed, NEW t \in Terminals, NEW x, Quit(t, x)
    PROVE  Outline(agenda'[t], KnownTypes(t)', {}, Types)
<1>1. KnownTypes(t)' \in SUBSET DOMAIN Types
  BY DEF KnownTypes
<1>2. agenda'[t] = <<>>
  BY DEF Quit, Typed, Shaped
<1> QED
  BY <1>1, <1>2, Empty

\* A step that is next has what it needs ...
LEMMA TypesReady ==
    ASSUME Typed, NEW t \in Terminals, NEW x, At(t, x)
    PROVE  \A f \in DOMAIN Types : x \in Types[f].need => f \in KnownTypes(t)
<1>1. agenda[t] # <<>> /\ Head(agenda[t]) = x
  BY DEF At, Busy
<1>2. Outline(agenda[t], KnownTypes(t), {}, Types)
  BY DEF Typed, Planned
<1> QED
  BY <1>1, <1>2, Rest DEF Ready


\* The steps that give something.
Giving == {"ensure", "create", "root", "unlock", "openRecovery", "readSecrets", "writeRecovery",
           "detect", "probe", "readEntry", "readRegistry", "readSpec"}

\* A step that gives nothing and leaves the memory as it is.
LEMMA TypesSame ==
    ASSUME Typed, NEW t \in Terminals, NEW x, x \notin Giving, Do(t, x, <<>>),
           km'[t] = km[t], pm'[t] = pm[t]
    PROVE  Outline(agenda'[t], KnownTypes(t)', {}, Types)
<1>1. cmd' = cmd
  BY DEF Do
<1>2. After(KnownTypes(t), x, Types) \subseteq KnownTypes(t)
  BY DEF After, Types, Giving
<1>3. KnownTypes(t)' = KnownTypes(t)
  BY <1>1 DEF KnownTypes, Arg
<1> QED
  BY <1>2, <1>3, TypesNext

\* ... which is this.
LEMMA TypesNeeded ==
    ASSUME Typed, NEW t \in Terminals, NEW x, At(t, x)
    PROVE  /\ x = "detect" => Arg(t) \in Ports \cup {0}
           /\ x \in {"countRun", "countEnd", "wrap", "writeSecret", "writeRecovery"} =>
                km[t].seen \in Manifests /\ km[t].app \in Tags
           /\ x \in {"makeRoot", "wrap"} => km[t].root \in Tags
           /\ x \in {"wrap", "writeSecret", "writeRecovery"} => km[t].key \in Tags
           /\ x \in {"writeSecret", "dropSecret"} =>
                km[t].held \in [Names -> Envelopes \cup {None}]
           /\ x = "printRecovery" => km[t].lock \in Tags
           /\ x \in {"running", "configure", "saveRegistry"} => pm[t].port \in Ports
           /\ x = "saveRegistry" => pm[t].apps \in [Projects -> Ports \cup {None}]
           /\ x \in {"markSpec", "clearSpec"} => pm[t].spec \in Specs
BY TypesReady DEF Types, KnownTypes

\* Where a command works.
LEMMA WorksInProject ==
    ASSUME Typed, NEW t \in Terminals, NEW x, At(t, x)
    PROVE  In(t) \in Projects
BY ScriptsAreCommands DEF Typed, Shaped, At, In

\* record_publish_start and record_publish_stop write a manifest.
LEMMA CountTypes ==
    ASSUME Typed, NEW t \in Terminals, CountRun(t) \/ CountEnd(t)
    PROVE  KeysTypeOK'
<1>1. PICK x \in {"countRun", "countEnd"} : At(t, x)
  BY DEF CountRun, CountEnd, Do
<1>2. km[t].seen \in Manifests /\ In(t) \in Projects
  BY <1>1, TypesNeeded, WorksInProject
<1>3. /\ [km[t].seen EXCEPT !.runs = @ + 1] \in Manifests
      /\ [km[t].seen EXCEPT !.ends = @ + 1] \in Manifests
  BY <1>2 DEF Manifests
<1>4. /\ km' = km /\ root' = root /\ retired' = retired /\ appKey' = appKey /\ secrets' = secrets
      /\ recovery' = recovery /\ printed' = printed /\ raced' = raced
  BY DEF CountRun, CountEnd, keyFiles
<1>5. KeysTypeOK
  BY DEF Typed, TypeOK
<1>6. manifest' \in [Projects -> Manifests \cup {None}]
  <2>1. PICK m \in Manifests : manifest' = [manifest EXCEPT ![In(t)] = m]
    BY <1>3 DEF CountRun, CountEnd
  <2> QED
    BY <1>2, <1>5, <2>1 DEF KeysTypeOK
<1>7. runs' \in [Projects -> Nat]
  <2>1. \A p \in Projects : runs[p] \in Nat /\ runs[p] + 1 \in Nat
    BY <1>5 DEF KeysTypeOK
  <2>2. runs' = runs \/ runs' = [runs EXCEPT ![In(t)] = runs[In(t)] + 1]
    BY DEF CountRun, CountEnd
  <2> QED
    BY <1>2, <1>5, <2>1, <2>2 DEF KeysTypeOK
<1> QED
  BY <1>4, <1>5, <1>6, <1>7 DEF KeysTypeOK

\* What a command remembers after it has loaded a manifest.
LEMMA SeenTypes ==
    ASSUME Typed, NEW t \in Terminals, NEW m \in Manifests, Seen(t, m)
    PROVE  /\ DOMAIN km' = Terminals /\ DOMAIN km'[t] = DOMAIN Blank
           /\ km'[t].seen = m /\ km'[t].app \in Tags
           /\ km[t].app = None => km'[t].app = m.id
           /\ km[t].app # None => km'[t].app = km[t].app
           /\ km'[t].root = km[t].root /\ km'[t].key = km[t].key /\ km'[t].lock = km[t].lock
           /\ km'[t].held = km[t].held
           /\ \A u \in Terminals : u # t => km'[u] = km[u]
<1>1. /\ DOMAIN km = Terminals /\ DOMAIN km[t] = DOMAIN Blank /\ m.id \in Tags
      /\ km[t].app \in Tags \cup {None}
  BY DEF Typed, TypeOK, KeysTypeOK, Shaped, Manifests
<1>2. DOMAIN Blank = {"app", "seen", "root", "key", "lock", "held"}
  BY DEF Blank
<1> DEFINE a == IF km[t].app = None THEN m.id ELSE km[t].app
<1>3. a \in Tags /\ (km[t].app = None => a = m.id) /\ (km[t].app # None => a = km[t].app)
  BY <1>1
<1>4. km' = [km EXCEPT ![t] = [[km[t] EXCEPT !.seen = m] EXCEPT !.app = a]]
  BY <1>1, <1>2 DEF Seen
<1> HIDE DEF a
<1> QED
  BY <1>1, <1>2, <1>3, <1>4

\* The steps on the manifest.
LEMMA ManifestTypes ==
    ASSUME Typed, NEW t \in Terminals, ManifestStep(t), pm' = pm
    PROVE  KeysTypeOK' /\ Outline(agenda'[t], KnownTypes(t)', {}, Types)
<1>1. KeysTypeOK /\ km[t] = km[t] /\ DOMAIN km = Terminals
  BY DEF Typed, TypeOK, Shaped
<1>2. CASE EnsureFinds(t)
  <2> DEFINE m == manifest[In(t)]
  <2>1. /\ Do(t, "ensure", <<>>) /\ At(t, "ensure") /\ cmd' = cmd
        /\ m # None /\ UNCHANGED <<manifest, runs, keyFiles>>
    BY <1>2 DEF EnsureFinds, Do
  <2>2. m \in Manifests
    BY <1>1, <2>1, WorksInProject DEF KeysTypeOK
  <2>3. Seen(t, m)
    BY <1>2 DEF EnsureFinds
  <2> HIDE DEF m
  <2>4. KeysTypeOK'
    BY <1>1, <2>1, <2>2, <2>3, SeenTypes DEF KeysTypeOK, keyFiles
  <2>5. After(KnownTypes(t), "ensure", Types) \subseteq KnownTypes(t)'
    BY <2>1, <2>2, <2>3, SeenTypes DEF After, KnownTypes, Types, Arg
  <2> QED
    BY <2>1, <2>4, <2>5, TypesNext
<1>3. CASE EnsureMisses(t)
  <2>1. Do(t, "ensure", <<"create">>) /\ UNCHANGED keyVars /\ cmd' = cmd
    BY <1>3 DEF EnsureMisses, Do
  <2>2. KeysTypeOK' /\ km' = km
    BY <1>1, <2>1 DEF keyVars, KeysTypeOK
  <2>3. KnownTypes(t)' = KnownTypes(t) /\ KnownTypes(t) \in SUBSET DOMAIN Types
    BY <2>1, <2>2 DEF KnownTypes, Arg
  <2>4. Outline(<<"create">>, KnownTypes(t), After(KnownTypes(t), "ensure", Types), Types)
    <3> DEFINE F == KnownTypes(t)
               P == After(F, "ensure", Types)
    <3>1. Ready(F, "create", Types) /\ P \subseteq After(F, "create", Types)
          /\ P \in SUBSET DOMAIN Types
      BY DEF Ready, After, Types
    <3> QED
      BY <2>3, <3>1, One DEF Steps
  <2> QED
    BY <2>1, <2>2, <2>3, <2>4, TypesDone
<1>4. CASE Create(t)
  <2> DEFINE m == [id |-> Fresh(t), runs |-> 0, ends |-> 0]
  <2>1. /\ Do(t, "create", <<>>) /\ At(t, "create") /\ cmd' = cmd
        /\ manifest' = [manifest EXCEPT ![In(t)] = m] /\ UNCHANGED <<runs, keyFiles>>
    BY <1>4 DEF Create, Do
  <2>2. m \in Manifests /\ m.id \in Tags /\ In(t) \in Projects
    BY <2>1, WorksInProject DEF Typed, Shaped, Manifests, Tags, Fresh
  <2>3. manifest'[In(t)] = m
    BY <1>1, <2>1, <2>2 DEF KeysTypeOK
  <2> HIDE DEF m
  <2>4. Seen(t, m)
    BY <1>4, <2>3 DEF Create
  <2>5. KeysTypeOK'
    BY <1>1, <2>1, <2>2, <2>4, SeenTypes DEF KeysTypeOK, keyFiles
  <2>6. After(KnownTypes(t), "create", Types) \subseteq KnownTypes(t)'
    BY <2>1, <2>2, <2>4, SeenTypes DEF After, KnownTypes, Types, Arg
  <2> QED
    BY <2>1, <2>5, <2>6, TypesNext
<1>5. CASE CountRun(t) \/ CountEnd(t)
  <2>1. km' = km /\ (Do(t, "countRun", <<>>) \/ Do(t, "countEnd", <<>>))
    BY <1>5 DEF CountRun, CountEnd
  <2> QED
    BY <1>5, <2>1, CountTypes, TypesSame DEF Giving
<1>6. CASE CountFails(t)
  <2>1. Fails(t, "countRun", <<"share">>) /\ UNCHANGED keyVars
    BY <1>6 DEF CountFails
  <2>2. agenda'[t] = <<"share">>
    BY <2>1 DEF Fails, Typed, Shaped
  <2>3. Outline(<<"share">>, KnownTypes(t)', {}, Types)
    <3>1. Ready(KnownTypes(t)', "share", Types) /\ KnownTypes(t)' \in SUBSET DOMAIN Types
      BY DEF Ready, Types, KnownTypes
    <3> QED
      BY <3>1, One DEF Steps
  <2> QED
    BY <1>1, <2>1, <2>2, <2>3 DEF keyVars, KeysTypeOK
<1>7. CASE Share(t)
  <2>1. Do(t, "share", <<>>) /\ UNCHANGED keyVars
    BY <1>7 DEF Share
  <2> QED
    BY <1>1, <2>1, TypesSame DEF Giving, keyVars, KeysTypeOK
<1> QED
  BY <1>2, <1>3, <1>4, <1>5, <1>6, <1>7 DEF ManifestStep

\* The steps that wrap an app key, once there is one.
LEMMA RewrapTypes ==
    ASSUME NEW F \in SUBSET DOMAIN Types, "key" \in F, NEW P, P \subseteq F
    PROVE  Outline(<<"ensure", "root", "wrap">>, F, P, Types)
<1> DEFINE G == F \cup {"seen"}
           H == G \cup {"root"}
<1>1. G \in SUBSET DOMAIN Types /\ H \in SUBSET DOMAIN Types /\ P \in SUBSET DOMAIN Types
  BY DEF Types
<1>2. Ready(F, "ensure", Types) /\ G \subseteq After(F, "ensure", Types)
  BY <1>1 DEF Ready, After, Types
<1>3. Ready(G, "root", Types) /\ H \subseteq After(G, "root", Types)
  BY <1>1 DEF Ready, After, Types
<1>4. Ready(H, "wrap", Types) /\ P \subseteq After(H, "wrap", Types)
  BY <1>1 DEF Ready, After, Types
<1>5. "ensure" \in Steps /\ "root" \in Steps /\ "wrap" \in Steps
  BY DEF Steps
<1> HIDE DEF G, H
<1> QED
  BY <1>1, <1>2, <1>3, <1>4, <1>5, Three

\* The steps on the root key and the app key.
LEMMA KeyTypes ==
    ASSUME Typed, NEW t \in Terminals, KeyStep(t), pm' = pm
    PROVE  KeysTypeOK' /\ Outline(agenda'[t], KnownTypes(t)', {}, Types)
<1>1. KeysTypeOK /\ DOMAIN km = Terminals
  BY DEF Typed, TypeOK, Shaped
<1>2. DOMAIN km[t] = {"app", "seen", "root", "key", "lock", "held"}
  BY <1>1 DEF KeysTypeOK, Blank
<1>3. Fresh(t) \in Tags
  BY DEF Typed, Shaped, Fresh, Tags
<1>4. CASE RootFound(t)
  <2>1. /\ Do(t, "root", <<>>) /\ cmd' = cmd /\ root \in Tags
        /\ km' = [km EXCEPT ![t].root = root] /\ UNCHANGED <<root, appKey, AllButKeys>>
    BY <1>1, <1>4 DEF RootFound, Do, KeysTypeOK
  <2>2. KeysTypeOK'
    BY <1>1, <1>2, <2>1 DEF KeysTypeOK, AllButKeys, Blank
  <2>3. After(KnownTypes(t), "root", Types) \subseteq KnownTypes(t)'
    BY <1>1, <1>2, <2>1 DEF After, KnownTypes, Types, Arg
  <2> QED
    BY <2>1, <2>2, <2>3, TypesNext
<1>5. CASE RootMissing(t)
  <2>1. /\ Do(t, "root", <<"makeRoot", "confirmRoot">>) /\ cmd' = cmd
        /\ km' = [km EXCEPT ![t].root = Fresh(t)] /\ UNCHANGED <<root, appKey, AllButKeys>>
    BY <1>5 DEF RootMissing, Do
  <2>2. KeysTypeOK'
    BY <1>1, <1>2, <1>3, <2>1 DEF KeysTypeOK, AllButKeys, Blank
  <2> DEFINE G == KnownTypes(t)'
             P == After(KnownTypes(t), "root", Types)
  <2>3. P \subseteq G /\ "root" \in G
    BY <1>1, <1>2, <1>3, <2>1 DEF After, KnownTypes, Types, Arg
  <2>4. P \in SUBSET DOMAIN Types /\ G \in SUBSET DOMAIN Types
    BY DEF After, KnownTypes
  <2> HIDE DEF G, P
  <2>5. /\ Ready(G, "makeRoot", Types) /\ G \subseteq After(G, "makeRoot", Types)
        /\ Ready(G, "confirmRoot", Types) /\ P \subseteq After(G, "confirmRoot", Types)
    BY <2>3, <2>4 DEF After, Ready, Types
  <2>6. "makeRoot" \in Steps /\ "confirmRoot" \in Steps
    BY DEF Steps
  <2>7. Outline(<<"makeRoot", "confirmRoot">>, G, P, Types)
    BY <2>4, <2>5, <2>6, Two
  <2> QED
    BY <2>1, <2>2, <2>7, TypesDone DEF G, P
<1>6. CASE MakeRoot(t)
  <2>1. Do(t, "makeRoot", <<>>) /\ At(t, "makeRoot") /\ km' = km
    BY <1>6 DEF MakeRoot, Do
  <2>2. km[t].root \in Tags
    BY <2>1, TypesNeeded
  <2>3. KeysTypeOK'
    BY <1>1, <1>6, <2>1, <2>2 DEF MakeRoot, KeysTypeOK, AllButKeys
  <2> QED
    BY <2>1, <2>3, TypesSame DEF Giving
<1>7. CASE ConfirmRoot(t)
  <2>1. UNCHANGED keyVars /\ (Do(t, "confirmRoot", <<>>) \/ Quit(t, "confirmRoot"))
    BY <1>7 DEF ConfirmRoot
  <2>2. KeysTypeOK' /\ km' = km
    BY <1>1, <2>1 DEF keyVars, KeysTypeOK
  <2> QED
    BY <2>1, <2>2, TypesSame, TypesQuit DEF Giving
<1>8. CASE Unlock(t)
  <2>1. /\ At(t, "unlock") /\ appKey[In(t)] # None /\ UNCHANGED <<root, appKey, AllButKeys>>
        /\ \/ Do(t, "unlock", <<>>) /\ km' = [km EXCEPT ![t].key = appKey[In(t)].key]
           \/ Quit(t, "unlock") /\ km' = km
    BY <1>8 DEF Unlock
  <2>2. appKey[In(t)].key \in Tags
    <3>1. In(t) \in Projects
      BY <2>1, WorksInProject
    <3>2. appKey[In(t)] \in WrappedKeys
      BY <1>1, <2>1, <3>1 DEF KeysTypeOK
    <3> QED
      BY <3>2 DEF WrappedKeys
  <2>3. CASE Quit(t, "unlock") /\ km' = km
    BY <1>1, <2>1, <2>3, TypesQuit DEF KeysTypeOK, AllButKeys
  <2>4. CASE Do(t, "unlock", <<>>) /\ km' = [km EXCEPT ![t].key = appKey[In(t)].key]
    <3>1. cmd' = cmd
      BY <2>4 DEF Do
    <3>2. KeysTypeOK'
      BY <1>1, <1>2, <2>1, <2>2, <2>4 DEF KeysTypeOK, AllButKeys, Blank
    <3>3. After(KnownTypes(t), "unlock", Types) \subseteq KnownTypes(t)'
      BY <1>1, <1>2, <2>2, <2>4, <3>1 DEF After, KnownTypes, Types, Arg
    <3> QED
      BY <2>4, <3>2, <3>3, TypesNext
  <2> QED
    BY <2>1, <2>3, <2>4
<1>9. CASE UnlockMisses(t)
  <2>1. /\ Do(t, "unlock", <<"ensure", "root", "wrap">>) /\ cmd' = cmd
        /\ km' = [km EXCEPT ![t].key = Fresh(t)] /\ UNCHANGED <<root, appKey, AllButKeys>>
    BY <1>9 DEF UnlockMisses, Do
  <2>2. KeysTypeOK'
    BY <1>1, <1>2, <1>3, <2>1 DEF KeysTypeOK, AllButKeys, Blank
  <2> DEFINE G == KnownTypes(t)'
             P == After(KnownTypes(t), "unlock", Types)
  <2>3. P \subseteq G /\ "key" \in G
    BY <1>1, <1>2, <1>3, <2>1 DEF After, KnownTypes, Types, Arg
  <2>4. P \in SUBSET DOMAIN Types /\ G \in SUBSET DOMAIN Types
    BY DEF After, KnownTypes
  <2> HIDE DEF G, P
  <2>5. Outline(<<"ensure", "root", "wrap">>, G, P, Types)
    BY <2>3, <2>4, RewrapTypes
  <2> QED
    BY <2>1, <2>2, <2>5, TypesDone DEF G, P
<1>10. CASE Wrap(t)
  <2>1. Do(t, "wrap", <<>>) /\ At(t, "wrap") /\ km' = km
    BY <1>10 DEF Wrap, Do
  <2>2. [app |-> km[t].seen.id, root |-> km[t].root, key |-> km[t].key] \in WrappedKeys
    BY <2>1, TypesNeeded DEF Manifests, WrappedKeys
  <2>3. KeysTypeOK'
    BY <1>1, <1>10, <2>1, <2>2, WorksInProject DEF Wrap, KeysTypeOK, AllButKeys
  <2> QED
    BY <2>1, <2>3, TypesSame DEF Giving
<1> QED
  BY <1>4, <1>5, <1>6, <1>7, <1>8, <1>9, <1>10 DEF KeyStep

\* The steps on the secrets.
LEMMA SecretTypes ==
    ASSUME Typed, NEW t \in Terminals, SecretStep(t), pm' = pm
    PROVE  KeysTypeOK' /\ Outline(agenda'[t], KnownTypes(t)', {}, Types)
<1>1. KeysTypeOK /\ DOMAIN km = Terminals
  BY DEF Typed, TypeOK, Shaped
<1>2. DOMAIN km[t] = {"app", "seen", "root", "key", "lock", "held"}
  BY <1>1 DEF KeysTypeOK, Blank
<1>3. CASE ReadSecrets(t)
  <2>1. /\ Do(t, "readSecrets", <<>>) /\ At(t, "readSecrets") /\ cmd' = cmd
        /\ km' = [km EXCEPT ![t].held = secrets[In(t)]] /\ UNCHANGED <<secrets, AllButSecrets>>
    BY <1>3 DEF ReadSecrets, Do
  <2>2. secrets[In(t)] \in [Names -> Envelopes \cup {None}]
    BY <1>1, <2>1, WorksInProject DEF KeysTypeOK
  <2>3. KeysTypeOK'
    BY <1>1, <1>2, <2>1 DEF KeysTypeOK, AllButSecrets, Blank
  <2>4. After(KnownTypes(t), "readSecrets", Types) \subseteq KnownTypes(t)'
    BY <1>1, <1>2, <2>1, <2>2 DEF After, KnownTypes, Types, Arg
  <2> QED
    BY <2>1, <2>3, <2>4, TypesNext
<1>4. CASE WriteSecret(t)
  <2> DEFINE e == [app |-> km[t].app, key |-> km[t].key]
  <2>1. /\ Do(t, "writeSecret", <<>>) /\ At(t, "writeSecret") /\ km' = km
        /\ secrets' = [secrets EXCEPT ![In(t)] = [km[t].held EXCEPT ![Arg(t)] = e]]
        /\ UNCHANGED AllButSecrets
    BY <1>4 DEF WriteSecret, Do
  <2>2. e \in Envelopes /\ km[t].held \in [Names -> Envelopes \cup {None}] /\ In(t) \in Projects
    BY <2>1, TypesNeeded, WorksInProject DEF Envelopes
  <2> HIDE DEF e
  <2>3. [km[t].held EXCEPT ![Arg(t)] = e] \in [Names -> Envelopes \cup {None}]
    BY <2>2
  <2>4. KeysTypeOK'
    BY <1>1, <2>1, <2>2, <2>3 DEF KeysTypeOK, AllButSecrets
  <2> QED
    BY <2>1, <2>4, TypesSame DEF Giving
<1>5. CASE DropSecret(t)
  <2> DEFINE h == [km[t].held EXCEPT ![Arg(t)] = None]
  <2>1. /\ Do(t, "dropSecret", <<>>) /\ At(t, "dropSecret") /\ km' = km
        /\ secrets' = secrets \/ secrets' = [secrets EXCEPT ![In(t)] = h]
        /\ UNCHANGED AllButSecrets
    BY <1>5 DEF DropSecret, Do
  <2>2. h \in [Names -> Envelopes \cup {None}] /\ In(t) \in Projects
    BY <2>1, TypesNeeded, WorksInProject
  <2> HIDE DEF h
  <2>3. KeysTypeOK'
    BY <1>1, <2>1, <2>2 DEF KeysTypeOK, AllButSecrets
  <2> QED
    BY <2>1, <2>3, TypesSame DEF Giving
<1>6. CASE ReadSecret(t)
  <2>1. /\ Do(t, "readSecret", <<>>) \/ Quit(t, "readSecret")
        /\ km' = [km EXCEPT ![t].held = secrets[In(t)][Arg(t)]]
        /\ UNCHANGED <<secrets, AllButSecrets>>
    BY <1>6 DEF ReadSecret
  <2>2. KeysTypeOK'
    BY <1>1, <1>2, <2>1 DEF KeysTypeOK, AllButSecrets, Blank
  <2>3. cmd' = cmd
    BY <2>1 DEF Do, Quit
  <2>4. After(KnownTypes(t), "readSecret", Types) \subseteq KnownTypes(t)'
    BY <1>1, <1>2, <2>1, <2>3 DEF After, KnownTypes, Types, Arg
  <2> QED
    BY <2>1, <2>2, <2>4, TypesNext, TypesQuit
<1>7. CASE Decrypt(t)
  <2>1. UNCHANGED keyVars /\ (Do(t, "decrypt", <<>>) \/ Quit(t, "decrypt"))
    BY <1>7 DEF Decrypt
  <2>2. KeysTypeOK' /\ km' = km
    BY <1>1, <2>1 DEF keyVars, KeysTypeOK
  <2> QED
    BY <2>1, <2>2, TypesSame, TypesQuit DEF Giving
<1> QED
  BY <1>3, <1>4, <1>5, <1>6, <1>7 DEF SecretStep

\* The steps on the recovery key, and the move to another device.
LEMMA RecoveryTypes ==
    ASSUME Typed, NEW t \in Terminals, RecoveryStep(t) \/ MoveAway(t), pm' = pm
    PROVE  KeysTypeOK' /\ Outline(agenda'[t], KnownTypes(t)', {}, Types)
<1>1. KeysTypeOK /\ DOMAIN km = Terminals
  BY DEF Typed, TypeOK, Shaped
<1>2. DOMAIN km[t] = {"app", "seen", "root", "key", "lock", "held"}
  BY <1>1 DEF KeysTypeOK, Blank
<1>3. Fresh(t) \in Tags
  BY DEF Typed, Shaped, Fresh, Tags
<1>4. CASE CheckRecovery(t)
  <2>1. UNCHANGED keyVars /\ (Do(t, "checkRecovery", <<>>) \/ Quit(t, "checkRecovery"))
    BY <1>4 DEF CheckRecovery
  <2>2. KeysTypeOK' /\ km' = km
    BY <1>1, <2>1 DEF keyVars, KeysTypeOK
  <2> QED
    BY <2>1, <2>2, TypesSame, TypesQuit DEF Giving
<1>5. CASE WriteRecovery(t)
  <2> DEFINE e == [app |-> km[t].app, lock |-> Fresh(t), key |-> km[t].key]
  <2>1. /\ Do(t, "writeRecovery", <<>>) /\ At(t, "writeRecovery") /\ cmd' = cmd
        /\ km' = [km EXCEPT ![t].lock = Fresh(t)]
        /\ recovery' = [recovery EXCEPT ![In(t)] = e] /\ UNCHANGED <<printed, AllButRecovery>>
    BY <1>5 DEF WriteRecovery, Do
  <2>2. e \in Recoveries /\ In(t) \in Projects
    BY <1>3, <2>1, TypesNeeded, WorksInProject DEF Recoveries
  <2> HIDE DEF e
  <2>3. KeysTypeOK'
    BY <1>1, <1>2, <1>3, <2>1, <2>2 DEF KeysTypeOK, AllButRecovery, Blank
  <2>4. After(KnownTypes(t), "writeRecovery", Types) \subseteq KnownTypes(t)'
    BY <1>1, <1>2, <1>3, <2>1 DEF After, KnownTypes, Types, Arg
  <2> QED
    BY <2>1, <2>3, <2>4, TypesNext
<1>6. CASE PrintRecovery(t)
  <2>1. /\ Do(t, "printRecovery", <<>>) /\ At(t, "printRecovery") /\ km' = km
        /\ printed' = printed \cup {[in |-> In(t), lock |-> km[t].lock]}
        /\ UNCHANGED <<recovery, AllButRecovery>>
    BY <1>6 DEF PrintRecovery, Do
  <2>2. [in |-> In(t), lock |-> km[t].lock] \in [in : Projects, lock : Tags]
    BY <2>1, TypesNeeded, WorksInProject
  <2>3. KeysTypeOK'
    BY <1>1, <2>1, <2>2 DEF KeysTypeOK, AllButRecovery
  <2> QED
    BY <2>1, <2>3, TypesSame DEF Giving
<1>7. CASE OpenRecovery(t)
  <2>1. /\ At(t, "openRecovery") /\ UNCHANGED <<recovery, printed, AllButRecovery>>
        /\ \/ /\ Do(t, "openRecovery", <<>>) /\ recovery[In(t)] # None
              /\ km' = [km EXCEPT ![t].key = recovery[In(t)].key]
           \/ Quit(t, "openRecovery") /\ km' = km
    BY <1>7 DEF OpenRecovery
  <2>2. CASE Quit(t, "openRecovery") /\ km' = km
    BY <1>1, <2>1, <2>2, TypesQuit DEF KeysTypeOK, AllButRecovery
  <2>3. CASE /\ Do(t, "openRecovery", <<>>) /\ recovery[In(t)] # None
             /\ km' = [km EXCEPT ![t].key = recovery[In(t)].key]
    <3>1. In(t) \in Projects /\ cmd' = cmd
      BY <2>1, <2>3, WorksInProject DEF Do
    <3>2. recovery[In(t)] \in Recoveries
      BY <1>1, <2>3, <3>1 DEF KeysTypeOK
    <3>3. recovery[In(t)].key \in Tags
      BY <3>2 DEF Recoveries
    <3>4. KeysTypeOK'
      BY <1>1, <1>2, <2>1, <2>3, <3>3 DEF KeysTypeOK, AllButRecovery, Blank
    <3>5. After(KnownTypes(t), "openRecovery", Types) \subseteq KnownTypes(t)'
      BY <1>1, <1>2, <2>3, <3>1, <3>3 DEF After, KnownTypes, Types, Arg
    <3> QED
      BY <2>3, <3>4, <3>5, TypesNext
  <2> QED
    BY <2>1, <2>2, <2>3
<1>8. CASE MoveAway(t)
  <2>1. /\ Do(t, "move", <<>>) /\ km' = km /\ root' = None
        /\ retired' = retired \cup ({root} \ {None})
        /\ UNCHANGED <<manifest, runs, appKey, secrets, recovery, printed, raced>>
    BY <1>8 DEF MoveAway
  <2>2. KeysTypeOK'
    BY <1>1, <2>1 DEF KeysTypeOK
  <2> QED
    BY <2>1, <2>2, TypesSame DEF Giving
<1> QED
  BY <1>4, <1>5, <1>6, <1>7, <1>8 DEF RecoveryStep

\* The steps of a deployment whose port is known.
LEMMA LaunchTypes ==
    ASSUME NEW F \in SUBSET DOMAIN Types, "port" \in F
    PROVE  /\ Outline(Launch, F, F, Types) /\ Outline(Register, F, F, Types)
           /\ Outline(Launch \o Register, F, F, Types)
<1>1. /\ Ready(F, "open", Types) /\ F \subseteq After(F, "open", Types)
      /\ Ready(F, "ensure", Types) /\ F \subseteq After(F, "ensure", Types)
      /\ Ready(F, "configure", Types) /\ F \subseteq After(F, "configure", Types)
      /\ Ready(F, "start", Types) /\ F \subseteq After(F, "start", Types)
  BY DEF Ready, After, Types
<1>2. /\ "open" \in Steps /\ "ensure" \in Steps /\ "configure" \in Steps /\ "start" \in Steps
  BY DEF Steps
<1>3. Outline(Launch, F, F, Types)
  <2>1. Outline(<<"open", "ensure">>, F, F, Types)
    BY <1>1, <1>2, Two
  <2>2. Outline(<<"configure", "start">>, F, F, Types)
    BY <1>1, <1>2, Two
  <2> QED
    BY <1>2, <2>1, <2>2, Four DEF Launch
<1>4. Outline(Register, F, F, Types)
  <2> DEFINE G == F \cup {"apps"}
  <2>1. /\ G \in SUBSET DOMAIN Types
        /\ Ready(F, "readEntry", Types) /\ F \subseteq After(F, "readEntry", Types)
        /\ Ready(F, "readRegistry", Types) /\ G \subseteq After(F, "readRegistry", Types)
        /\ Ready(G, "saveRegistry", Types) /\ F \subseteq After(G, "saveRegistry", Types)
    BY DEF Ready, After, Types
  <2>2. "readEntry" \in Steps /\ "readRegistry" \in Steps /\ "saveRegistry" \in Steps
    BY DEF Steps
  <2> HIDE DEF G
  <2> QED
    BY <2>1, <2>2, Three DEF Register
<1> QED
  BY <1>3, <1>4, Join

\* The same, after a free port has been found.
LEMMA ChooseTypes ==
    ASSUME NEW F \in SUBSET DOMAIN Types
    PROVE  Outline((<<"reserve", "probe">> \o Launch) \o Register, F, F \cup {"port"}, Types)
<1> DEFINE G == F \cup {"port"}
<1>1. /\ G \in SUBSET DOMAIN Types /\ "port" \in G
      /\ Ready(F, "reserve", Types) /\ F \subseteq After(F, "reserve", Types)
      /\ Ready(F, "probe", Types) /\ G \subseteq After(F, "probe", Types)
  BY DEF Ready, After, Types
<1>2. "reserve" \in Steps /\ "probe" \in Steps
  BY DEF Steps
<1> HIDE DEF G
<1>3. Outline(<<"reserve", "probe">>, F, G, Types)
  BY <1>1, <1>2, Two
<1>4. Outline(<<"reserve", "probe">> \o Launch, F, G, Types)
  BY <1>1, <1>3, LaunchTypes, Join
<1>5. Outline((<<"reserve", "probe">> \o Launch) \o Register, F, G, Types)
  BY <1>1, <1>4, LaunchTypes, Join
<1> QED
  BY <1>5 DEF G

\* Least is in the set it is the least of.
LEMMA LeastIsIn ==
    ASSUME NEW S \in SUBSET Nat, S # {}
    PROVE  Least(S) \in S
<1>1. \E x \in S : \A y \in S : x <= y
  BY LeastExists
<1> QED
  BY <1>1 DEF Least

\* Most steps of a deployment change the port or nothing that a command remembers.
LEMMA DeployTypes ==
    ASSUME Typed, NEW t \in Terminals, km' = km,
           \/ DetectGiven(t) \/ DetectExisting(t) \/ DetectNew(t) \/ Running(t) \/ Reserve(t)
           \/ Probe(t) \/ Open(t)
    PROVE  ProjectsTypeOK' /\ DOMAIN pm'[t] = DOMAIN NoMemory
           /\ Outline(agenda'[t], KnownTypes(t)', {}, Types)
<1>1. ProjectsTypeOK /\ DOMAIN pm = Terminals
  BY DEF Typed, TypeOK, Shaped
<1>2. DOMAIN pm[t] = {"port", "taken", "spec", "apps"} /\ DOMAIN NoMemory = DOMAIN pm[t]
  BY DEF Typed, Shaped, NoMemory
<1>3. KnownTypes(t) \in SUBSET DOMAIN Types /\ KnownTypes(t)' \in SUBSET DOMAIN Types
  BY DEF KnownTypes
<1>4. CASE DetectGiven(t)
  <2>1. /\ Do(t, "detect", Launch \o Register) /\ At(t, "detect") /\ cmd' = cmd
        /\ pm' = [pm EXCEPT ![t] = [pm[t] EXCEPT !.port = Arg(t)]] /\ Arg(t) # 0
        /\ requested' = requested \cup {In(t)} /\ UNCHANGED <<spec, svc, unit, registry, moved>>
    BY <1>4 DEF DetectGiven, Do, Remember
  <2>2. Arg(t) \in Ports /\ In(t) \in Projects
    BY <2>1, TypesNeeded, WorksInProject
  <2>3. ProjectsTypeOK' /\ DOMAIN pm'[t] = DOMAIN NoMemory
    BY <1>1, <1>2, <2>1, <2>2 DEF ProjectsTypeOK
  <2>4. "port" \in KnownTypes(t)' /\ After(KnownTypes(t), "detect", Types) \subseteq KnownTypes(t)'
    BY <1>1, <1>2, <2>1, <2>2 DEF KnownTypes, After, Types, Arg
  <2>5. Outline(Launch \o Register, KnownTypes(t)', After(KnownTypes(t), "detect", Types), Types)
    BY <1>3, <2>4, LaunchTypes, Wider
  <2> QED
    BY <2>1, <2>3, <2>5, TypesDone
<1>5. CASE DetectExisting(t)
  <2>1. /\ Do(t, "detect", <<"running">>) /\ At(t, "detect") /\ cmd' = cmd
        /\ pm' = [pm EXCEPT ![t] = [pm[t] EXCEPT !.port = spec[In(t)].port]]
        /\ spec[In(t)] # None /\ UNCHANGED <<spec, svc, unit, registry, requested, moved>>
    BY <1>5 DEF DetectExisting, Do, Remember
  <2>2. spec[In(t)].port \in Ports
    <3>1. spec[In(t)] \in Specs /\ \A x \in Specs : x.port \in Ports
      BY <1>1, <2>1, WorksInProject DEF ProjectsTypeOK, Specs
    <3> QED
      BY <3>1
  <2>3. ProjectsTypeOK' /\ DOMAIN pm'[t] = DOMAIN NoMemory
    BY <1>1, <1>2, <2>1, <2>2 DEF ProjectsTypeOK
  <2> DEFINE G == KnownTypes(t)'
             P == After(KnownTypes(t), "detect", Types)
  <2>4. "port" \in G /\ P \subseteq G
    BY <1>1, <1>2, <2>1, <2>2 DEF KnownTypes, After, Types, Arg
  <2>5. G \in SUBSET DOMAIN Types
    BY <1>3
  <2> HIDE DEF G, P
  <2>6. Outline(<<"running">>, G, P, Types)
    <3>1. Ready(G, "running", Types) /\ P \subseteq After(G, "running", Types)
      BY <2>4, <2>5 DEF Ready, After, Types
    <3> QED
      BY <2>4, <2>5, <3>1, One DEF Steps
  <2> QED
    BY <2>1, <2>3, <2>6, TypesDone DEF G, P
<1>6. CASE DetectNew(t)
  <2>1. /\ Do(t, "detect", <<"reserve", "probe">> \o Launch \o Register)
        /\ UNCHANGED projectVars /\ cmd' = cmd
    BY <1>6 DEF DetectNew, Do
  <2>2. ProjectsTypeOK' /\ pm' = pm
    BY <1>1, <2>1 DEF projectVars, ProjectsTypeOK
  <2>3. KnownTypes(t)' = KnownTypes(t)
    BY <2>1, <2>2 DEF KnownTypes, Arg
  <2>4. After(KnownTypes(t), "detect", Types) \subseteq KnownTypes(t) \cup {"port"}
    BY <1>3 DEF After, Types
  <2>5. Outline((<<"reserve", "probe">> \o Launch) \o Register, KnownTypes(t),
                After(KnownTypes(t), "detect", Types), Types)
    BY <1>3, <2>4, ChooseTypes, Wider
  <2> QED
    BY <1>2, <2>1, <2>2, <2>3, <2>5, TypesDone
<1>7. CASE Running(t)
  <2>1. /\ UNCHANGED projectVars /\ cmd' = cmd /\ At(t, "running")
        /\ Do(t, "running", Launch \o Register) \/ Do(t, "running", Register)
    BY <1>7 DEF Running, Do
  <2>2. ProjectsTypeOK' /\ pm' = pm
    BY <1>1, <2>1 DEF projectVars, ProjectsTypeOK
  <2>3. KnownTypes(t)' = KnownTypes(t)
    BY <2>1, <2>2 DEF KnownTypes, Arg
  <2>4. "port" \in KnownTypes(t) /\ After(KnownTypes(t), "running", Types) \subseteq KnownTypes(t)
    BY <1>3, <2>1, TypesReady DEF After, Types
  <2>5. /\ Outline(Launch \o Register, KnownTypes(t), After(KnownTypes(t), "running", Types), Types)
        /\ Outline(Register, KnownTypes(t), After(KnownTypes(t), "running", Types), Types)
    BY <1>3, <2>4, LaunchTypes, Wider
  <2> QED
    BY <1>2, <2>1, <2>2, <2>3, <2>5, TypesDone
<1>8. CASE Reserve(t)
  <2>1. /\ Do(t, "reserve", <<>>) /\ cmd' = cmd
        /\ pm' = [pm EXCEPT ![t] = [pm[t] EXCEPT !.taken = Reserved(In(t))]]
        /\ UNCHANGED <<spec, svc, unit, registry, requested, moved>>
    BY <1>8 DEF Reserve, Do, Remember
  <2>2. Reserved(In(t)) \subseteq Ports
    BY <1>1 DEF Reserved, ProjectsTypeOK
  <2>3. ProjectsTypeOK' /\ DOMAIN pm'[t] = DOMAIN NoMemory
    BY <1>1, <1>2, <2>1, <2>2 DEF ProjectsTypeOK
  <2>4. After(KnownTypes(t), "reserve", Types) \subseteq KnownTypes(t)'
    BY <1>1, <1>2, <2>1 DEF KnownTypes, After, Types, Arg
  <2> QED
    BY <2>1, <2>3, <2>4, TypesNext
<1>9. CASE Probe(t)
  <2>1. UNCHANGED <<spec, svc, unit, registry, requested, moved>>
    BY <1>9 DEF Probe
  <2>2. CASE Free(t) = {}
    <3>1. Quit(t, "probe") /\ pm' = pm
      BY <1>9, <2>2 DEF Probe
    <3> QED
      BY <1>1, <1>2, <2>1, <3>1, TypesQuit DEF ProjectsTypeOK
  <2>3. CASE Free(t) # {}
    <3>1. Do(t, "probe", <<>>) /\ pm' = [pm EXCEPT ![t] = [pm[t] EXCEPT !.port = Least(Free(t))]]
      BY <1>9, <2>3 DEF Probe, Remember, Least
    <3>2. Free(t) \subseteq Ports /\ Ports \subseteq Nat
      BY PortsAreNatural DEF Free, Ports
    <3>3. Least(Free(t)) \in Ports /\ cmd' = cmd
      BY <2>3, <3>1, <3>2, LeastIsIn DEF Do
    <3>4. ProjectsTypeOK' /\ DOMAIN pm'[t] = DOMAIN NoMemory
      BY <1>1, <1>2, <2>1, <3>1, <3>3 DEF ProjectsTypeOK
    <3>5. After(KnownTypes(t), "probe", Types) \subseteq KnownTypes(t)'
      BY <1>1, <1>2, <3>1, <3>3 DEF KnownTypes, After, Types, Arg
    <3> QED
      BY <3>1, <3>4, <3>5, TypesNext
  <2> QED
    BY <2>2, <2>3
<1>10. CASE Open(t)
  <2>1. UNCHANGED projectVars /\ (Do(t, "open", <<>>) \/ Quit(t, "open"))
    BY <1>10 DEF Open
  <2>2. ProjectsTypeOK' /\ pm' = pm
    BY <1>1, <2>1 DEF projectVars, ProjectsTypeOK
  <2> QED
    BY <1>2, <2>1, <2>2, TypesSame, TypesQuit DEF Giving
<1> QED
  BY <1>4, <1>5, <1>6, <1>7, <1>8, <1>9, <1>10

\* The other steps of a service.
LEMMA ServiceTypes ==
    ASSUME Typed, NEW t \in Terminals, km' = km,
           \/ Configure(t) \/ Start(t) \/ StartTimesOut(t) \/ StopService(t)
           \/ ReadEntry(t) \/ ReadRegistry(t) \/ SaveRegistry(t)
    PROVE  ProjectsTypeOK' /\ DOMAIN pm'[t] = DOMAIN NoMemory
           /\ Outline(agenda'[t], KnownTypes(t)', {}, Types)
<1>1. ProjectsTypeOK /\ DOMAIN pm = Terminals
  BY DEF Typed, TypeOK, Shaped
<1>2. DOMAIN pm[t] = {"port", "taken", "spec", "apps"} /\ DOMAIN NoMemory = DOMAIN pm[t]
  BY DEF Typed, Shaped, NoMemory
<1>3. \A p \in Projects : spec[p] # None => spec[p].port \in Ports
  <2>1. \A x \in Specs : x.port \in Ports
    BY DEF Specs
  <2> QED
    BY <1>1, <2>1 DEF ProjectsTypeOK
<1>4. CASE Configure(t)
  <2> DEFINE x == [port |-> pm[t].port, autostart |-> FALSE]
  <2>1. /\ Do(t, "configure", <<>>) /\ At(t, "configure")
        /\ spec' = [spec EXCEPT ![In(t)] = x]
        /\ UNCHANGED <<svc, unit, registry, requested, moved, pm>>
    BY <1>4 DEF Configure, Do
  <2>2. x \in Specs
    BY <2>1, TypesNeeded DEF Specs
  <2> HIDE DEF x
  <2>3. ProjectsTypeOK'
    BY <1>1, <2>1, <2>2 DEF ProjectsTypeOK
  <2> QED
    BY <1>2, <2>1, <2>3, TypesSame DEF Giving
<1>5. CASE Start(t) \/ StartTimesOut(t)
  <2>1. /\ UNCHANGED <<spec, unit, registry, requested, moved, pm>>
        /\ \/ svc' = svc
           \/ spec[In(t)] # None /\ svc' = [svc EXCEPT ![In(t)] = spec[In(t)].port]
    BY <1>5 DEF Start, StartTimesOut
  <2>2. At(t, "start")
    BY <1>5 DEF Start, StartTimesOut, Fails
  <2>3. ProjectsTypeOK'
    BY <1>1, <1>3, <2>1, <2>2, WorksInProject DEF ProjectsTypeOK
  <2>4. CASE Start(t)
    <3>1. Do(t, "start", <<>>) \/ Quit(t, "start")
      BY <2>4 DEF Start
    <3> QED
      BY <1>2, <2>1, <2>3, <3>1, TypesSame, TypesQuit DEF Giving
  <2>5. CASE StartTimesOut(t)
    <3>1. agenda'[t] = <<>>
      BY <2>5 DEF StartTimesOut, Fails, Typed, Shaped
    <3>2. KnownTypes(t)' \in SUBSET DOMAIN Types
      BY DEF KnownTypes
    <3> QED
      BY <1>2, <2>1, <2>3, <3>1, <3>2, Empty
  <2> QED
    BY <1>5, <2>4, <2>5
<1>6. CASE StopService(t)
  <2>1. /\ Do(t, "stop", <<>>) /\ svc' = [svc EXCEPT ![In(t)] = None]
        /\ UNCHANGED <<spec, unit, registry, requested, moved, pm>>
    BY <1>6 DEF StopService
  <2>2. ProjectsTypeOK'
    BY <1>1, <2>1 DEF ProjectsTypeOK
  <2> QED
    BY <1>2, <2>1, <2>2, TypesSame DEF Giving
<1>7. CASE ReadEntry(t)
  <2>1. At(t, "readEntry") /\ UNCHANGED <<spec, svc, unit, registry, requested, moved>>
    BY <1>7 DEF ReadEntry
  <2>2. CASE spec[In(t)] = None
    <3>1. Quit(t, "readEntry") /\ pm' = pm
      BY <1>7, <2>2 DEF ReadEntry
    <3> QED
      BY <1>1, <1>2, <2>1, <3>1, TypesQuit DEF ProjectsTypeOK
  <2>3. CASE spec[In(t)] # None
    <3>1. /\ Do(t, "readEntry", <<>>) /\ cmd' = cmd
          /\ pm' = [pm EXCEPT ![t] = [pm[t] EXCEPT !.port = spec[In(t)].port]]
      BY <1>7, <2>3 DEF ReadEntry, Remember, Do
    <3>2. spec[In(t)].port \in Ports
      BY <1>3, <2>1, <2>3, WorksInProject
    <3>3. ProjectsTypeOK' /\ DOMAIN pm'[t] = DOMAIN NoMemory
      BY <1>1, <1>2, <2>1, <3>1, <3>2 DEF ProjectsTypeOK
    <3>4. After(KnownTypes(t), "readEntry", Types) \subseteq KnownTypes(t)'
      BY <1>1, <1>2, <3>1, <3>2 DEF KnownTypes, After, Types, Arg
    <3> QED
      BY <3>1, <3>3, <3>4, TypesNext
  <2> QED
    BY <2>2, <2>3
<1>8. CASE ReadRegistry(t)
  <2>1. /\ Do(t, "readRegistry", <<>>) /\ cmd' = cmd
        /\ pm' = [pm EXCEPT ![t] = [pm[t] EXCEPT !.apps = registry]]
        /\ UNCHANGED <<spec, svc, unit, registry, requested, moved>>
    BY <1>8 DEF ReadRegistry, Remember, Do
  <2>2. ProjectsTypeOK' /\ DOMAIN pm'[t] = DOMAIN NoMemory
    BY <1>1, <1>2, <2>1 DEF ProjectsTypeOK
  <2>3. After(KnownTypes(t), "readRegistry", Types) \subseteq KnownTypes(t)'
    BY <1>1, <1>2, <2>1 DEF KnownTypes, After, Types, Arg, ProjectsTypeOK
  <2> QED
    BY <2>1, <2>2, <2>3, TypesNext
<1>9. CASE SaveRegistry(t)
  <2>1. /\ Do(t, "saveRegistry", <<>>) /\ At(t, "saveRegistry")
        /\ registry' = [pm[t].apps EXCEPT ![In(t)] = pm[t].port]
        /\ UNCHANGED <<spec, svc, unit, requested, moved, pm>>
    BY <1>9 DEF SaveRegistry, Do
  <2>2. pm[t].apps \in [Projects -> Ports \cup {None}] /\ pm[t].port \in Ports
    BY <2>1, TypesNeeded
  <2>3. ProjectsTypeOK'
    BY <1>1, <2>1, <2>2 DEF ProjectsTypeOK
  <2> QED
    BY <1>2, <2>1, <2>3, TypesSame DEF Giving
<1> QED
  BY <1>4, <1>5, <1>6, <1>7, <1>8, <1>9

\* The steps on the login entry.
LEMMA AutostartTypes ==
    ASSUME Typed, NEW t \in Terminals, km' = km,
           ReadSpec(t) \/ WriteUnit(t) \/ RemoveUnit(t) \/ MarkSpec(t) \/ ClearSpec(t)
    PROVE  ProjectsTypeOK' /\ DOMAIN pm'[t] = DOMAIN NoMemory
           /\ Outline(agenda'[t], KnownTypes(t)', {}, Types)
<1>1. ProjectsTypeOK /\ DOMAIN pm = Terminals
  BY DEF Typed, TypeOK, Shaped
<1>2. DOMAIN pm[t] = {"port", "taken", "spec", "apps"} /\ DOMAIN NoMemory = DOMAIN pm[t]
  BY DEF Typed, Shaped, NoMemory
<1>3. CASE ReadSpec(t)
  <2>1. At(t, "readSpec") /\ UNCHANGED <<spec, svc, unit, registry, requested, moved>>
    BY <1>3 DEF ReadSpec
  <2>2. CASE spec[In(t)] = None
    <3>1. Quit(t, "readSpec") /\ pm' = pm
      BY <1>3, <2>2 DEF ReadSpec
    <3> QED
      BY <1>1, <1>2, <2>1, <3>1, TypesQuit DEF ProjectsTypeOK
  <2>3. CASE spec[In(t)] # None
    <3>1. /\ Do(t, "readSpec", <<>>) /\ cmd' = cmd
          /\ pm' = [pm EXCEPT ![t] = [pm[t] EXCEPT !.spec = spec[In(t)]]]
      BY <1>3, <2>3 DEF ReadSpec, Remember, Do
    <3>2. spec[In(t)] \in Specs
      BY <1>1, <2>1, <2>3, WorksInProject DEF ProjectsTypeOK
    <3>3. ProjectsTypeOK' /\ DOMAIN pm'[t] = DOMAIN NoMemory
      BY <1>1, <1>2, <2>1, <3>1 DEF ProjectsTypeOK
    <3>4. After(KnownTypes(t), "readSpec", Types) \subseteq KnownTypes(t)'
      BY <1>1, <1>2, <3>1, <3>2 DEF KnownTypes, After, Types, Arg
    <3> QED
      BY <3>1, <3>3, <3>4, TypesNext
  <2> QED
    BY <2>2, <2>3
<1>4. CASE WriteUnit(t) \/ RemoveUnit(t)
  <2>1. /\ Do(t, "writeUnit", <<>>) \/ Do(t, "removeUnit", <<>>)
        /\ unit' \in [Projects -> BOOLEAN]
        /\ UNCHANGED <<spec, svc, registry, requested, moved, pm>>
    BY <1>1, <1>4 DEF WriteUnit, RemoveUnit, ProjectsTypeOK
  <2>2. ProjectsTypeOK'
    BY <1>1, <2>1 DEF ProjectsTypeOK
  <2> QED
    BY <1>2, <2>1, <2>2, TypesSame DEF Giving
<1>5. CASE MarkSpec(t) \/ ClearSpec(t)
  <2>1. PICK x \in {"markSpec", "clearSpec"}, b \in BOOLEAN :
            /\ Do(t, x, <<>>) /\ At(t, x)
            /\ spec' = [spec EXCEPT ![In(t)] = [pm[t].spec EXCEPT !.autostart = b]]
    BY <1>5 DEF MarkSpec, ClearSpec, Do
  <2>2. UNCHANGED <<svc, unit, registry, requested, moved, pm>>
    BY <1>5 DEF MarkSpec, ClearSpec
  <2>3. pm[t].spec \in Specs
    BY <2>1, TypesNeeded
  <2>4. [pm[t].spec EXCEPT !.autostart = b] \in Specs
    BY <2>3 DEF Specs
  <2>5. ProjectsTypeOK'
    BY <1>1, <2>1, <2>2, <2>4 DEF ProjectsTypeOK
  <2> QED
    BY <1>2, <2>1, <2>2, <2>5, TypesSame DEF Giving
<1> QED
  BY <1>3, <1>4, <1>5

\* The steps of a snapshot and of a rollback give nothing and need nothing.
SnapshotSteps == {"list", "pack", "store", "readIndex", "saveIndex", "find", "wasRunning",
                  "halt", "unpack", "revive", "report", "edit"}

\* What they add to an agenda.
SnapshotLists == {<<>>, <<"pack">>, <<"unpack">>, <<"stop">>, <<"stop", "start">>}

\* How they change an agenda.
LEMMA SnapshotAgenda ==
    ASSUME NEW t \in Terminals,
           SnapshotsStep(t) \/ (\E running \in BOOLEAN : WasRunning(t, running))
    PROVE  \/ \E x \in SnapshotSteps, m \in SnapshotLists : Do(t, x, m)
           \/ \E x \in SnapshotSteps : Quit(t, x)
           \/ \E m \in SnapshotLists : Fails(t, "unpack", m)
<1>1. CASE List(t) \/ Pack(t) \/ Packed(t) \/ Store(t) \/ ReadIndex(t) \/ SaveIndex(t)
  BY <1>1 DEF List, Pack, Packed, Store, ReadIndex, SaveIndex, SnapshotSteps, SnapshotLists
<1>2. CASE Find(t) \/ (\E running \in BOOLEAN : WasRunning(t, running)) \/ Halt(t) \/ Unpack(t)
           \/ Unpacked(t) \/ Truncate(t)
  BY <1>2 DEF Find, WasRunning, Halt, Truncate, Unpack, Unpacked, SnapshotSteps, SnapshotLists
<1>3. CASE UnpackFails(t) \/ Revive(t) \/ Report(t) \/ EditFile(t)
  BY <1>3 DEF UnpackFails, Revive, Report, EditFile, SnapshotSteps, SnapshotLists
<1> QED
  BY <1>1, <1>2, <1>3 DEF SnapshotsStep

\* The steps of services, and what they add to an agenda.
ServiceSteps == {"start", "open", "configure", "readEntry", "readRegistry", "saveRegistry",
                 "detect", "stop", "readSpec", "writeUnit", "markSpec", "removeUnit", "clearSpec",
                 "running", "reserve", "probe"}

\* How the steps of services change an agenda.
LEMMA ProjectsAgenda ==
    ASSUME NEW t \in Terminals, ProjectsStep(t)
    PROVE  \/ \E x \in ServiceSteps, m \in Seq(ServiceSteps \cup {"ensure"}) : Do(t, x, m)
           \/ \E x \in ServiceSteps : Quit(t, x)
           \/ Fails(t, "start", <<>>)
<1> DEFINE L == Seq(ServiceSteps \cup {"ensure"})
<1>1. /\ Launch \in L /\ Register \in L /\ <<>> \in L
      /\ <<"running">> \in L /\ <<"reserve", "probe">> \in L
  BY DEF Launch, Register, ServiceSteps
<1>2. \A a, b \in L : a \o b \in L
  OBVIOUS
<1> HIDE DEF L
<1>3. Launch \o Register \in L /\ (<<"reserve", "probe">> \o Launch) \o Register \in L
  BY <1>1, <1>2
<1>4. CASE DetectGiven(t) \/ DetectExisting(t) \/ DetectNew(t) \/ Running(t) \/ Reserve(t)
           \/ Probe(t) \/ Open(t)
  <2>1. (\E x \in ServiceSteps, m \in L : Do(t, x, m)) \/ (\E x \in ServiceSteps : Quit(t, x))
    BY <1>1, <1>3, <1>4
       DEF DetectGiven, DetectExisting, DetectNew, Running, Reserve, Probe, Open, ServiceSteps
  <2> QED
    BY <2>1 DEF L
<1>5. CASE Configure(t) \/ Start(t) \/ StopService(t)
           \/ ReadEntry(t) \/ ReadRegistry(t) \/ SaveRegistry(t)
  <2>1. (\E x \in ServiceSteps, m \in L : Do(t, x, m)) \/ (\E x \in ServiceSteps : Quit(t, x))
    BY <1>1, <1>5
       DEF Configure, Start, StopService, ReadEntry, ReadRegistry, SaveRegistry, ServiceSteps
  <2> QED
    BY <2>1 DEF L
<1>6. CASE ReadSpec(t) \/ WriteUnit(t) \/ RemoveUnit(t) \/ MarkSpec(t) \/ ClearSpec(t)
  <2>1. (\E x \in ServiceSteps, m \in L : Do(t, x, m)) \/ (\E x \in ServiceSteps : Quit(t, x))
    BY <1>1, <1>6 DEF ReadSpec, WriteUnit, RemoveUnit, MarkSpec, ClearSpec, ServiceSteps
  <2> QED
    BY <2>1 DEF L
<1>7. CASE StartTimesOut(t)
  BY <1>7 DEF StartTimesOut
<1> QED
  BY <1>4, <1>5, <1>6, <1>7 DEF ProjectsStep

\* The steps of keys and of the publish history, and what they add.
KeySteps == {"ensure", "create", "countRun", "share", "countEnd", "root", "makeRoot", "confirmRoot",
             "unlock", "wrap", "readSecrets", "writeSecret", "dropSecret", "readSecret", "decrypt",
             "checkRecovery", "writeRecovery", "printRecovery", "openRecovery"}

\* How the steps of keys change an agenda.
LEMMA KeysAgenda ==
    ASSUME NEW t \in Terminals, KeysStep(t)
    PROVE  \/ \E x \in KeySteps, m \in Seq(KeySteps) : Do(t, x, m)
           \/ \E x \in KeySteps : Quit(t, x)
           \/ Fails(t, "countRun", <<"share">>)
<1> DEFINE L == Seq(KeySteps)
<1>1. /\ <<>> \in L /\ <<"create">> \in L /\ <<"makeRoot", "confirmRoot">> \in L
      /\ <<"ensure", "root", "wrap">> \in L
  BY DEF KeySteps
<1> HIDE DEF L
<1>2. CASE ManifestStep(t)
  <2>1. (\E x \in KeySteps, m \in L : Do(t, x, m)) \/ Fails(t, "countRun", <<"share">>)
    BY <1>1, <1>2 DEF ManifestStep, EnsureFinds, EnsureMisses, Create, CountRun, CountFails,
                      Share, CountEnd, KeySteps
  <2> QED
    BY <2>1 DEF L
<1>3. CASE KeyStep(t)
  <2>1. (\E x \in KeySteps, m \in L : Do(t, x, m)) \/ (\E x \in KeySteps : Quit(t, x))
    BY <1>1, <1>3 DEF KeyStep, RootFound, RootMissing, MakeRoot, ConfirmRoot, Unlock,
                      UnlockMisses, Wrap, KeySteps
  <2> QED
    BY <2>1 DEF L
<1>4. CASE SecretStep(t) \/ RecoveryStep(t)
  <2>1. (\E x \in KeySteps, m \in L : Do(t, x, m)) \/ (\E x \in KeySteps : Quit(t, x))
    BY <1>1, <1>4 DEF SecretStep, ReadSecrets, WriteSecret, DropSecret, ReadSecret, Decrypt,
                      RecoveryStep, CheckRecovery, WriteRecovery, PrintRecovery, OpenRecovery,
                      KeySteps
  <2> QED
    BY <2>1 DEF L
<1> QED
  BY <1>2, <1>3, <1>4 DEF KeysStep

\* What the steps of snapshots add to an agenda needs nothing and loses nothing ...
LEMMA SnapshotListsSteady ==
    ASSUME NEW m \in SnapshotLists, NEW F \in SUBSET DOMAIN Types
    PROVE  Outline(m, F, F, Types)
<1>1. \A x \in {"pack", "unpack", "stop", "start"} :
        x \in Steps /\ Ready(F, x, Types) /\ F \subseteq After(F, x, Types)
  BY DEF Ready, After, Types, Steps
<1>2. Outline(<<>>, F, F, Types)
  BY Empty
<1>3. Outline(<<"pack">>, F, F, Types) /\ Outline(<<"unpack">>, F, F, Types)
      /\ Outline(<<"stop">>, F, F, Types)
  BY <1>1, One
<1>4. Outline(<<"stop", "start">>, F, F, Types)
  BY <1>1, Two
<1> QED
  BY <1>2, <1>3, <1>4 DEF SnapshotLists

\* ... so that they keep every outline.
LEMMA SnapshotOutlines ==
    ASSUME Typed, NEW t \in Terminals, km' = km, pm' = pm,
           SnapshotsStep(t) \/ (\E running \in BOOLEAN : WasRunning(t, running))
    PROVE  Outline(agenda'[t], KnownTypes(t)', {}, Types)
<1>1. CASE \E x \in SnapshotSteps, m \in SnapshotLists : Do(t, x, m)
  <2>1. PICK x \in SnapshotSteps, m \in SnapshotLists : Do(t, x, m)
    BY <1>1
  <2>2. KnownTypes(t)' = KnownTypes(t) /\ KnownTypes(t) \in SUBSET DOMAIN Types
    BY <2>1 DEF Do, KnownTypes, Arg
  <2>3. After(KnownTypes(t), x, Types) \subseteq KnownTypes(t)
    BY DEF After, Types, SnapshotSteps
  <2>4. Outline(m, KnownTypes(t)', After(KnownTypes(t), x, Types), Types)
    BY <2>2, <2>3, SnapshotListsSteady, Wider
  <2> QED
    BY <2>1, <2>4, TypesDone
<1>2. CASE \E x \in SnapshotSteps : Quit(t, x)
  BY <1>2, TypesQuit
<1>3. CASE \E m \in SnapshotLists : Fails(t, "unpack", m)
  <2>1. PICK m \in SnapshotLists : agenda'[t] = m
    BY <1>3 DEF Fails, Typed, Shaped
  <2>2. KnownTypes(t)' \in SUBSET DOMAIN Types
    BY DEF KnownTypes
  <2> QED
    BY <2>1, <2>2, SnapshotListsSteady, Wider
<1> QED
  BY <1>1, <1>2, <1>3, SnapshotAgenda

\* A command keeps what has the shape of its work.
LEMMA KeepShaped ==
    ASSUME SnapshotsShaped, NEW t \in Terminals, NEW w, WorkShaped(w), Keep(t, w),
           src' = src, archives' = archives
    PROVE  SnapshotsShaped'
BY DEF SnapshotsShaped, Keep

\* The steps of a snapshot and of a rollback.
LEMMA SnapshotsShapes ==
    ASSUME SnapshotsShaped, NEW t \in Terminals, In(t) \in Projects,
           SnapshotsStep(t) \/ (\E running \in BOOLEAN : WasRunning(t, running))
    PROVE  SnapshotsShaped'
<1>1. WorkShaped(sm[t]) /\ DOMAIN sm[t] = {"todo", "zip", "pick", "index", "was"}
  BY DEF SnapshotsShaped, WorkShaped, NoWork
<1>2. Files \subseteq Nat /\ \A p \in Projects : Present(p) \subseteq Files
  BY FilesAreNatural DEF Files, Present
<1>3. sm[t].todo # {} => Least(sm[t].todo) \in Files
  BY <1>1, <1>2, LeastIsIn DEF WorkShaped
<1>4. UNCHANGED <<src, archives, sm>> => SnapshotsShaped'
  BY DEF SnapshotsShaped
<1>5. CASE List(t)
  <2>1. WorkShaped([sm[t] EXCEPT !.todo = Present(In(t)), !.zip = NoFiles])
    BY <1>1, <1>2 DEF WorkShaped, NoFiles
  <2> QED
    BY <1>5, <2>1, KeepShaped DEF List, Work, snapshotFiles
<1>6. CASE Pack(t)
  <2> DEFINE f == Least(sm[t].todo)
             v == src[In(t)][f]
  <2>1. f \in Files /\ UNCHANGED snapshotFiles
    BY <1>3, <1>6 DEF Pack, Work
  <2>2. sm' = sm \/ Keep(t, [sm[t] EXCEPT !.todo = @ \ {f}, !.zip = With(@, f, v)])
    BY <1>6 DEF Pack, Work
  <2> HIDE DEF f
  <2>3. WorkShaped([sm[t] EXCEPT !.todo = @ \ {f}, !.zip = With(@, f, v)])
    BY <1>1, <2>1 DEF WorkShaped, With
  <2> QED
    BY <1>4, <2>1, <2>2, <2>3, KeepShaped DEF snapshotFiles
<1>7. CASE Store(t)
  <2> DEFINE a == [id |-> Fresh(t), files |-> sm[t].zip]
  <2>1. archives' = [archives EXCEPT ![In(t)] = @ \cup {a}] /\ src' = src /\ sm' = sm
    BY <1>7 DEF Store, Work
  <2>2. DOMAIN a = {"id", "files"} /\ DOMAIN a.files \subseteq Files
    BY <1>1 DEF WorkShaped
  <2> HIDE DEF a
  <2> QED
    BY <2>1, <2>2 DEF SnapshotsShaped
<1>8. CASE ReadIndex(t)
  <2>1. WorkShaped([sm[t] EXCEPT !.index = listed[In(t)]])
    BY <1>1 DEF WorkShaped
  <2> QED
    BY <1>8, <2>1, KeepShaped DEF ReadIndex, Work, snapshotFiles
<1>9. CASE Find(t)
  <2>1. UNCHANGED snapshotFiles
        /\ (sm' = sm \/ \E a \in archives[In(t)] : Keep(t, [sm[t] EXCEPT !.pick = a.files]))
    BY <1>9 DEF Find, Work
  <2>2. \A a \in archives[In(t)] : WorkShaped([sm[t] EXCEPT !.pick = a.files])
    BY <1>1 DEF WorkShaped, SnapshotsShaped
  <2> QED
    BY <1>4, <2>1, <2>2, KeepShaped DEF snapshotFiles
<1>10. CASE \E running \in BOOLEAN : WasRunning(t, running)
  <2>1. PICK running \in BOOLEAN : WasRunning(t, running)
    BY <1>10
  <2>2. WorkShaped([sm[t] EXCEPT !.was = running, !.todo = DOMAIN sm[t].pick])
    BY <1>1 DEF WorkShaped
  <2> QED
    BY <2>1, <2>2, KeepShaped DEF WasRunning, Work
<1>11. CASE Unpack(t)
  <2> DEFINE f == Least(sm[t].todo)
  <2>1. /\ src' = [src EXCEPT ![In(t)][f] = sm[t].pick[f]] /\ archives' = archives
        /\ sm' = [sm EXCEPT ![t] = [sm[t] EXCEPT !.todo = @ \ {f}]]
    BY <1>11 DEF Unpack, Work, Keep
  <2> HIDE DEF f
  <2>2. WorkShaped([sm[t] EXCEPT !.todo = @ \ {f}])
    BY <1>1 DEF WorkShaped
  <2>3. DOMAIN src' = Projects /\ \A p \in Projects : DOMAIN src'[p] = Files
    BY <2>1 DEF SnapshotsShaped
  <2> QED
    BY <2>1, <2>2, <2>3 DEF SnapshotsShaped
<1>12. CASE EditFile(t)
  <2>1. PICK f \in Files, text \in {Fresh(t), None} : src' = [src EXCEPT ![In(t)][f] = text]
    BY <1>12 DEF EditFile
  <2>2. DOMAIN src' = Projects /\ \A p \in Projects : DOMAIN src'[p] = Files
    BY <2>1 DEF SnapshotsShaped
  <2>3. archives' = archives /\ sm' = sm
    BY <1>12 DEF EditFile
  <2> QED
    BY <2>2, <2>3 DEF SnapshotsShaped
<1>13. CASE Packed(t) \/ SaveIndex(t) \/ Halt(t) \/ Unpacked(t) \/ UnpackFails(t) \/ Revive(t)
            \/ Report(t)
  BY <1>4, <1>13
     DEF Packed, SaveIndex, Halt, Unpacked, UnpackFails, Revive, Report, snapshotVars
<1>14. CASE Truncate(t)
  <2>1. archives' = archives /\ sm' = sm
        /\ src' = [src EXCEPT ![In(t)][Least(sm[t].todo)] = Torn]
    BY <1>14 DEF Truncate, Work
  <2>2. DOMAIN src' = Projects /\ \A p \in Projects : DOMAIN src'[p] = Files
    BY <2>1 DEF SnapshotsShaped
  <2> QED
    BY <2>1, <2>2 DEF SnapshotsShaped
<1> QED
  BY <1>5, <1>6, <1>7, <1>8, <1>9, <1>10, <1>11, <1>12, <1>13, <1>14
  DEF SnapshotsStep

\* A step is done, or ends the command, or fails.
Acts(t) == \E x, m : Do(t, x, m) \/ Quit(t, x) \/ Fails(t, x, m)

\* Every step does.
LEMMA StepGoes ==
    ASSUME NEW t \in Terminals, Step(t)
    PROVE  Acts(t)
<1>1. CASE ManifestStep(t)
  BY <1>1 DEF ManifestStep, EnsureFinds, EnsureMisses, Create, CountRun, CountFails, Share,
              CountEnd, Acts
<1>2. CASE KeyStep(t)
  BY <1>2 DEF KeyStep, RootFound, RootMissing, MakeRoot, ConfirmRoot, Unlock, UnlockMisses, Wrap,
              Acts
<1>3. CASE SecretStep(t)
  BY <1>3 DEF SecretStep, ReadSecrets, WriteSecret, DropSecret, ReadSecret, Decrypt, Acts
<1>4. CASE RecoveryStep(t) \/ MoveAway(t)
  BY <1>4 DEF RecoveryStep, CheckRecovery, WriteRecovery, PrintRecovery, OpenRecovery, MoveAway,
              Acts
<1>5. CASE ProjectsStep(t)
  <2>1. CASE DetectGiven(t) \/ DetectExisting(t) \/ DetectNew(t) \/ Running(t) \/ Reserve(t)
             \/ Probe(t) \/ Open(t)
    BY <2>1 DEF DetectGiven, DetectExisting, DetectNew, Running, Reserve, Probe, Open, Acts
  <2>2. CASE Configure(t) \/ Start(t) \/ StartTimesOut(t) \/ StopService(t)
             \/ ReadEntry(t) \/ ReadRegistry(t) \/ SaveRegistry(t)
    BY <2>2 DEF Configure, Start, StartTimesOut, StopService, ReadEntry, ReadRegistry,
                SaveRegistry, Acts
  <2>3. CASE ReadSpec(t) \/ WriteUnit(t) \/ RemoveUnit(t) \/ MarkSpec(t) \/ ClearSpec(t)
    BY <2>3 DEF ReadSpec, WriteUnit, RemoveUnit, MarkSpec, ClearSpec, Acts
  <2> QED
    BY <1>5, <2>1, <2>2, <2>3 DEF ProjectsStep
<1>6. CASE SnapshotsStep(t) \/ WasRunning(t, svc[In(t)] # None)
  <2>1. (svc[In(t)] # None) \in BOOLEAN
    OBVIOUS
  <2> QED
    BY <1>6, <2>1, SnapshotAgenda DEF Acts
<1> QED
  BY <1>1, <1>2, <1>3, <1>4, <1>5, <1>6 DEF Step, KeysStep

\* What any step does to the terminals.
LEMMA TerminalsGo ==
    ASSUME Typed, NEW t \in Terminals, Acts(t)
    PROVE  /\ TerminalsTypeOK' /\ cmd' = cmd /\ script' = script /\ count' = count
           /\ DOMAIN agenda' = Terminals /\ In(t) \in Projects
           /\ \A u \in Terminals : Busy(u)' => cmd'[u] \in Commands
           /\ \A u \in Terminals : u # t => agenda'[u] = agenda[u]
<1>1. PICK x, m : Do(t, x, m) \/ Quit(t, x) \/ Fails(t, x, m)
  BY DEF Acts
<1>2. /\ Busy(t) /\ UNCHANGED <<script, cmd, count, overlapped>> /\ faults' \in 0..MaxFaults
      /\ \E r : agenda' = [agenda EXCEPT ![t] = r]
  BY <1>1, FaultsAreNatural DEF Do, Quit, Fails, At, Typed, TypeOK, TerminalsTypeOK
<1>3. /\ DOMAIN agenda' = Terminals /\ \A u \in Terminals : u # t => agenda'[u] = agenda[u]
  BY <1>2 DEF Typed, Shaped
<1>4. \A u \in Terminals : Busy(u)' => Busy(u)
  BY <1>2, <1>3 DEF Busy
<1>5. In(t) \in Projects /\ TerminalsTypeOK'
  BY <1>2, <1>4 DEF Typed, TypeOK, TerminalsTypeOK, In
<1> QED
  BY <1>2, <1>3, <1>4, <1>5 DEF Typed, Shaped

\* The outlines of the other commands stay.
LEMMA OthersPlanned ==
    ASSUME Typed, NEW t \in Terminals,
           \A u \in Terminals : u # t =>
                agenda'[u] = agenda[u] /\ cmd'[u] = cmd[u] /\ km'[u] = km[u] /\ pm'[u] = pm[u],
           Outline(agenda'[t], KnownTypes(t)', {}, Types)
    PROVE  Planned'
<1>1. ASSUME NEW u \in Terminals, u # t
      PROVE  Outline(agenda'[u], KnownTypes(u)', {}, Types)
  <2>1. KnownTypes(u)' = KnownTypes(u)
    BY <1>1 DEF KnownTypes, Arg
  <2> QED
    BY <1>1, <2>1 DEF Typed, Planned
<1> QED
  BY <1>1 DEF Planned

\* A step changes the memory of its own command only.
LEMMA KeysMemory ==
    ASSUME DOMAIN km = Terminals, NEW t \in Terminals, KeysStep(t)
    PROVE  DOMAIN km' = Terminals /\ \A u \in Terminals : u # t => km'[u] = km[u]
<1>1. CASE ManifestStep(t)
  BY <1>1 DEF ManifestStep, EnsureFinds, EnsureMisses, Create, CountRun, CountFails, Share,
              CountEnd, Seen, keyVars
<1>2. CASE KeyStep(t)
  BY <1>2 DEF KeyStep, RootFound, RootMissing, MakeRoot, ConfirmRoot, Unlock, UnlockMisses, Wrap,
              keyVars
<1>3. CASE SecretStep(t)
  BY <1>3 DEF SecretStep, ReadSecrets, WriteSecret, DropSecret, ReadSecret, Decrypt, keyVars
<1>4. CASE RecoveryStep(t)
  BY <1>4 DEF RecoveryStep, CheckRecovery, WriteRecovery, PrintRecovery, OpenRecovery, keyVars
<1> QED
  BY <1>1, <1>2, <1>3, <1>4 DEF KeysStep

\* The same of the steps of services.
LEMMA ProjectsMemory ==
    ASSUME DOMAIN pm = Terminals, NEW t \in Terminals, ProjectsStep(t)
    PROVE  DOMAIN pm' = Terminals /\ \A u \in Terminals : u # t => pm'[u] = pm[u]
<1>1. pm' = pm \/ \E f, v : Remember(t, f, v)
  <2>1. CASE DetectGiven(t) \/ DetectExisting(t) \/ DetectNew(t) \/ Running(t) \/ Reserve(t)
             \/ Probe(t) \/ Open(t)
    BY <2>1 DEF DetectGiven, DetectExisting, DetectNew, Running, Reserve, Probe, Open, projectVars
  <2>2. CASE Configure(t) \/ Start(t) \/ StartTimesOut(t) \/ StopService(t)
             \/ ReadEntry(t) \/ ReadRegistry(t) \/ SaveRegistry(t)
    BY <2>2 DEF Configure, Start, StartTimesOut, StopService, ReadEntry, ReadRegistry,
                SaveRegistry
  <2>3. CASE ReadSpec(t) \/ WriteUnit(t) \/ RemoveUnit(t) \/ MarkSpec(t) \/ ClearSpec(t)
    BY <2>3 DEF ReadSpec, WriteUnit, RemoveUnit, MarkSpec, ClearSpec
  <2> QED
    BY <2>1, <2>2, <2>3 DEF ProjectsStep
<1> QED
  BY <1>1 DEF Remember

\* Every step keeps the invariant.
LEMMA StepTypes ==
    ASSUME Typed, NEW t \in Terminals, Step(t)
    PROVE  Typed'
<1>1. /\ TerminalsTypeOK' /\ cmd' = cmd /\ script' = script /\ count' = count
      /\ DOMAIN agenda' = Terminals /\ In(t) \in Projects
      /\ \A u \in Terminals : Busy(u)' => cmd'[u] \in Commands
      /\ \A u \in Terminals : u # t => agenda'[u] = agenda[u]
  BY StepGoes, TerminalsGo
<1>2. UNCHANGED keyVars => KeysTypeOK' /\ km' = km
  BY DEF keyVars, Typed, TypeOK, KeysTypeOK
<1>3. UNCHANGED projectVars => ProjectsTypeOK' /\ pm' = pm
  BY DEF projectVars, Typed, TypeOK, ProjectsTypeOK
<1>4. UNCHANGED snapshotVars => SnapshotsShaped'
  BY DEF snapshotVars, Typed, Shaped, SnapshotsShaped
<1>5. SnapshotsShaped' => SnapshotsTypeOK'
  BY DEF SnapshotsShaped, SnapshotsTypeOK, WorkShaped, Work
<1>6. ASSUME KeysTypeOK', ProjectsTypeOK', SnapshotsShaped',
             Outline(agenda'[t], KnownTypes(t)', {}, Types),
             DOMAIN km' = Terminals, DOMAIN pm' = Terminals, DOMAIN pm'[t] = DOMAIN NoMemory,
             \A u \in Terminals : u # t => km'[u] = km[u] /\ pm'[u] = pm[u]
      PROVE  Typed'
  <2>1. Planned'
    BY <1>1, <1>6, OthersPlanned
  <2>2. Shaped'
    BY <1>1, <1>6 DEF Typed, Shaped
  <2> QED
    BY <1>1, <1>5, <1>6, <2>1, <2>2 DEF Typed, TypeOK
<1>7. DOMAIN km = Terminals /\ DOMAIN pm = Terminals /\ DOMAIN pm[t] = DOMAIN NoMemory
      /\ SnapshotsShaped
  BY DEF Typed, Shaped
<1>8. CASE KeysStep(t) /\ UNCHANGED <<projectVars, snapshotVars>>
  <2>1. KeysTypeOK' /\ Outline(agenda'[t], KnownTypes(t)', {}, Types)
    BY <1>3, <1>8, ManifestTypes, KeyTypes, SecretTypes, RecoveryTypes DEF KeysStep
  <2>2. DOMAIN km' = Terminals /\ \A u \in Terminals : u # t => km'[u] = km[u]
    BY <1>7, <1>8, KeysMemory
  <2> QED
    BY <1>3, <1>4, <1>6, <1>7, <1>8, <2>1, <2>2
<1>9. CASE ProjectsStep(t) /\ UNCHANGED <<keyVars, snapshotVars>>
  <2>1. ProjectsTypeOK' /\ DOMAIN pm'[t] = DOMAIN NoMemory
        /\ Outline(agenda'[t], KnownTypes(t)', {}, Types)
    BY <1>2, <1>9, DeployTypes, ServiceTypes, AutostartTypes DEF ProjectsStep
  <2>2. DOMAIN pm' = Terminals /\ \A u \in Terminals : u # t => pm'[u] = pm[u]
    BY <1>7, <1>9, ProjectsMemory
  <2> QED
    BY <1>2, <1>4, <1>6, <1>7, <1>9, <2>1, <2>2
<1>10. CASE \/ SnapshotsStep(t) /\ UNCHANGED <<keyVars, projectVars>>
            \/ WasRunning(t, svc[In(t)] # None) /\ UNCHANGED <<keyVars, projectVars>>
  <2>1. SnapshotsStep(t) \/ (\E running \in BOOLEAN : WasRunning(t, running))
    BY <1>10
  <2>2. KeysTypeOK' /\ km' = km /\ ProjectsTypeOK' /\ pm' = pm
    BY <1>2, <1>3, <1>10
  <2>3. SnapshotsShaped' /\ Outline(agenda'[t], KnownTypes(t)', {}, Types)
    BY <1>1, <1>7, <2>1, <2>2, SnapshotsShapes, SnapshotOutlines
  <2> QED
    BY <1>6, <1>7, <2>2, <2>3
<1>11. CASE MoveAway(t) /\ ProjectsMove /\ UNCHANGED snapshotVars
  <2>1. ProjectsTypeOK' /\ pm' = pm
    BY <1>11 DEF ProjectsMove, Typed, TypeOK, ProjectsTypeOK
  <2>2. KeysTypeOK' /\ Outline(agenda'[t], KnownTypes(t)', {}, Types)
    BY <1>11, <2>1, RecoveryTypes
  <2>3. km' = km
    BY <1>11 DEF MoveAway
  <2> QED
    BY <1>4, <1>6, <1>7, <1>11, <2>1, <2>2, <2>3
<1> QED
  BY <1>8, <1>9, <1>10, <1>11 DEF Step

\* Steps that need nothing.
Modest == {"ensure", "root", "unlock", "readSecret", "decrypt", "move", "stop", "start"}
            \cup SnapshotSteps

\* They have an outline from anything.
LEMMA ModestPlanned ==
    ASSUME NEW s \in Seq(Modest), NEW F
    PROVE  Outline(s, F, {}, Types)
<1>1. ASSUME NEW x \in Modest, NEW f \in DOMAIN Types
      PROVE  x \notin Types[f].need
  <2>1. Types[f].need \subseteq
            {"detect", "countRun", "countEnd", "wrap", "writeSecret", "writeRecovery", "makeRoot",
             "dropSecret", "printRecovery", "running", "configure", "saveRegistry", "markSpec",
             "clearSpec"}
    BY DEF Types
  <2> QED
    BY <2>1 DEF Modest, SnapshotSteps
<1>2. Modest \subseteq Steps
  BY DEF Modest, SnapshotSteps, Steps
<1>3. s \in Seq(Steps) /\ \A i \in 1..Len(s) : s[i] \in Modest
  BY <1>2
<1> QED
  BY <1>1, <1>3, Needless

\* The steps of every command find what they need, if what is deployed is a port or 0.
LEMMA ProgramsPlanned ==
    ASSUME NEW op \in DOMAIN Program, NEW F \in SUBSET DOMAIN Types, op = "deploy" => "arg" \in F
    PROVE  Outline(Program[op], F, {}, Types)
<1>1. {} \in SUBSET DOMAIN Types /\ {} \subseteq F
  OBVIOUS
<1>2. UseKey \in Seq(Steps) /\ Outline(UseKey, {}, {"key"}, Types)
      /\ Outline(UseKey, {"seen"}, {"seen", "key"}, Types)
  <2>1. /\ {"seen"} \in SUBSET DOMAIN Types /\ {"key"} \in SUBSET DOMAIN Types
        /\ {"seen", "key"} \in SUBSET DOMAIN Types
        /\ "ensure" \in Steps /\ "root" \in Steps /\ "unlock" \in Steps
    BY DEF Types, Steps
  <2>2. /\ Ready({}, "ensure", Types) /\ {} \subseteq After({}, "ensure", Types)
        /\ Ready({}, "root", Types) /\ {} \subseteq After({}, "root", Types)
        /\ Ready({}, "unlock", Types) /\ {"key"} \subseteq After({}, "unlock", Types)
        /\ Ready({"seen"}, "ensure", Types) /\ {"seen"} \subseteq After({"seen"}, "ensure", Types)
        /\ Ready({"seen"}, "root", Types) /\ {"seen"} \subseteq After({"seen"}, "root", Types)
        /\ Ready({"seen"}, "unlock", Types)
        /\ {"seen", "key"} \subseteq After({"seen"}, "unlock", Types)
    BY DEF Ready, After, Types
  <2>3. Outline(<<"ensure", "root", "unlock">>, {}, {"key"}, Types)
    BY <1>1, <2>1, <2>2, Three
  <2>4. Outline(<<"ensure", "root", "unlock">>, {"seen"}, {"seen", "key"}, Types)
    BY <2>1, <2>2, Three
  <2> QED
    BY <2>3, <2>4 DEF UseKey, Steps
<1>3. /\ Outline(<<"ensure">>, {}, {"seen"}, Types)
      /\ Outline(<<"ensure", "checkRecovery">>, {}, {"seen"}, Types)
  <2>1. /\ {"seen"} \in SUBSET DOMAIN Types /\ "ensure" \in Steps /\ "checkRecovery" \in Steps
        /\ Ready({}, "ensure", Types) /\ {"seen"} \subseteq After({}, "ensure", Types)
        /\ Ready({"seen"}, "checkRecovery", Types)
        /\ {"seen"} \subseteq After({"seen"}, "checkRecovery", Types)
    BY DEF Types, Steps, Ready, After
  <2> QED
    BY <1>1, <2>1, One, Two
<1>4. /\ Outline(<<"ensure">>, F, {}, Types) /\ Outline(UseKey, F, {}, Types)
      /\ Outline(Move, F, {}, Types) /\ Outline(Stop, F, {}, Types)
      /\ Outline(Restart, F, {}, Types) /\ Outline(TakeSnapshot, F, {}, Types)
      /\ Outline(Edit, F, {}, Types)
  <2>1. /\ <<"ensure">> \in Seq(Modest) /\ UseKey \in Seq(Modest) /\ Move \in Seq(Modest)
        /\ Stop \in Seq(Modest) /\ Restart \in Seq(Modest) /\ Edit \in Seq(Modest)
    BY DEF Modest, UseKey, Move, Stop, Restart, Edit, SnapshotSteps
  <2>2. TakeSnapshot \in Seq(Modest)
    BY DEF Modest, TakeSnapshot, SnapshotSteps
  <2> QED
    BY <2>1, <2>2, ModestPlanned
<1>5. Outline(GetSecret, F, {}, Types)
  <2>1. Outline(<<"ensure", "readSecret">>, F, {}, Types) /\ Outline(<<"decrypt">>, {}, {}, Types)
        /\ Outline(UseKey, {}, {}, Types)
    <3>1. /\ <<"ensure", "readSecret">> \in Seq(Modest) /\ <<"decrypt">> \in Seq(Modest)
          /\ UseKey \in Seq(Modest)
      BY DEF Modest, UseKey
    <3> QED
      BY <3>1, ModestPlanned
  <2>2. Outline(<<"ensure", "readSecret">> \o UseKey, F, {}, Types)
    BY <2>1, Join
  <2>3. Outline((<<"ensure", "readSecret">> \o UseKey) \o <<"decrypt">>, F, {}, Types)
    BY <2>1, <2>2, Join
  <2> QED
    BY <2>3 DEF GetSecret
<1>6. Outline(Rollback, F, {}, Types)
  <2>1. Outline(<<"ensure", "find">>, F, {}, Types) /\ Outline(TakeSnapshot, {}, {}, Types)
        /\ Outline(<<"wasRunning", "halt", "unpack", "revive", "report">>, {}, {}, Types)
    <3>1. <<"ensure", "find">> \in Seq(Modest) /\ TakeSnapshot \in Seq(Modest)
      BY DEF Modest, TakeSnapshot, SnapshotSteps
    <3>2. <<"wasRunning", "halt", "unpack", "revive", "report">> \in Seq(Modest)
      BY DEF Modest, SnapshotSteps
    <3> QED
      BY <3>1, <3>2, ModestPlanned
  <2>2. Outline(<<"ensure", "find">> \o TakeSnapshot, F, {}, Types)
    BY <2>1, Join
  <2>3. Outline((<<"ensure", "find">> \o TakeSnapshot)
                    \o <<"wasRunning", "halt", "unpack", "revive", "report">>, F, {}, Types)
    BY <2>1, <2>2, Join
  <2> QED
    BY <2>3 DEF Rollback
<1>7. Outline(Publish, F, {}, Types)
  <2> DEFINE S == {"seen"}
  <2>1. /\ S \in SUBSET DOMAIN Types /\ "ensure" \in Steps /\ "countRun" \in Steps
        /\ "share" \in Steps /\ "countEnd" \in Steps
    BY DEF Types, Steps
  <2>2. /\ Ready({}, "ensure", Types) /\ S \subseteq After({}, "ensure", Types)
        /\ Ready(S, "ensure", Types) /\ S \subseteq After(S, "ensure", Types)
        /\ Ready(S, "countRun", Types) /\ S \subseteq After(S, "countRun", Types)
        /\ Ready(S, "share", Types) /\ S \subseteq After(S, "share", Types)
        /\ Ready(S, "countEnd", Types) /\ {} \subseteq After(S, "countEnd", Types)
    BY DEF Ready, After, Types
  <2> HIDE DEF S
  <2>3. Outline(<<"ensure", "ensure", "countRun">>, {}, S, Types)
    BY <1>1, <2>1, <2>2, Three
  <2>4. Outline(<<"share", "ensure", "countEnd">>, S, {}, Types)
    BY <1>1, <2>1, <2>2, Three
  <2>5. Outline(Publish, {}, {}, Types)
    BY <2>1, <2>3, <2>4, Six DEF Publish
  <2> QED
    BY <1>1, <2>5, Wider
<1>8. Outline(SetSecret, F, {}, Types)
  <2> DEFINE S == {"seen", "key"}
             H == {"seen", "key", "held"}
  <2>1. /\ S \in SUBSET DOMAIN Types /\ H \in SUBSET DOMAIN Types
        /\ "readSecrets" \in Steps /\ "writeSecret" \in Steps
        /\ Ready(S, "readSecrets", Types) /\ H \subseteq After(S, "readSecrets", Types)
        /\ Ready(H, "writeSecret", Types) /\ {} \subseteq After(H, "writeSecret", Types)
    BY DEF Types, Steps, Ready, After
  <2> HIDE DEF H
  <2>2. Outline(<<"readSecrets", "writeSecret">>, S, {}, Types)
    BY <1>1, <2>1, Two
  <2>3. Outline(<<"ensure">> \o UseKey, {}, S, Types)
    BY <1>2, <1>3, Join
  <2>4. Outline((<<"ensure">> \o UseKey) \o <<"readSecrets", "writeSecret">>, {}, {}, Types)
    BY <2>2, <2>3, Join
  <2> QED
    BY <1>1, <2>4, Wider DEF SetSecret
<1>9. Outline(DeleteSecret, F, {}, Types)
  <2> DEFINE H == {"held"}
  <2>1. /\ H \in SUBSET DOMAIN Types /\ "readSecrets" \in Steps /\ "dropSecret" \in Steps
        /\ Ready({}, "readSecrets", Types) /\ H \subseteq After({}, "readSecrets", Types)
        /\ Ready(H, "dropSecret", Types) /\ {} \subseteq After(H, "dropSecret", Types)
    BY DEF Types, Steps, Ready, After
  <2> HIDE DEF H
  <2>2. Outline(DeleteSecret, {}, {}, Types)
    BY <1>1, <2>1, Two DEF DeleteSecret
  <2> QED
    BY <1>1, <2>2, Wider
<1>10. Outline(CreateRecovery, F, {}, Types)
  <2> DEFINE S == {"seen", "key"}
             L == {"lock"}
  <2>1. /\ S \in SUBSET DOMAIN Types /\ L \in SUBSET DOMAIN Types
        /\ "writeRecovery" \in Steps /\ "printRecovery" \in Steps
        /\ Ready(S, "writeRecovery", Types) /\ L \subseteq After(S, "writeRecovery", Types)
        /\ Ready(L, "printRecovery", Types) /\ {} \subseteq After(L, "printRecovery", Types)
    BY DEF Types, Steps, Ready, After
  <2> HIDE DEF L
  <2>2. Outline(<<"writeRecovery", "printRecovery">>, S, {}, Types)
    BY <1>1, <2>1, Two
  <2>3. Outline(<<"ensure", "checkRecovery">> \o UseKey, {}, S, Types)
    BY <1>2, <1>3, Join
  <2>4. Outline((<<"ensure", "checkRecovery">> \o UseKey) \o <<"writeRecovery", "printRecovery">>,
                {}, {}, Types)
    BY <2>2, <2>3, Join
  <2> QED
    BY <1>1, <2>4, Wider DEF CreateRecovery
<1>11. Outline(UseRecovery, F, {}, Types)
  <2> DEFINE K == {"key"}
  <2>1. /\ K \in SUBSET DOMAIN Types /\ "ensure" \in Steps /\ "openRecovery" \in Steps
        /\ "root" \in Steps /\ "wrap" \in Steps
        /\ Ready({}, "ensure", Types) /\ {} \subseteq After({}, "ensure", Types)
        /\ Ready({}, "openRecovery", Types) /\ K \subseteq After({}, "openRecovery", Types)
        /\ "key" \in K
    BY DEF Types, Steps, Ready, After
  <2> HIDE DEF K
  <2>2. Outline(<<"ensure", "openRecovery">>, {}, K, Types)
    BY <1>1, <2>1, Two
  <2>3. Outline(<<"ensure", "root", "wrap">>, K, {}, Types)
    BY <2>1, RewrapTypes
  <2>4. Outline(UseRecovery, {}, {}, Types)
    BY <2>1, <2>2, <2>3, Five DEF UseRecovery
  <2> QED
    BY <1>1, <2>4, Wider
<1>12. op = "deploy" => Outline(Deploy, F, {}, Types)
  <2>1. "arg" \in F => Ready(F, "detect", Types)
    BY DEF Ready, Types
  <2>2. "detect" \in Steps
    BY DEF Steps
  <2> QED
    BY <1>1, <2>1, <2>2, One DEF Deploy
<1>13. Outline(InstallEntry, F, {}, Types) /\ Outline(RemoveEntry, F, {}, Types)
  <2> DEFINE S == {"spec"}
  <2>1. /\ S \in SUBSET DOMAIN Types
        /\ "readSpec" \in Steps /\ "writeUnit" \in Steps /\ "removeUnit" \in Steps
        /\ "markSpec" \in Steps /\ "clearSpec" \in Steps
    BY DEF Types, Steps
  <2>2. /\ Ready({}, "readSpec", Types) /\ {} \subseteq After({}, "readSpec", Types)
        /\ S \subseteq After({}, "readSpec", Types)
        /\ Ready({}, "writeUnit", Types) /\ {} \subseteq After({}, "writeUnit", Types)
        /\ Ready({}, "removeUnit", Types) /\ {} \subseteq After({}, "removeUnit", Types)
        /\ Ready(S, "markSpec", Types) /\ {} \subseteq After(S, "markSpec", Types)
        /\ Ready(S, "clearSpec", Types) /\ {} \subseteq After(S, "clearSpec", Types)
    BY DEF Types, Ready, After
  <2> HIDE DEF S
  <2>3. /\ Outline(<<"readSpec", "writeUnit">>, {}, {}, Types)
        /\ Outline(<<"readSpec", "removeUnit">>, {}, {}, Types)
    BY <1>1, <2>1, <2>2, Two
  <2>4. /\ Outline(<<"readSpec", "markSpec">>, {}, {}, Types)
        /\ Outline(<<"readSpec", "clearSpec">>, {}, {}, Types)
    BY <1>1, <2>1, <2>2, Two
  <2>5. Outline(InstallEntry, {}, {}, Types) /\ Outline(RemoveEntry, {}, {}, Types)
    BY <2>1, <2>3, <2>4, Four DEF InstallEntry, RemoveEntry
  <2> QED
    BY <1>1, <2>5, Wider
<1>14. op \in {"init", "publish", "secureInit", "setSecret", "getSecret", "deleteSecret",
                "createRecovery", "useRecovery", "move", "deploy", "stop", "restart",
                "installEntry", "removeEntry", "snapshot", "rollback", "edit"}
  BY DEF Program
<1>15. \/ op = "deploy" /\ Program[op] = Deploy
       \/ Program[op] \in {<<"ensure">>, Publish, UseKey, SetSecret, GetSecret, DeleteSecret,
                           CreateRecovery, UseRecovery, Move, Stop, Restart, InstallEntry,
                           RemoveEntry, TakeSnapshot, Rollback, Edit}
  BY <1>14 DEF Program
<1> QED
  BY <1>4, <1>5, <1>6, <1>7, <1>8, <1>9, <1>10, <1>11, <1>12, <1>13, <1>15

\* A command that begins keeps the invariant.
LEMMA BeginTypes ==
    ASSUME Typed, NEW t \in Terminals, Begin(t)
    PROVE  Typed'
<1> DEFINE c == Head(script[t])
<1>1. /\ ~Busy(t) /\ script[t] # <<>>
      /\ script' = [script EXCEPT ![t] = Tail(script[t])]
      /\ cmd' = [cmd EXCEPT ![t] = c]
      /\ agenda' = [agenda EXCEPT ![t] = Program[c.op]]
      /\ count' = [count EXCEPT ![t] = count[t] + 1]
      /\ overlapped' \in BOOLEAN /\ faults' = faults
  BY DEF Begin, Type, Typed, TypeOK, TerminalsTypeOK
<1>2. c \in Commands /\ Tail(script[t]) \in Seq(Commands)
  BY <1>1 DEF Typed, Shaped
<1> HIDE DEF c
<1>3. /\ cmd'[t] = c /\ agenda'[t] = Program[c.op] /\ count'[t] = count[t] + 1 /\ count[t] \in Nat
      /\ \A u \in Terminals : u # t =>
            cmd'[u] = cmd[u] /\ agenda'[u] = agenda[u] /\ count'[u] = count[u]
      /\ DOMAIN agenda' = Terminals /\ DOMAIN cmd' = Terminals
  BY <1>1 DEF Typed, Shaped
<1>4. /\ km' = [km EXCEPT ![t] = Blank] /\ pm' = [pm EXCEPT ![t] = NoMemory]
      /\ sm' = [sm EXCEPT ![t] = NoWork]
  BY DEF Begin, KeysBegin, ProjectsBegin, SnapshotsBegin, Keep
<1>5. /\ DOMAIN km' = Terminals /\ DOMAIN pm' = Terminals /\ DOMAIN sm' = Terminals
      /\ km'[t] = Blank /\ pm'[t] = NoMemory /\ sm'[t] = NoWork
      /\ \A u \in Terminals : u # t => km'[u] = km[u] /\ pm'[u] = pm[u] /\ sm'[u] = sm[u]
  BY <1>4 DEF Typed, Shaped, SnapshotsShaped
<1>6. KeysTypeOK'
  <2>1. UNCHANGED <<manifest, root, retired, appKey, secrets, recovery, printed, runs>>
        /\ raced' \in BOOLEAN
    BY DEF Begin, KeysBegin, Typed, TypeOK, KeysTypeOK
  <2>2. /\ DOMAIN Blank = DOMAIN Blank /\ Blank.seen = None
        /\ Blank.app = None /\ Blank.root = None /\ Blank.key = None /\ Blank.lock = None
    BY DEF Blank
  <2> QED
    BY <1>5, <2>1, <2>2 DEF Typed, TypeOK, KeysTypeOK
<1>7. ProjectsTypeOK'
  <2>1. UNCHANGED <<spec, svc, unit, registry, requested, moved>>
    BY DEF Begin, ProjectsBegin
  <2>2. NoMemory.port = None /\ NoMemory.taken = {}
    BY DEF NoMemory
  <2> QED
    BY <1>5, <2>1, <2>2 DEF Typed, TypeOK, ProjectsTypeOK
<1>8. SnapshotsShaped'
  <2>1. src' = src /\ archives' = archives
    BY DEF Begin, SnapshotsBegin, snapshotFiles
  <2>2. WorkShaped(NoWork)
    BY DEF WorkShaped, NoWork, NoFiles
  <2> QED
    BY <1>5, <2>1, <2>2 DEF Typed, Shaped, SnapshotsShaped
<1>9. Shaped'
  <2>1. \A u \in Terminals : Busy(u)' => cmd'[u] \in Commands
    BY <1>2, <1>3 DEF Typed, Shaped, Busy
  <2>2. count' \in [Terminals -> Nat] /\ script' \in [Terminals -> Seq(Commands)]
    BY <1>1, <1>2, <1>3 DEF Typed, Shaped
  <2> QED
    BY <1>3, <1>5, <1>8, <2>1, <2>2 DEF Typed, Shaped
<1>10. TerminalsTypeOK'
  <2>1. c.in \in Projects
    BY <1>2, ScriptsAreCommands
  <2> QED
    BY <1>1, <1>3, <2>1 DEF Typed, TypeOK, TerminalsTypeOK, In, Busy
<1>11. Planned'
  <2>1. KnownTypes(t)' \in SUBSET DOMAIN Types
    BY DEF KnownTypes
  <2>2. c.op = "deploy" => "arg" \in KnownTypes(t)'
    BY <1>2, <1>3, CommandsAreKnown DEF KnownTypes, Arg, Types
  <2>3. Outline(Program[c.op], KnownTypes(t)', {}, Types)
    BY <1>2, <2>1, <2>2, CommandsAreKnown, ProgramsPlanned
  <2> QED
    BY <1>3, <1>5, <2>3, OthersPlanned
<1>12. SnapshotsTypeOK'
  BY <1>8 DEF SnapshotsShaped, SnapshotsTypeOK, WorkShaped, Work
<1> QED
  BY <1>6, <1>7, <1>9, <1>10, <1>11, <1>12 DEF Typed, TypeOK

\* So does everything that may happen ...
LEMMA NextTypes ==
    ASSUME Typed, Next
    PROVE  Typed'
<1>1. ASSUME NEW t \in Terminals, Interrupt(t), UNCHANGED <<keyVars, projectVars, snapshotVars>>
      PROVE  Typed'
  <2>1. Acts(t) /\ agenda'[t] = <<>>
    BY <1>1 DEF Interrupt, Acts, Fails, Typed, Shaped
  <2>2. /\ TerminalsTypeOK' /\ cmd' = cmd /\ script' = script /\ count' = count
        /\ DOMAIN agenda' = Terminals
        /\ \A u \in Terminals : Busy(u)' => cmd'[u] \in Commands
        /\ \A u \in Terminals : u # t => agenda'[u] = agenda[u]
    BY <2>1, TerminalsGo
  <2>3. km' = km /\ pm' = pm
    BY <1>1 DEF keyVars, projectVars
  <2>4. Outline(agenda'[t], KnownTypes(t)', {}, Types)
    BY <2>1, Empty DEF KnownTypes
  <2>5. Planned'
    BY <2>2, <2>3, <2>4, OthersPlanned
  <2>6. KeysTypeOK' /\ ProjectsTypeOK'
    BY <1>1 DEF Typed, TypeOK, KeysTypeOK, ProjectsTypeOK, keyVars, projectVars
  <2>7. SnapshotsShaped' /\ SnapshotsTypeOK'
    BY <1>1 DEF Typed, TypeOK, Shaped, SnapshotsShaped, SnapshotsTypeOK, snapshotVars, Work
  <2> QED
    BY <2>2, <2>3, <2>5, <2>6, <2>7 DEF Typed, TypeOK, Shaped
<1> QED
  BY <1>1, BeginTypes, StepTypes DEF Next

\* ... and nothing happening.
LEMMA StutterTypes ==
    ASSUME Typed, UNCHANGED vars
    PROVE  Typed'
<1>1. UNCHANGED <<terminalVars, keyVars, projectVars, snapshotVars>>
  BY DEF vars
<1>2. \A t \in Terminals : KnownTypes(t)' = KnownTypes(t)
  BY <1>1 DEF KnownTypes, Arg, terminalVars, keyVars, projectVars
<1>3. Planned'
  BY <1>1, <1>2 DEF Typed, Planned, terminalVars
<1>4. Shaped'
  BY <1>1 DEF Typed, Shaped, SnapshotsShaped, Busy, terminalVars, keyVars, projectVars, snapshotVars
<1>5. TypeOK'
  BY <1>1 DEF Typed, TypeOK, TerminalsTypeOK, KeysTypeOK, ProjectsTypeOK, SnapshotsTypeOK, Busy, In,
              Work, terminalVars, keyVars, projectVars, snapshotVars
<1> QED
  BY <1>3, <1>4, <1>5 DEF Typed

\* It holds at first ...
LEMMA InitTypes ==
    ASSUME Init
    PROVE  Typed
<1>1. \A t \in Terminals : agenda[t] = <<>> /\ ~Busy(t)
  BY DEF Init, TerminalsInit, Busy
<1>2. SnapshotsShaped /\ SnapshotsTypeOK
  BY FilesAreNatural DEF Init, SnapshotsInit, SnapshotsShaped, SnapshotsTypeOK, WorkShaped, NoWork,
     NoFiles, Work
<1>3. Shaped
  <2>1. script \in [Terminals -> Seq(Commands)] /\ count \in [Terminals -> Nat]
        /\ DOMAIN agenda = Terminals /\ DOMAIN cmd = Terminals
    BY ScriptsAreCommands DEF Init, TerminalsInit
  <2>2. DOMAIN km = Terminals /\ DOMAIN pm = Terminals /\ \A t \in Terminals : pm[t] = NoMemory
    BY DEF Init, KeysInit, ProjectsInit
  <2> QED
    BY <1>1, <1>2, <2>1, <2>2 DEF Shaped
<1>4. TerminalsTypeOK
  <2>1. overlapped \in BOOLEAN
    BY DEF Init, TerminalsInit
  <2>2. faults \in 0..MaxFaults
    BY FaultsAreNatural DEF Init, TerminalsInit
  <2>3. \A t \in Terminals : count[t] \in Nat
    BY DEF Init, TerminalsInit
  <2> QED
    BY <1>1, <2>1, <2>2, <2>3 DEF TerminalsTypeOK
<1>5. KeysTypeOK
  BY DEF Init, KeysInit, KeysTypeOK, Blank, NoSecrets
<1>6. ProjectsTypeOK
  BY DEF Init, ProjectsInit, ProjectsTypeOK, NoMemory
<1>7. Planned
  BY <1>1, Empty DEF Planned, KnownTypes
<1> QED
  BY <1>2, <1>3, <1>4, <1>5, <1>6, <1>7 DEF Typed, TypeOK

\* ... and ever after.
LEMMA TypesInvariance == Spec => []Typed
<1>1. Typed /\ [Next]_vars => Typed'
  BY NextTypes, StutterTypes
<1> QED
  BY InitTypes, <1>1, PTL DEF Spec

\* Every variable has the shape the code gives it: no step reads a field of what is not
\* there, whatever is typed at however many terminals and wherever it is interrupted.
THEOREM WorkspaceIsTyped == Spec => []TypeOK
<1>1. Typed => TypeOK
  BY DEF Typed
<1> QED
  BY TypesInvariance, <1>1, PTL
=============================================================================
