-------------------------- MODULE AdminAccessProofs --------------------------
(***************************************************************************)
(* Who can still log in and what the login limiter lets through, for any   *)
(* names, any number of requests at once and any bounds: first the users   *)
(* and the handlers that create and delete them, then the window of the    *)
(* limiter, then the types of the whole component.                         *)
(***************************************************************************)
EXTENDS AdminAccess, FiniteSetTheorems, SequenceTheorems, TLAPS

\* Users are finitely many, have numbers given so far, and no two have one.
Numbered ==
    /\ lastId \in Nat
    /\ IsFiniteSet(users)
    /\ \A u \in users : u.id \in Nat /\ u.id <= lastId
    /\ \A u, v \in users : u.id = v.id => u = v

State == [pc: {"idle", "verify", "login", "record", "admin", "delete"},
          id: Nat, sure: BOOLEAN]

TwoUsers == \E u, v \in users : u # v

\* As long as no other deletion has come between, the count that a deletion
\* made is right.
Sure == \A q \in Request : req[q].pc = "delete" /\ req[q].sure => TwoUsers

IInv ==
    /\ Numbered
    /\ req \in [Request -> State]
    /\ raced \in BOOLEAN
    /\ Sure
    /\ LastUserStaysUnlessRaced

-----------------------------------------------------------------------------
LEMMA IdleState ==
  /\ Idle \in State /\ Idle.pc = "idle"
  /\ \A pc \in {"idle", "verify", "login", "record", "admin"} :
        [Idle EXCEPT !.pc = pc] \in State /\ [Idle EXCEPT !.pc = pc].pc = pc
  BY DEF Idle, State

LEMMA CountedTwo ==
  ASSUME IsFiniteSet(users), MoreThanOneUser
  PROVE  TwoUsers
  <1> SUFFICES ASSUME ~TwoUsers PROVE FALSE
      OBVIOUS
  <1>1. CASE users = {}
    BY <1>1, FS_EmptySet DEF MoreThanOneUser
  <1>2. CASE users # {}
    <2>1. PICK u : u \in users
      BY <1>2
    <2>2. users = {u}
      BY <2>1 DEF TwoUsers
    <2> QED  BY <2>2, FS_Singleton DEF MoreThanOneUser
  <1> QED  BY <1>1, <1>2

LEMMA InitIInv == Init => IInv
  <1> SUFFICES ASSUME Init PROVE IInv
      OBVIOUS
  <1>1. PICK n \in Username : users = {[id |-> 1, name |-> n]}
    BY DEF Init
  <1>2. Numbered
    <2>1. IsFiniteSet(users)
      BY <1>1, FS_Singleton
    <2>2. \A u \in users : u.id = 1 /\ u = [id |-> 1, name |-> n]
      BY <1>1
    <2>3. lastId = 1
      BY DEF Init
    <2> QED  BY <2>1, <2>2, <2>3 DEF Numbered
  <1>3. req \in [Request -> State] /\ Sure
    BY IdleState DEF Init, Sure
  <1> QED  BY <1>1, <1>2, <1>3 DEF Init, IInv, LastUserStaysUnlessRaced

-----------------------------------------------------------------------------
\* A step that leaves the users alone, of a handler that does not count them.
LEMMA Elsewhere ==
  ASSUME IInv, UNCHANGED <<users, lastId, raced>>, NEW q \in Request,
         NEW pc \in {"idle", "verify", "login", "record", "admin"}, Goto(q, pc)
  PROVE  IInv'
  <1> DEFINE s == [Idle EXCEPT !.pc = pc]
  <1>1. s \in State /\ s.pc # "delete" /\ req' = [req EXCEPT ![q] = s]
    BY IdleState DEF Goto
  <1> HIDE DEF s
  <1>2. req' \in [Request -> State]
    BY <1>1 DEF IInv
  <1>3. Sure'
    BY <1>1 DEF IInv, Sure, TwoUsers
  <1> QED  BY <1>2, <1>3 DEF IInv, Numbered, LastUserStaysUnlessRaced

LEMMA UsersAlone ==
  ASSUME IInv, UNCHANGED <<users, lastId, raced, req>>
  PROVE  IInv'
  BY DEF IInv, Numbered, Sure, TwoUsers, LastUserStaysUnlessRaced

LEMMA Create ==
  ASSUME IInv, NEW q \in Request, PostCreateUser(q)
  PROVE  IInv'
  <1>1. PICK n \in Username : users' = users \cup {[id |-> lastId + 1, name |-> n]}
    BY DEF PostCreateUser
  <1> DEFINE z == [id |-> lastId + 1, name |-> n]
  <1>2. Numbered'
    <2>1. IsFiniteSet(users')
      BY <1>1, FS_AddElement DEF IInv, Numbered
    <2>2. lastId' = lastId + 1
      BY DEF PostCreateUser
    <2>3. z.id = lastId + 1
      OBVIOUS
    <2> QED  BY <1>1, <2>1, <2>2, <2>3 DEF IInv, Numbered
  <1>3. req' \in [Request -> State] /\ Sure'
    <2> DEFINE s == [Idle EXCEPT !.pc = "idle"]
    <2>1. s \in State /\ s.pc = "idle" /\ req' = [req EXCEPT ![q] = s]
      BY IdleState DEF PostCreateUser, Goto
    <2> HIDE DEF s
    <2>2. TwoUsers => TwoUsers'
      BY <1>1 DEF TwoUsers
    <2> QED  BY <2>1, <2>2 DEF IInv, Sure
  <1> QED  BY <1>1, <1>2, <1>3 DEF IInv, LastUserStaysUnlessRaced, PostCreateUser

LEMMA Counts ==
  ASSUME IInv, NEW q \in Request, PostDeleteUserCounts(q)
  PROVE  IInv'
  <1>1. CASE Goto(q, "idle")
    BY <1>1, Elsewhere DEF PostDeleteUserCounts
  <1>2. CASE MoreThanOneUser
    <2>1. PICK id \in 1..lastId :
            req' = [req EXCEPT ![q] = [Idle EXCEPT !.pc = "delete", !.id = id]]
      BY <1>2 DEF PostDeleteUserCounts
    <2> DEFINE s == [Idle EXCEPT !.pc = "delete", !.id = id]
    <2>2. s \in State
      <3>1. id \in Nat
        BY DEF IInv, Numbered
      <3> QED  BY <3>1 DEF Idle, State
    <2>3. TwoUsers
      BY <1>2, CountedTwo DEF IInv, Numbered
    <2> HIDE DEF s
    <2>4. req' \in [Request -> State]
      BY <2>1, <2>2 DEF IInv, s
    <2>5. Sure' /\ Numbered' /\ LastUserStaysUnlessRaced'
      BY <2>3 DEF IInv, Sure, TwoUsers, Numbered, LastUserStaysUnlessRaced,
                  PostDeleteUserCounts
    <2> QED  BY <2>4, <2>5 DEF IInv, PostDeleteUserCounts
  <1> QED  BY <1>1, <1>2 DEF PostDeleteUserCounts

LEMMA Delete ==
  ASSUME IInv, NEW q \in Request, PostDeleteUser(q)
  PROVE  IInv'
  <1>1. users' = {u \in users : u.id # req[q].id} /\ lastId' = lastId
    BY DEF PostDeleteUser
  <1>2. Numbered'
    <2>1. IsFiniteSet(users')
      BY <1>1, FS_Subset DEF IInv, Numbered
    <2> QED  BY <1>1, <2>1 DEF IInv, Numbered
  <1>3. req' \in [Request -> State]
    <2> SUFFICES ASSUME NEW p \in Request
                 PROVE  (IF p = q THEN Idle
                         ELSE [req[p] EXCEPT !.sure =
                                @ /\ (req[p].pc # "delete" \/ users = users')]) \in State
      BY DEF PostDeleteUser
    <2>1. req[p] \in State
      BY DEF IInv
    <2> QED  BY <2>1, IdleState DEF State
  <1>4. Sure'
    <2> SUFFICES ASSUME NEW p \in Request, req'[p].pc = "delete", req'[p].sure
                 PROVE  TwoUsers'
      BY DEF Sure
    <2>1. p # q
      BY IdleState DEF PostDeleteUser
    <2>2. req'[p] = [req[p] EXCEPT !.sure =
                      @ /\ (req[p].pc # "delete" \/ users = users')]
      BY <2>1 DEF PostDeleteUser
    <2>3. req[p] \in State
      BY DEF IInv
    <2>4. req[p].pc = "delete" /\ req[p].sure /\ users = users'
      BY <2>2, <2>3 DEF State
    <2> QED  BY <2>4 DEF IInv, Sure, TwoUsers
  <1>5. LastUserStaysUnlessRaced' /\ raced' \in BOOLEAN
    <2>1. raced' = (raced \/ (users' = {} /\ ~req[q].sure))
      BY DEF PostDeleteUser
    <2>2. CASE req[q].sure
      <3>1. PICK u \in users, v \in users : u # v
        BY <2>2 DEF IInv, Sure, TwoUsers, PostDeleteUser
      <3>2. u.id # v.id
        BY <3>1 DEF IInv, Numbered
      <3> QED  BY <1>1, <2>1, <3>1, <3>2 DEF LastUserStaysUnlessRaced
    <2>3. CASE ~req[q].sure
      BY <2>1, <2>3 DEF LastUserStaysUnlessRaced
    <2> QED  BY <2>2, <2>3
  <1> QED  BY <1>2, <1>3, <1>4, <1>5 DEF IInv

\* A restart may add the user of the environment, and ends every handler.
LEMMA Restarted ==
  ASSUME IInv, Restart
  PROVE  IInv'
  <1>1. users' = users \cup {[id |-> lastId + 1, name |-> n] : n \in Unknown}
    BY DEF Restart
  <1>2. req' \in [Request -> State] /\ Sure'
    BY IdleState DEF Restart, Sure
  <1>3. CASE Unknown = {}
    <2>1. users' = users
      BY <1>1, <1>3
    <2>2. lastId' = lastId
      BY <1>3, FS_EmptySet DEF Restart, IInv, Numbered
    <2> QED  BY <1>2, <1>3, <2>1, <2>2
          DEF IInv, Numbered, LastUserStaysUnlessRaced, Restart
  <1>4. CASE Unknown # {}
    <2>1. PICK n : n \in Unknown
      BY <1>4
    <2>2. Unknown = {n}
      BY <2>1, BootstrapAssumption DEF Unknown
    <2> DEFINE z == [id |-> lastId + 1, name |-> n]
    <2>3. users' = users \cup {z}
      BY <1>1, <2>2
    <2>4. lastId' = lastId + 1
      BY <2>2, FS_Singleton DEF Restart, IInv, Numbered
    <2>5. IsFiniteSet(users')
      BY <2>3, FS_AddElement DEF IInv, Numbered
    <2>6. z.id = lastId + 1
      OBVIOUS
    <2>7. Numbered'
      BY <2>3, <2>4, <2>5, <2>6 DEF IInv, Numbered
    <2>8. LastUserStaysUnlessRaced' /\ raced' \in BOOLEAN
      BY <2>3 DEF LastUserStaysUnlessRaced, IInv, Restart
    <2> QED  BY <1>2, <2>7, <2>8 DEF IInv
  <1> QED  BY <1>3, <1>4

LEMMA HandlerIInv ==
  ASSUME IInv, NEW q \in Request, Handler(q)
  PROVE  IInv'
  <1>1. CASE LoginBlocked(q)
    BY <1>1, UsersAlone DEF LoginBlocked
  <1>2. CASE LoginAllowed(q)
    BY <1>2, Elsewhere DEF LoginAllowed
  <1>3. CASE LoginVerify(q)
    BY <1>3, Elsewhere DEF LoginVerify
  <1>4. CASE LoginSession(q)
    BY <1>4, Elsewhere DEF LoginSession
  <1>5. CASE LoginRecord(q)
    BY <1>5, Elsewhere DEF LoginRecord
  <1>6. CASE RequireAdmin(q)
    BY <1>6, Elsewhere DEF RequireAdmin
  <1>7. CASE PostFails(q)
    BY <1>7, Elsewhere DEF PostFails
  <1> QED  BY <1>1, <1>2, <1>3, <1>4, <1>5, <1>6, <1>7, Create, Counts, Delete
        DEF Handler

LEMMA NextIInv == IInv /\ [Next]_vars => IInv'
  <1> SUFFICES ASSUME IInv, [Next]_vars PROVE IInv'
      OBVIOUS
  <1>1. CASE Tick \/ LimiterGc \/ \E t \in Token : PostLogout(t)
    BY <1>1, UsersAlone DEF Tick, LimiterGc, PostLogout
  <1>2. CASE UNCHANGED vars
    BY <1>2, UsersAlone DEF vars
  <1> QED  BY <1>1, <1>2, Restarted, HandlerIInv DEF Next

LEMMA Invariant == Spec => []IInv
  <1> QED  BY InitIInv, NextIInv, PTL DEF Spec

\* "Cannot delete the last user" (users.go:77): some user remains unless two
\* deletions overlapped, for any number of requests at once.
THEOREM LastUser == Spec => []LastUserStaysUnlessRaced
  <1>1. IInv => LastUserStaysUnlessRaced
    BY DEF IInv
  <1> QED  BY <1>1, Invariant, PTL

-----------------------------------------------------------------------------
(* The window of the limiter.                                              *)

Sizes ==
    /\ Window \in Nat /\ Window > 0 /\ Ttl \in Nat
    /\ MaxFails \in Nat /\ MaxId \in Nat

LEMMA SizesOK == Sizes
  BY TimesAssumption DEF Sizes

\* What allow drops is a first part of the sequence: all of it before the
\* first failure in the window.
LEMMA PastIs ==
  ASSUME NEW ages \in Seq(Age)
  PROVE  \E k \in 0..Len(ages) :
           /\ Past(ages) = 1..k /\ Cardinality(Past(ages)) = k
           /\ \A j \in 1..k : ages[j] > Window
           /\ k < Len(ages) => ages[k + 1] <= Window
  <1> DEFINE n == Len(ages)
             c == Cardinality(Past(ages))
  <1>1. n \in Nat /\ DOMAIN ages = 1..n
    BY LenProperties
  <1>2. Past(ages) \subseteq 1..n
    BY <1>1 DEF Past
  <1>3. IsFiniteSet(Past(ages)) /\ c \in Nat /\ c <= n
    <2>1. IsFiniteSet(1..n) /\ Cardinality(1..n) = n
      BY <1>1, FS_Interval
    <2> QED BY <1>2, <2>1, FS_Subset, FS_CardinalityType
  <1>4. \A x \in Past(ages) : x <= c
    <2> SUFFICES ASSUME NEW x \in Past(ages) PROVE x <= c
      OBVIOUS
    <2>1. x \in 1..n
      BY <1>2
    <2>2. 1..x \subseteq Past(ages)
      BY <1>1, <2>1 DEF Past
    <2>3. Cardinality(1..x) = x
      BY <2>1, FS_Interval
    <2>4. (1..x) \in SUBSET Past(ages)
      BY <2>2
    <2> HIDE DEF c
    <2>5. Cardinality(1..x) <= Cardinality(Past(ages))
      BY <1>3, <2>4, FS_Subset
    <2> QED BY <2>3, <2>5 DEF c
  <1>5. Past(ages) \subseteq 1..c
    BY <1>2, <1>3, <1>4
  <1>6. Past(ages) = 1..c
    <2>1. IsFiniteSet(1..c) /\ Cardinality(1..c) = c
      BY <1>3, FS_Interval
    <2> QED BY <1>5, <2>1, FS_Subset
  <1>7. \A j \in 1..c : ages[j] > Window
    <2> SUFFICES ASSUME NEW j \in 1..c PROVE ages[j] > Window
      OBVIOUS
    <2>1. j \in Past(ages)
      BY <1>6
    <2> QED BY <1>3, <2>1 DEF Past
  <1>8. ASSUME c < n PROVE ages[c + 1] <= Window
    <2>1. c + 1 \in 1..n /\ c + 1 \notin 1..c
      BY <1>1, <1>3, <1>8
    <2>2. c + 1 \notin Past(ages)
      BY <1>6, <2>1
    <2>3. PICK j \in 1..(c + 1) : ~(ages[j] > Window)
      BY <1>1, <2>1, <2>2 DEF Past
    <2>4. j = c + 1
      BY <1>3, <1>7, <2>3
    <2>5. ages[j] \in Age
      BY <1>1, <2>1, <2>4, ElementOfSeq
    <2> QED BY <2>3, <2>4, <2>5, SizesOK DEF Age, Sizes
  <1>9. c \in 0..n
    BY <1>1, <1>3
  <1> HIDE DEF c, n
  <1> QED BY <1>6, <1>7, <1>8, <1>9 DEF c, n

LEMMA RestOf ==
  ASSUME NEW S, NEW ages \in Seq(S), NEW k \in 0..Len(ages)
  PROVE  /\ SubSeq(ages, k + 1, Len(ages)) \in Seq(S)
         /\ Len(SubSeq(ages, k + 1, Len(ages))) = Len(ages) - k
         /\ \A i \in 1..Len(ages) - k : SubSeq(ages, k + 1, Len(ages))[i] = ages[k + i]
  <1> DEFINE n == Len(ages)
  <1>1. n \in Nat /\ k \in Nat /\ k <= n
    BY LenProperties
  <1>2. \A i \in (k + 1)..n : ages[i] \in S
    BY <1>1, ElementOfSeq
  <1> HIDE DEF n
  <1>3. /\ SubSeq(ages, k + 1, n) \in Seq(S)
        /\ Len(SubSeq(ages, k + 1, n)) = IF k + 1 <= n THEN n - (k + 1) + 1 ELSE 0
        /\ \A i \in 1..n - (k + 1) + 1 : SubSeq(ages, k + 1, n)[i] = ages[k + 1 + i - 1]
    BY <1>1, <1>2, SubSeqProperties
  <1>4. \A i \in 1..n - k : k + 1 + i - 1 = k + i
    BY <1>1
  <1>5. n - (k + 1) + 1 = n - k
    BY <1>1
  <1>6. (IF k + 1 <= n THEN n - (k + 1) + 1 ELSE 0) = n - k
    BY <1>1
  <1>7. Len(SubSeq(ages, k + 1, n)) = n - k
    BY <1>3, <1>6
  <1>8. \A i \in 1..n - k : SubSeq(ages, k + 1, n)[i] = ages[k + i]
    BY <1>3, <1>4, <1>5
  <1> QED BY <1>3, <1>7, <1>8 DEF n

\* Where the window begins.
LEMMA WindowIs ==
  ASSUME NEW ages \in Seq(Age), NEW k \in 0..Len(ages),
         \A j \in 1..k : ages[j] > Window,
         k < Len(ages) => ages[k + 1] <= Window
  PROVE  InWindow(ages) = SubSeq(ages, k + 1, Len(ages))
  <1>1. PICK c \in 0..Len(ages) :
          /\ Cardinality(Past(ages)) = c
          /\ \A j \in 1..c : ages[j] > Window
          /\ c < Len(ages) => ages[c + 1] <= Window
    BY PastIs
  <1>2. Len(ages) \in Nat /\ \A j \in 1..Len(ages) : ages[j] \in Nat
    BY LenProperties, SizesOK, ElementOfSeq DEF Age, Sizes
  <1>3. Window \in Nat
    BY SizesOK DEF Sizes
  <1>4. ~(c < k)
    BY <1>1, <1>2, <1>3
  <1>5. ~(k < c)
    BY <1>1, <1>2, <1>3
  <1>6. c = k
    BY <1>2, <1>4, <1>5
  <1> QED BY <1>1, <1>6 DEF InWindow

LEMMA WindowTypes ==
  ASSUME NEW ages \in Seq(Age)
  PROVE  /\ InWindow(ages) \in Seq(Age)
         /\ \E k \in 0..Len(ages) :
              /\ \A j \in 1..k : ages[j] > Window
              /\ k < Len(ages) => ages[k + 1] <= Window
              /\ InWindow(ages) = SubSeq(ages, k + 1, Len(ages))
              /\ Len(InWindow(ages)) = Len(ages) - k
              /\ \A i \in 1..Len(ages) - k : InWindow(ages)[i] = ages[k + i]
  <1>1. PICK k \in 0..Len(ages) :
          /\ \A j \in 1..k : ages[j] > Window
          /\ k < Len(ages) => ages[k + 1] <= Window
    BY PastIs
  <1>2. InWindow(ages) = SubSeq(ages, k + 1, Len(ages))
    BY <1>1, WindowIs
  <1> QED BY <1>1, <1>2, RestOf

\* Nothing is dropped that begins in the window.
LEMMA WindowOfYoung ==
  ASSUME NEW ages \in Seq(Age), ages # <<>> => ages[1] <= Window
  PROVE  InWindow(ages) = ages
  <1>1. Len(ages) \in Nat /\ (Len(ages) > 0 => ages # <<>>)
    BY LenProperties, EmptySeq
  <1>2. InWindow(ages) = SubSeq(ages, 0 + 1, Len(ages))
    <2>1. 0 \in 0..Len(ages)
      BY <1>1
    <2>2. 0 < Len(ages) => ages[0 + 1] <= Window
      BY <1>1
    <2>3. \A j \in 1..0 : ages[j] > Window
      OBVIOUS
    <2> QED BY <2>1, <2>2, <2>3, WindowIs
  <1> QED BY <1>2, SubSeqFull

LEMMA AgedTypes ==
  ASSUME NEW ages \in Seq(Age)
  PROVE  /\ Aged(ages) \in Seq(Age) /\ Len(Aged(ages)) = Len(ages)
         /\ \A i \in 1..Len(ages) :
              Aged(ages)[i] = IF ages[i] > Window THEN ages[i] ELSE ages[i] + 1
  <1>1. Len(ages) \in Nat /\ DOMAIN ages = 1..Len(ages)
        /\ \A i \in 1..Len(ages) : ages[i] \in Age
    BY LenProperties, ElementOfSeq
  <1>2. \A i \in 1..Len(ages) : (IF ages[i] > Window THEN ages[i] ELSE ages[i] + 1) \in Age
    BY <1>1, SizesOK DEF Age, Sizes
  <1>3. Aged(ages) = [i \in 1..Len(ages) |->
                        IF ages[i] > Window THEN ages[i] ELSE ages[i] + 1]
    BY <1>1 DEF Aged
  <1>4. Aged(ages) \in [1..Len(ages) -> Age]
    BY <1>2, <1>3
  <1>5. Aged(ages) \in Seq(Age)
    BY <1>1, <1>4, SeqDef
  <1>6. Len(Aged(ages)) = Len(ages)
    BY <1>1, <1>3, <1>5, LenProperties
  <1> QED BY <1>3, <1>5, <1>6

\* It makes no difference to what is in the window after a while whether the
\* failures that had left it before were dropped.
LEMMA AgedWindow ==
  ASSUME NEW ages \in Seq(Age)
  PROVE  InWindow(Aged(ages)) = InWindow(Aged(InWindow(ages)))
  <1> DEFINE w == InWindow(ages)
             a == Aged(ages)
             b == Aged(w)
  <1>w. Window \in Nat
    BY SizesOK DEF Sizes
  <1>1. PICK k \in 0..Len(ages) :
          /\ \A j \in 1..k : ages[j] > Window
          /\ Len(w) = Len(ages) - k
          /\ \A i \in 1..Len(ages) - k : w[i] = ages[k + i]
    BY WindowTypes
  <1>2. w \in Seq(Age) /\ Len(ages) \in Nat /\ k \in Nat /\ k <= Len(ages)
    BY WindowTypes, LenProperties
  <1>3. /\ a \in Seq(Age) /\ Len(a) = Len(ages)
        /\ \A i \in 1..Len(ages) : a[i] = IF ages[i] > Window THEN ages[i] ELSE ages[i] + 1
    BY AgedTypes
  <1>4. /\ b \in Seq(Age) /\ Len(b) = Len(ages) - k
        /\ \A i \in 1..Len(ages) - k : b[i] = IF w[i] > Window THEN w[i] ELSE w[i] + 1
    BY <1>1, <1>2, AgedTypes
  <1> HIDE DEF w, a, b
  <1>5. \A i \in 1..Len(ages) - k : b[i] = a[k + i]
    BY <1>1, <1>2, <1>3, <1>4
  <1>6. \A j \in 1..k : a[j] > Window
    BY <1>1, <1>2, <1>3
  <1>7. PICK c \in 0..Len(b) :
          /\ \A j \in 1..c : b[j] > Window
          /\ c < Len(b) => b[c + 1] <= Window
          /\ InWindow(b) = SubSeq(b, c + 1, Len(b))
    BY <1>4, WindowTypes
  <1>8. c \in Nat /\ c <= Len(ages) - k
    BY <1>2, <1>4, <1>7
  <1>9. InWindow(a) = SubSeq(a, (k + c) + 1, Len(a))
    <2>1. k + c \in 0..Len(a)
      BY <1>2, <1>3, <1>8
    <2>2. \A j \in 1..(k + c) : a[j] > Window
      <3> SUFFICES ASSUME NEW j \in 1..(k + c) PROVE a[j] > Window
        OBVIOUS
      <3>1. CASE j <= k
        BY <1>2, <1>6, <1>8, <3>1
      <3>2. CASE j > k
        <4>1. j - k \in 1..c /\ j - k \in 1..Len(ages) - k /\ k + (j - k) = j
          BY <1>2, <1>8, <3>2
        <4> QED BY <1>5, <1>7, <4>1
      <3> QED BY <1>2, <1>8, <3>1, <3>2
    <2>3. k + c < Len(a) => a[(k + c) + 1] <= Window
      <3> SUFFICES ASSUME k + c < Len(a) PROVE a[(k + c) + 1] <= Window
        OBVIOUS
      <3>1. c < Len(b) /\ c + 1 \in 1..Len(ages) - k /\ k + (c + 1) = (k + c) + 1
        BY <1>2, <1>3, <1>4, <1>8
      <3> QED BY <1>5, <1>7, <3>1
    <2> QED BY <1>3, <2>1, <2>2, <2>3, WindowIs
  <1> DEFINE s == SubSeq(a, (k + c) + 1, Len(a))
             t == SubSeq(b, c + 1, Len(b))
  <1>10. /\ s \in Seq(Age) /\ Len(s) = Len(a) - (k + c)
         /\ \A i \in 1..Len(a) - (k + c) : s[i] = a[(k + c) + i]
    <2>1. k + c \in 0..Len(a)
      BY <1>2, <1>3, <1>8
    <2> QED BY <1>3, <2>1, RestOf
  <1>11. /\ t \in Seq(Age) /\ Len(t) = Len(b) - c
         /\ \A i \in 1..Len(b) - c : t[i] = b[c + i]
    BY <1>4, <1>7, RestOf
  <1> HIDE DEF s, t
  <1>12. Len(s) = Len(t)
    BY <1>2, <1>3, <1>4, <1>8, <1>10, <1>11
  <1>13. \A i \in 1..Len(s) : s[i] = t[i]
    <2> SUFFICES ASSUME NEW i \in 1..Len(s) PROVE s[i] = t[i]
      OBVIOUS
    <2>1. /\ i \in 1..Len(a) - (k + c) /\ i \in 1..Len(b) - c
          /\ c + i \in 1..Len(ages) - k /\ k + (c + i) = (k + c) + i
      BY <1>2, <1>3, <1>4, <1>8, <1>10
    <2> QED BY <1>5, <1>10, <1>11, <2>1
  <1>14. s = t
    BY <1>10, <1>11, <1>12, <1>13, SeqEqual
  <1> QED BY <1>7, <1>9, <1>14 DEF s, t, a, b, w

LEMMA WindowAgain ==
  ASSUME NEW ages \in Seq(Age)
  PROVE  /\ InWindow(ages) # <<>> => InWindow(ages)[1] <= Window
         /\ InWindow(InWindow(ages)) = InWindow(ages)
  <1> DEFINE w == InWindow(ages)
  <1>1. PICK k \in 0..Len(ages) :
          /\ k < Len(ages) => ages[k + 1] <= Window
          /\ Len(w) = Len(ages) - k
          /\ \A i \in 1..Len(ages) - k : w[i] = ages[k + i]
    BY WindowTypes
  <1>2. w \in Seq(Age) /\ Len(ages) \in Nat
    BY WindowTypes, LenProperties
  <1> HIDE DEF w
  <1>3. ASSUME w # <<>> PROVE w[1] <= Window
    <2>1. Len(w) \in Nat \ {0}
      BY <1>2, <1>3, EmptySeq
    <2>2. 1 \in 1..Len(ages) - k /\ k < Len(ages)
      BY <1>1, <1>2, <2>1
    <2> QED BY <1>1, <2>2
  <1>4. InWindow(w) = w
    BY <1>2, <1>3, WindowOfYoung
  <1> QED BY <1>3, <1>4 DEF w

\* The one failure that stands for those that have left the window is not in
\* it either.
LEMMA OlderWindow ==
  ASSUME NEW ages \in Seq(Age)
  PROVE  Older(ages) \in Seq(Age) /\ InWindow(Older(ages)) = InWindow(Aged(ages))
  <1> DEFINE a == Aged(ages)
             w == InWindow(a)
             s == <<Window + 1>> \o w
  <1>w. Window \in Nat
    BY SizesOK DEF Sizes
  <1>1. a \in Seq(Age)
    BY AgedTypes
  <1>2. w \in Seq(Age) /\ Len(w) \in Nat
    BY <1>1, WindowTypes, LenProperties
  <1>3. w # <<>> => w[1] <= Window
    BY <1>1, WindowAgain
  <1>4. Older(ages) = IF w = a THEN w ELSE s
    BY DEF Older
  <1>5. InWindow(a) = w
    OBVIOUS
  <1> HIDE DEF a, w
  <1>6. CASE w = a
    BY <1>1, <1>4, <1>5, <1>6 DEF a
  <1>7. CASE w # a
    <2>1. <<Window + 1>> \in Seq(Age) /\ Len(<<Window + 1>>) = 1
      BY <1>w DEF Age
    <2>2. /\ s \in Seq(Age) /\ Len(s) = 1 + Len(w)
          /\ \A i \in 1..1 + Len(w) :
               s[i] = IF i <= 1 THEN <<Window + 1>>[i] ELSE w[i - 1]
      BY <1>2, <2>1, ConcatProperties
    <2>3. s[1] = Window + 1 /\ \A i \in 1..Len(w) : s[1 + i] = w[i]
      <3>1. s[1] = Window + 1
        BY <1>2, <2>2
      <3>2. \A i \in 1..Len(w) : 1 + i \in 1..1 + Len(w) /\ (1 + i) - 1 = i /\ ~(1 + i <= 1)
        BY <1>2
      <3> QED BY <2>2, <3>1, <3>2
    <2> HIDE DEF s
    <2>4. InWindow(s) = SubSeq(s, 1 + 1, Len(s))
      <3>1. 1 \in 0..Len(s)
        BY <1>2, <2>2
      <3>2. \A j \in 1..1 : s[j] > Window
        BY <1>w, <2>3
      <3>3. 1 < Len(s) => s[1 + 1] <= Window
        <4> SUFFICES ASSUME 1 < Len(s) PROVE s[1 + 1] <= Window
          OBVIOUS
        <4>1. 1 \in 1..Len(w) /\ w # <<>>
          BY <1>2, <2>2, EmptySeq
        <4> QED BY <1>3, <2>3, <4>1
      <3> QED BY <2>2, <3>1, <3>2, <3>3, WindowIs
    <2>5. /\ SubSeq(s, 1 + 1, Len(s)) \in Seq(Age)
          /\ Len(SubSeq(s, 1 + 1, Len(s))) = Len(s) - 1
          /\ \A i \in 1..Len(s) - 1 : SubSeq(s, 1 + 1, Len(s))[i] = s[1 + i]
      <3>1. 1 \in 0..Len(s)
        BY <1>2, <2>2
      <3> QED BY <2>2, <3>1, RestOf
    <2> DEFINE t == SubSeq(s, 1 + 1, Len(s))
    <2> HIDE DEF t
    <2>6. t \in Seq(Age) /\ Len(t) = Len(w) /\ \A i \in 1..Len(t) : t[i] = w[i]
      BY <1>2, <2>2, <2>3, <2>5 DEF t
    <2>7. t = w
      BY <1>2, <2>6, SeqEqual
    <2> QED BY <1>4, <1>5, <1>7, <2>2, <2>4, <2>7 DEF t, a
  <1> QED BY <1>6, <1>7 DEF a

Descending(ages) ==
    \A i, j \in 1..Len(ages) : i < j => ages[j] <= ages[i]

LEMMA YoungTypes ==
  ASSUME NEW ages \in Seq(0..Window)
  PROVE  ages \in Seq(Age)
  <1>1. (0..Window) \subseteq Age
    BY SizesOK DEF Sizes, Age
  <1> QED BY <1>1, SeqMonotonic

\* Failures in the order of time: those that stay are all in the window.
LEMMA OlderYoung ==
  ASSUME NEW ages \in Seq(0..Window), Descending(ages)
  PROVE  LET w == InWindow(Older(ages)) IN
         w \in Seq(0..Window) /\ Descending(w) /\ Len(w) <= Len(ages)
  <1> DEFINE a == Aged(ages)
             w == InWindow(a)
  <1>w. Window \in Nat
    BY SizesOK DEF Sizes
  <1>0. ages \in Seq(Age)
    BY YoungTypes
  <1>1. InWindow(Older(ages)) = w
    BY <1>0, OlderWindow
  <1>2. Len(ages) \in Nat /\ \A i \in 1..Len(ages) : ages[i] \in 0..Window
    BY LenProperties, ElementOfSeq
  <1>3. /\ a \in Seq(Age) /\ Len(a) = Len(ages)
        /\ \A i \in 1..Len(ages) : a[i] = IF ages[i] > Window THEN ages[i] ELSE ages[i] + 1
    BY <1>0, AgedTypes
  <1>4. \A i \in 1..Len(ages) : a[i] = ages[i] + 1
    BY <1>w, <1>2, <1>3
  <1>5. PICK k \in 0..Len(a) :
          /\ Len(w) = Len(a) - k
          /\ \A i \in 1..Len(a) - k : w[i] = a[k + i]
    BY <1>3, WindowTypes
  <1>6. w \in Seq(Age) /\ (w # <<>> => w[1] <= Window)
    BY <1>3, WindowTypes, WindowAgain
  <1> HIDE DEF a, w
  <1>7. \A i \in 1..Len(w) : /\ k + i \in 1..Len(ages) /\ w[i] = ages[k + i] + 1
                             /\ ages[k + i] \in 0..Window
    BY <1>2, <1>3, <1>4, <1>5
  <1>8. Descending(w)
    <2> SUFFICES ASSUME NEW i \in 1..Len(w), NEW j \in 1..Len(w), i < j
                 PROVE  w[j] <= w[i]
      BY DEF Descending
    <2>1. k + i < k + j /\ k \in Nat
      BY <1>2, <1>3, <1>5
    <2>2. ages[k + j] <= ages[k + i]
      BY <1>7, <2>1 DEF Descending
    <2>3. /\ w[i] = ages[k + i] + 1 /\ w[j] = ages[k + j] + 1
          /\ ages[k + i] \in 0..Window /\ ages[k + j] \in 0..Window
      BY <1>7
    <2>4. \A x, y \in 0..Window : x <= y => x + 1 <= y + 1
      BY <1>w
    <2> QED BY <2>2, <2>3, <2>4
  <1>9. Len(w) \in Nat /\ Len(w) <= Len(ages)
    BY <1>2, <1>3, <1>5
  <1>10. \A i \in 1..Len(w) : w[i] \in 0..Window
    <2> SUFFICES ASSUME NEW i \in 1..Len(w) PROVE w[i] \in 0..Window
      OBVIOUS
    <2>1. 1 \in 1..Len(w) /\ w # <<>>
      BY <1>9, EmptySeq
    <2>2. /\ w[i] = ages[k + i] + 1 /\ ages[k + i] \in 0..Window
          /\ w[1] = ages[k + 1] + 1 /\ ages[k + 1] \in 0..Window
      BY <1>7, <2>1
    <2>3. w[i] <= w[1]
      <3>1. CASE i = 1
        BY <1>w, <2>2, <3>1
      <3>2. CASE 1 < i
        BY <1>8, <2>1, <3>2 DEF Descending
      <3> QED BY <1>9, <3>1, <3>2
    <2>4. w[1] <= Window
      BY <1>6, <2>1
    <2>5. \A x, y \in 0..Window : x + 1 <= y + 1 /\ y + 1 <= Window => x + 1 \in 0..Window
      BY <1>w
    <2> QED BY <2>2, <2>3, <2>4, <2>5
  <1>11. w \in [1..Len(w) -> 0..Window]
    BY <1>6, <1>10, LenProperties
  <1>12. w \in Seq(0..Window)
    BY <1>9, <1>11, SeqDef
  <1> QED BY <1>1, <1>8, <1>9, <1>12

\* record adds to what is in the window.
LEMMA WindowAppend ==
  ASSUME NEW ages \in Seq(Age)
  PROVE  /\ Append(ages, 0) \in Seq(Age)
         /\ InWindow(Append(ages, 0)) = Append(InWindow(ages), 0)
  <1> DEFINE w == InWindow(ages)
             a == Append(ages, 0)
  <1>w. Window \in Nat /\ 0 \in Age
    BY SizesOK DEF Sizes, Age
  <1>1. PICK k \in 0..Len(ages) :
          /\ \A j \in 1..k : ages[j] > Window
          /\ k < Len(ages) => ages[k + 1] <= Window
          /\ Len(w) = Len(ages) - k
          /\ \A i \in 1..Len(ages) - k : w[i] = ages[k + i]
    BY WindowTypes
  <1>2. w \in Seq(Age) /\ Len(ages) \in Nat
    BY WindowTypes, LenProperties
  <1>3. /\ a \in Seq(Age) /\ Len(a) = Len(ages) + 1
        /\ \A i \in 1..Len(ages) : a[i] = ages[i]
        /\ a[Len(ages) + 1] = 0
    BY <1>w, AppendProperties
  <1> DEFINE b == Append(w, 0)
  <1>4. /\ b \in Seq(Age) /\ Len(b) = Len(w) + 1
        /\ \A i \in 1..Len(w) : b[i] = w[i]
        /\ b[Len(w) + 1] = 0
    BY <1>w, <1>2, AppendProperties
  <1> HIDE DEF w, a, b
  <1>5. InWindow(a) = SubSeq(a, k + 1, Len(a))
    <2>1. k \in 0..Len(a)
      BY <1>2, <1>3
    <2>2. \A j \in 1..k : a[j] > Window
      <3>1. \A j \in 1..k : j \in 1..Len(ages)
        BY <1>2
      <3> QED BY <1>1, <1>3, <3>1
    <2>3. k < Len(a) => a[k + 1] <= Window
      <3>1. CASE k < Len(ages)
        BY <1>1, <1>2, <1>3, <3>1
      <3>2. CASE k = Len(ages)
        BY <1>w, <1>3, <3>2
      <3> QED BY <1>2, <3>1, <3>2
    <2> QED BY <1>3, <2>1, <2>2, <2>3, WindowIs
  <1> DEFINE s == SubSeq(a, k + 1, Len(a))
  <1>6. /\ s \in Seq(Age) /\ Len(s) = Len(a) - k
        /\ \A i \in 1..Len(a) - k : s[i] = a[k + i]
    <2>1. k \in 0..Len(a)
      BY <1>2, <1>3
    <2> QED BY <1>3, <2>1, RestOf
  <1> HIDE DEF s
  <1>7. Len(s) = Len(b)
    BY <1>1, <1>2, <1>3, <1>4, <1>6
  <1>8. \A i \in 1..Len(s) : s[i] = b[i]
    <2> SUFFICES ASSUME NEW i \in 1..Len(s) PROVE s[i] = b[i]
      OBVIOUS
    <2>1. s[i] = a[k + i]
      BY <1>6
    <2>2. CASE i <= Len(w)
      <3>1. i \in 1..Len(ages) - k /\ k + i \in 1..Len(ages) /\ i \in 1..Len(w)
        BY <1>1, <1>2, <1>3, <1>6, <2>2
      <3> QED BY <1>1, <1>3, <1>4, <2>1, <3>1
    <2>3. CASE i = Len(w) + 1
      <3>1. k + i = Len(ages) + 1
        BY <1>1, <1>2, <2>3
      <3> QED BY <1>3, <1>4, <2>1, <2>3, <3>1
    <2> QED BY <1>1, <1>2, <1>3, <1>6, <2>2, <2>3
  <1>9. s = b
    BY <1>4, <1>6, <1>7, <1>8, SeqEqual
  <1> QED BY <1>3, <1>5, <1>9 DEF s, b, a, w

-----------------------------------------------------------------------------
(* The limiter.                                                            *)

ReqStates ==
    [pc: {"idle", "verify", "login", "record", "admin", "delete"},
     id: 0..MaxId, sure: BOOLEAN]

\* The failures of the present window are those the limiter would count.
Limited ==
    /\ fails \in Seq(Age)
    /\ failed \in Seq(0..Window) /\ Descending(failed)
    /\ failed = InWindow(fails)

LEMMA EmptyWindow ==
  /\ <<>> \in Seq(Age) /\ <<>> \in Seq(0..Window)
  /\ Descending(<<>>) /\ InWindow(<<>>) = <<>> /\ Len(<<>>) = 0
  <1>1. <<>> \in Seq(Age) /\ <<>> \in Seq(0..Window) /\ Len(<<>>) = 0
    BY EmptySeq
  <1>2. InWindow(<<>>) = <<>>
    BY <1>1, WindowOfYoung
  <1> QED BY <1>1, <1>2 DEF Descending

LEMMA LimitedTick ==
  ASSUME Limited, Tick
  PROVE  Limited' /\ Len(failed') <= Len(failed)
  <1>1. fails' = Older(fails) /\ failed' = InWindow(Older(failed))
    BY DEF Tick
  <1>2. fails \in Seq(Age) /\ failed \in Seq(0..Window) /\ Descending(failed)
        /\ failed = InWindow(fails) /\ failed \in Seq(Age)
    BY YoungTypes DEF Limited
  <1>3. fails' \in Seq(Age) /\ InWindow(fails') = InWindow(Aged(fails))
    BY <1>1, <1>2, OlderWindow
  <1>4. failed' = InWindow(Aged(failed))
    BY <1>1, <1>2, OlderWindow
  <1>5. InWindow(Aged(fails)) = InWindow(Aged(failed))
    BY <1>2, AgedWindow
  <1>6. failed' \in Seq(0..Window) /\ Descending(failed') /\ Len(failed') <= Len(failed)
    BY <1>1, <1>2, OlderYoung
  <1>7. Descending(failed)' /\ InWindow(fails)' = InWindow(fails')
    BY <1>6 DEF Descending, InWindow, Past
  <1> QED BY <1>3, <1>4, <1>5, <1>6, <1>7 DEF Limited

LEMMA LimitedGc ==
  ASSUME Limited, LimiterGc
  PROVE  Limited' /\ failed' = failed
  <1>1. fails' = <<>> /\ failed' = failed /\ fails # <<>> /\ fails[Len(fails)] > Window
    BY DEF LimiterGc, GcDue
  <1>2. fails \in Seq(Age) /\ failed \in Seq(0..Window) /\ failed = InWindow(fails)
    BY DEF Limited
  <1>3. PICK k \in 0..Len(fails) :
          /\ Len(failed) = Len(fails) - k
          /\ \A i \in 1..Len(fails) - k : failed[i] = fails[k + i]
    BY <1>2, WindowTypes
  <1>4. Len(fails) \in Nat /\ Len(failed) \in Nat
    BY <1>2, LenProperties
  <1>5. Len(failed) = 0
    <2> SUFFICES ASSUME Len(failed) # 0 PROVE FALSE
      OBVIOUS
    <2> DEFINE n == Len(failed)
    <2>1. n \in 1..Len(failed) /\ n \in 1..Len(fails) - k /\ k + n = Len(fails)
      BY <1>3, <1>4
    <2>2. failed[n] = fails[Len(fails)]
      BY <1>3, <2>1
    <2>3. failed[n] \in 0..Window
      BY <1>2, <2>1, ElementOfSeq
    <2> QED BY <1>1, <2>2, <2>3, SizesOK DEF Sizes
  <1>6. failed = <<>>
    BY <1>2, <1>5, EmptySeq
  <1> QED BY <1>1, <1>6, EmptyWindow DEF Limited, InWindow, Past, Descending

LEMMA LimitedBlocked ==
  ASSUME Limited, NEW q \in Request, LoginBlocked(q)
  PROVE  Limited'
  <1>1. fails' = InWindow(fails) /\ failed' = failed
    BY DEF LoginBlocked
  <1>2. fails' \in Seq(Age) /\ InWindow(fails') = failed'
    BY <1>1, WindowTypes, WindowAgain DEF Limited
  <1> QED BY <1>1, <1>2 DEF Limited, InWindow, Past, Descending

LEMMA LimitedRecord ==
  ASSUME Limited, NEW q \in Request, LoginRecord(q)
  PROVE  Limited' /\ Len(failed') = Len(failed) + 1
  <1>w. Window \in Nat
    BY SizesOK DEF Sizes
  <1>1. fails' = Append(fails, 0) /\ failed' = Append(failed, 0)
    BY DEF LoginRecord
  <1>2. fails' \in Seq(Age) /\ InWindow(fails') = failed'
    BY <1>1, WindowAppend DEF Limited
  <1>3. /\ failed' \in Seq(0..Window) /\ Len(failed') = Len(failed) + 1
        /\ \A i \in 1..Len(failed) : failed'[i] = failed[i]
        /\ failed'[Len(failed) + 1] = 0
    <2>1. failed \in Seq(0..Window) /\ 0 \in 0..Window
      BY <1>w DEF Limited
    <2> QED BY <1>1, <2>1, AppendProperties
  <1>4. /\ Len(failed) \in Nat
        /\ \A i \in 1..Len(failed) : failed[i] \in 0..Window
    BY LenProperties, ElementOfSeq DEF Limited
  <1>5. Descending(failed')
    <2> SUFFICES ASSUME NEW i \in 1..Len(failed'), NEW j \in 1..Len(failed'), i < j
                 PROVE  failed'[j] <= failed'[i]
      BY DEF Descending
    <2>1. i \in 1..Len(failed)
      BY <1>3, <1>4
    <2>2. CASE j \in 1..Len(failed)
      BY <1>3, <2>1, <2>2 DEF Limited, Descending
    <2>3. CASE j = Len(failed) + 1
      BY <1>3, <1>4, <2>1, <2>3, <1>w
    <2> QED BY <1>3, <1>4, <2>2, <2>3
  <1> QED BY <1>2, <1>3, <1>5 DEF Limited, InWindow, Past, Descending

LEMMA LimitedNext ==
  ASSUME Limited, [Next]_vars
  PROVE  Limited'
  <1>1. CASE UNCHANGED <<fails, failed>>
    BY <1>1 DEF Limited, InWindow, Past, Descending
  <1>2. CASE Restart
    BY <1>2, EmptyWindow DEF Restart, Limited, InWindow, Past, Descending
  <1>3. ASSUME NEW q \in Request, Handler(q) PROVE Limited'
    <2>1. CASE LoginBlocked(q)
      BY <2>1, LimitedBlocked
    <2>2. CASE LoginRecord(q)
      BY <2>2, LimitedRecord
    <2>3. CASE ~LoginBlocked(q) /\ ~LoginRecord(q)
      BY <1>1, <1>3, <2>3
      DEF Handler, LoginAllowed, LoginVerify, LoginSession, RequireAdmin,
          PostCreateUser, PostDeleteUserCounts, PostDeleteUser, PostFails
    <2> QED BY <2>1, <2>2, <2>3
  <1> QED BY <1>1, <1>2, <1>3, LimitedTick, LimitedGc DEF Next, PostLogout, vars

-----------------------------------------------------------------------------
(* How many attempts fail in one window.                                   *)

\* Handlers that have been allowed to try.
Trying == {q \in Request : req[q].pc \in {"verify", "record"}}

Few == Len(failed) + Cardinality(Trying) < MaxFails + Cardinality(Request)

LEMMA TryingFinite ==
  /\ IsFiniteSet(Request) /\ Cardinality(Request) \in Nat
  /\ \A S \in SUBSET Request : IsFiniteSet(S) /\ Cardinality(S) \in Nat
                               /\ Cardinality(S) <= Cardinality(Request)
  BY RequestAssumption, FS_CardinalityType, FS_Subset

LEMMA FewStays ==
  ASSUME Limited, Limited', Few, Trying' \subseteq Trying, Len(failed') <= Len(failed)
  PROVE  Few'
  <1>1. Trying \in SUBSET Request /\ Trying' \in SUBSET Trying
    BY DEF Trying
  <1>2. Trying' \in SUBSET Request
    BY <1>1
  <1>3. IsFiniteSet(Trying) /\ Cardinality(Trying) \in Nat /\ Cardinality(Trying') \in Nat
    BY <1>1, <1>2, TryingFinite
  <1>4. Cardinality(Trying') <= Cardinality(Trying)
    BY <1>1, <1>3, FS_Subset
  <1>5. Len(failed) \in Nat /\ Len(failed') \in Nat
    BY LenProperties DEF Limited
  <1>6. MaxFails \in Nat /\ Cardinality(Request) \in Nat
    BY SizesOK, TryingFinite DEF Sizes
  <1>7. Len(failed') + Cardinality(Trying') < MaxFails + Cardinality(Request)
    BY <1>3, <1>4, <1>5, <1>6 DEF Few
  <1> QED BY <1>7 DEF Few

LEMMA GotoTrying ==
  ASSUME IInv, NEW q \in Request, NEW pc \in {"idle", "verify", "login", "record", "admin"},
         Goto(q, pc)
  PROVE  Trying' = IF pc \in {"verify", "record"} THEN Trying \cup {q} ELSE Trying \ {q}
  <1>1. req' = [req EXCEPT ![q] = [Idle EXCEPT !.pc = pc]] /\ req \in [Request -> State]
    BY DEF Goto, IInv
  <1>2. [Idle EXCEPT !.pc = pc].pc = pc
    BY IdleState
  <1>3. req'[q].pc = pc /\ \A p \in Request \ {q} : req'[p].pc = req[p].pc
    BY <1>1, <1>2
  <1> QED BY <1>3 DEF Trying

LEMMA FewAllowed ==
  ASSUME Limited, IInv, NEW q \in Request, LoginAllowed(q)
  PROVE  Few'
  <1>1. Len(failed) < MaxFails /\ failed' = failed
    BY DEF LoginAllowed, Allowed, Limited
  <1>2. Trying' \in SUBSET Request
    BY DEF Trying
  <1>3. Cardinality(Trying') \in Nat /\ Cardinality(Trying') <= Cardinality(Request)
    BY <1>2, TryingFinite
  <1>4. Len(failed) \in Nat /\ MaxFails \in Nat /\ Cardinality(Request) \in Nat
    BY SizesOK, TryingFinite, LenProperties DEF Sizes, Limited
  <1>5. Len(failed) + Cardinality(Trying') < MaxFails + Cardinality(Request)
    BY <1>1, <1>3, <1>4
  <1> QED BY <1>1, <1>5 DEF Few

LEMMA FewRecord ==
  ASSUME Limited, IInv, Few, NEW q \in Request, LoginRecord(q)
  PROVE  Few'
  <1>1. Len(failed') = Len(failed) + 1
    BY LimitedRecord
  <1>2. q \in Trying
    BY DEF LoginRecord, Trying
  <1>3. Trying' = Trying \ {q}
    <2>1. Goto(q, "idle")
      BY DEF LoginRecord
    <2>2. Trying' = IF "idle" \in {"verify", "record"} THEN Trying \cup {q} ELSE Trying \ {q}
      BY <2>1, GotoTrying
    <2> QED BY <2>2
  <1>4. IsFiniteSet(Trying) /\ Cardinality(Trying) \in Nat
    <2>1. Trying \in SUBSET Request
      BY DEF Trying
    <2> QED BY <2>1, TryingFinite
  <1>5. Cardinality(Trying') = Cardinality(Trying) - 1
    BY <1>2, <1>3, <1>4, FS_RemoveElement
  <1>6. Len(failed) \in Nat /\ MaxFails \in Nat /\ Cardinality(Request) \in Nat
    BY SizesOK, TryingFinite, LenProperties DEF Sizes, Limited
  <1>7. Len(failed') + Cardinality(Trying') < MaxFails + Cardinality(Request)
    BY <1>1, <1>4, <1>5, <1>6 DEF Few
  <1> QED BY <1>7 DEF Few

LEMMA FewHandler ==
  ASSUME Limited, Limited', IInv, Few, NEW q \in Request, Handler(q)
  PROVE  Few'
  <1> DEFINE Same == UNCHANGED failed /\ Trying' \subseteq Trying
  <1>0. ASSUME Same PROVE Few'
    <2>1. Len(failed) \in Nat
      BY LenProperties DEF Limited
    <2>2. Len(failed') <= Len(failed)
      BY <1>0, <2>1
    <2> QED BY <1>0, <2>2, FewStays
  <1>1. CASE LoginBlocked(q)
    BY <1>0, <1>1 DEF LoginBlocked, Trying
  <1>2. CASE LoginAllowed(q)
    BY <1>2, FewAllowed
  <1>3. CASE LoginVerify(q)
    <2>1. q \in Trying /\ UNCHANGED failed
      BY <1>3 DEF LoginVerify, Trying
    <2>2. Trying' \subseteq Trying \cup {q}
      BY <1>3, GotoTrying DEF LoginVerify
    <2> QED BY <1>0, <2>1, <2>2
  <1>4. CASE LoginRecord(q)
    BY <1>4, FewRecord
  <1>5. CASE LoginSession(q) \/ PostCreateUser(q) \/ PostFails(q)
    <2>1. Goto(q, "idle") /\ UNCHANGED failed
      BY <1>5 DEF LoginSession, PostCreateUser, PostFails
    <2>2. Trying' = IF "idle" \in {"verify", "record"} THEN Trying \cup {q} ELSE Trying \ {q}
      BY <2>1, GotoTrying
    <2> QED BY <1>0, <2>1, <2>2
  <1>6. CASE RequireAdmin(q)
    <2>1. Goto(q, "admin") /\ UNCHANGED failed
      BY <1>6 DEF RequireAdmin
    <2>2. Trying' = IF "admin" \in {"verify", "record"} THEN Trying \cup {q} ELSE Trying \ {q}
      BY <2>1, GotoTrying
    <2> QED BY <1>0, <2>1, <2>2
  <1>7. CASE PostDeleteUserCounts(q)
    <2>1. UNCHANGED failed
      BY <1>7 DEF PostDeleteUserCounts
    <2>2. CASE Goto(q, "idle")
      <3>1. Trying' = IF "idle" \in {"verify", "record"} THEN Trying \cup {q} ELSE Trying \ {q}
        BY <2>2, GotoTrying
      <3> QED BY <1>0, <2>1, <3>1
    <2>3. CASE ~Goto(q, "idle")
      <3>1. PICK id \in 1..lastId :
              req' = [req EXCEPT ![q] = [Idle EXCEPT !.pc = "delete", !.id = id]]
        BY <1>7, <2>3 DEF PostDeleteUserCounts
      <3>2. [Idle EXCEPT !.pc = "delete", !.id = id].pc = "delete"
        BY DEF Idle
      <3>3. req'[q].pc = "delete" /\ \A p \in Request \ {q} : req'[p].pc = req[p].pc
        BY <3>1, <3>2 DEF IInv
      <3> QED BY <1>0, <2>1, <3>3 DEF Trying
    <2> QED BY <2>2, <2>3
  <1>8. CASE PostDeleteUser(q)
    <2>1. UNCHANGED failed
      BY <1>8 DEF PostDeleteUser
    <2>2. \A p \in Request : req'[p].pc \in {"verify", "record"} => req'[p].pc = req[p].pc
      <3> SUFFICES ASSUME NEW p \in Request, req'[p].pc \in {"verify", "record"}
                   PROVE  req'[p].pc = req[p].pc
        OBVIOUS
      <3>1. p # q
        BY <1>8, IdleState DEF PostDeleteUser
      <3>2. req'[p] = [req[p] EXCEPT !.sure =
                        @ /\ (req[p].pc # "delete" \/ users = users')]
        BY <1>8, <3>1 DEF PostDeleteUser
      <3>3. req[p] \in State
        BY DEF IInv
      <3> QED BY <3>2, <3>3 DEF State
    <2> QED BY <1>0, <2>1, <2>2 DEF Trying
  <1> QED BY <1>1, <1>2, <1>3, <1>4, <1>5, <1>6, <1>7, <1>8 DEF Handler

LEMMA FewNext ==
  ASSUME Limited, IInv, Few, [Next]_vars
  PROVE  Few'
  <1>0. Limited' /\ Len(failed) \in Nat
    BY LimitedNext, LenProperties DEF Limited
  <1>1. CASE Tick
    BY <1>0, <1>1, LimitedTick, FewStays DEF Tick, Trying
  <1>2. CASE LimiterGc \/ (\E t \in Token : PostLogout(t)) \/ UNCHANGED vars
    <2>1. failed' = failed /\ req' = req
      BY <1>2 DEF LimiterGc, PostLogout, vars
    <2> QED BY <2>1 DEF Few, Trying
  <1>3. CASE Restart
    <2>1. failed' = <<>> /\ \A q \in Request : req'[q].pc = "idle"
      BY <1>3, IdleState DEF Restart
    <2>2. Trying' = {}
      BY <2>1 DEF Trying
    <2>3. Len(failed') = 0 /\ Cardinality(Trying') = 0
      BY <2>1, <2>2, EmptyWindow, FS_EmptySet
    <2>4. MaxFails \in Nat /\ MaxFails > 0 /\ Cardinality(Request) \in Nat
      BY TimesAssumption, TryingFinite
    <2>5. Len(failed') + Cardinality(Trying') < MaxFails + Cardinality(Request)
      BY <2>3, <2>4
    <2> QED BY <2>5 DEF Few
  <1>4. ASSUME NEW q \in Request, Handler(q) PROVE Few'
    BY <1>0, <1>4, FewHandler
  <1> QED BY <1>1, <1>2, <1>3, <1>4 DEF Next

LEMMA LimiterInit == Init => Limited /\ Few
  <1> SUFFICES ASSUME Init PROVE Limited /\ Few
    OBVIOUS
  <1>1. fails = <<>> /\ failed = <<>> /\ \A q \in Request : req[q].pc = "idle"
    BY IdleState DEF Init
  <1>2. Trying = {}
    BY <1>1 DEF Trying
  <1>3. Len(failed) = 0 /\ Cardinality(Trying) = 0
    BY <1>1, <1>2, EmptyWindow, FS_EmptySet
  <1>4. MaxFails \in Nat /\ MaxFails > 0 /\ Cardinality(Request) \in Nat
    BY TimesAssumption, TryingFinite
  <1> QED BY <1>1, <1>3, <1>4, EmptyWindow DEF Limited, Few

LEMMA LimiterAlways == Spec => [](Limited /\ Few)
  BY Invariant, LimiterInit, LimitedNext, FewNext, PTL DEF Spec

\* In no window do more attempts fail than the limit and those that were being
\* verified when it was reached, for any limit, window and number of requests.
THEOREM FailuresLimited == Spec => []FailuresBounded
  <1>1. Limited /\ Few => FailuresBounded
    <2> SUFFICES ASSUME Limited, Few PROVE FailuresBounded
      OBVIOUS
    <2>1. Trying \in SUBSET Request
      BY DEF Trying
    <2>2. Cardinality(Trying) \in Nat /\ Cardinality(Request) \in Nat /\ MaxFails \in Nat
      BY <2>1, TryingFinite, SizesOK DEF Sizes
    <2>3. Len(failed) \in Nat
      BY LenProperties DEF Limited
    <2> QED BY <2>2, <2>3 DEF Few, FailuresBounded
  <1> QED BY <1>1, LimiterAlways, PTL

-----------------------------------------------------------------------------
(* Type correctness.                                                       *)

Types ==
    /\ users \subseteq User
    /\ \A u, v \in users : u.id = v.id \/ u.name = v.name => u = v
    /\ \A u \in users : u.id <= lastId
    /\ lastId \in 1..MaxId
    /\ sessions \in [Token -> 0..Ttl]
    /\ req \in [Request -> ReqStates]

LEMMA MaxIdOK == MaxId \in Nat /\ MaxId > 0 /\ Ttl \in Nat /\ Ttl > 0
  BY TimesAssumption

LEMMA IdleReq ==
  /\ Idle \in ReqStates
  /\ \A pc \in {"idle", "verify", "login", "record", "admin"} :
        [Idle EXCEPT !.pc = pc] \in ReqStates
  <1>1. Idle \in ReqStates
    BY MaxIdOK DEF Idle, ReqStates
  <1>2. ASSUME NEW pc \in {"idle", "verify", "login", "record", "admin"}
        PROVE  [Idle EXCEPT !.pc = pc] \in ReqStates
    BY <1>1 DEF ReqStates
  <1> QED BY <1>1, <1>2

LEMMA TypesInit == Init => Types
  <1> SUFFICES ASSUME Init PROVE Types
    OBVIOUS
  <1>1. PICK n \in Username : users = {[id |-> 1, name |-> n]}
    BY DEF Init
  <1>2. lastId = 1 /\ 1 \in 1..MaxId /\ 0 \in 0..Ttl
    BY MaxIdOK DEF Init
  <1>3. sessions \in [Token -> 0..Ttl] /\ req \in [Request -> ReqStates]
    BY <1>2, IdleReq DEF Init
  <1>4. users \subseteq User
    BY <1>1, <1>2 DEF User
  <1>5. \A u, v \in users : u = v
    BY <1>1
  <1>6. \A u \in users : u.id <= lastId
    BY <1>1, <1>2
  <1> QED BY <1>2, <1>3, <1>4, <1>5, <1>6 DEF Types

\* One user more, with a name that nobody has and the next number.
LEMMA TypesAdded ==
  ASSUME Types, NEW n \in Username, \A u \in users : u.name # n, lastId < MaxId,
         users' = users \cup {[id |-> lastId + 1, name |-> n]}, lastId' = lastId + 1,
         sessions' \in [Token -> 0..Ttl], req' \in [Request -> ReqStates]
  PROVE  Types'
  <1> DEFINE z == [id |-> lastId + 1, name |-> n]
  <1>1. lastId \in Nat /\ lastId + 1 \in 1..MaxId /\ MaxId \in Nat
    BY MaxIdOK DEF Types
  <1>2. z \in User /\ z.id = lastId + 1 /\ z.name = n
    BY <1>1 DEF User
  <1>3. \A u \in users : u.id \in Nat /\ u.id <= lastId
    BY DEF Types, User
  <1> HIDE DEF z
  <1>4. users' = users \cup {z}
    BY DEF z
  <1>5. \A u \in users : u.id # z.id /\ u.name # z.name
    BY <1>1, <1>2, <1>3
  <1>6. \A u, v \in users' : u.id = v.id \/ u.name = v.name => u = v
    BY <1>4, <1>5 DEF Types
  <1>7. \A u \in users' : u.id <= lastId'
    BY <1>1, <1>2, <1>3, <1>4
  <1> QED BY <1>1, <1>2, <1>4, <1>6, <1>7 DEF Types

LEMMA TypesKept ==
  ASSUME Types, users' \subseteq users, lastId' = lastId,
         sessions' \in [Token -> 0..Ttl], req' \in [Request -> ReqStates]
  PROVE  Types'
  BY DEF Types

LEMMA TypesHandler ==
  ASSUME Types, NEW q \in Request, Handler(q)
  PROVE  Types'
  <1>s. sessions \in [Token -> 0..Ttl] /\ req \in [Request -> ReqStates]
    BY DEF Types
  <1>g. ASSUME NEW pc \in {"idle", "verify", "login", "record", "admin"}, Goto(q, pc)
        PROVE  req' \in [Request -> ReqStates]
    <2> DEFINE s == [Idle EXCEPT !.pc = pc]
    <2>1. s \in ReqStates /\ req' = [req EXCEPT ![q] = s]
      BY <1>g, IdleReq DEF Goto
    <2> HIDE DEF s
    <2> QED BY <1>s, <2>1
  <1>1. CASE LoginBlocked(q)
    BY <1>1, <1>s, TypesKept DEF LoginBlocked
  <1>2. CASE LoginAllowed(q) \/ LoginVerify(q) \/ LoginRecord(q) \/ RequireAdmin(q)
              \/ PostFails(q)
    <2>1. \E pc \in {"idle", "verify", "login", "record", "admin"} : Goto(q, pc)
      BY <1>2 DEF LoginAllowed, LoginVerify, LoginRecord, RequireAdmin, PostFails
    <2>2. UNCHANGED <<users, lastId, sessions>>
      BY <1>2 DEF LoginAllowed, LoginVerify, LoginRecord, RequireAdmin, PostFails
    <2> QED BY <1>s, <1>g, <2>1, <2>2, TypesKept
  <1>3. CASE LoginSession(q)
    <2>1. /\ Goto(q, "idle") /\ UNCHANGED <<users, lastId>>
          /\ \E t \in Token : sessions' = [sessions EXCEPT ![t] = Ttl]
      BY <1>3 DEF LoginSession
    <2>2. sessions' \in [Token -> 0..Ttl]
      BY <1>s, <2>1, MaxIdOK
    <2> QED BY <1>g, <2>1, <2>2, TypesKept
  <1>4. CASE PostCreateUser(q)
    <2>1. PICK n \in Username :
            /\ \A u \in users : u.name # n
            /\ users' = users \cup {[id |-> lastId + 1, name |-> n]}
      BY <1>4 DEF PostCreateUser
    <2>2. lastId < MaxId /\ lastId' = lastId + 1 /\ Goto(q, "idle") /\ sessions' = sessions
      BY <1>4 DEF PostCreateUser
    <2> QED BY <1>s, <1>g, <2>1, <2>2, TypesAdded
  <1>5. CASE PostDeleteUserCounts(q)
    <2>1. UNCHANGED <<users, lastId, sessions>>
      BY <1>5 DEF PostDeleteUserCounts
    <2>2. CASE Goto(q, "idle")
      BY <1>s, <1>g, <2>1, <2>2, TypesKept
    <2>3. CASE ~Goto(q, "idle")
      <3>1. PICK id \in 1..lastId :
              req' = [req EXCEPT ![q] = [Idle EXCEPT !.pc = "delete", !.id = id]]
        BY <1>5, <2>3 DEF PostDeleteUserCounts
      <3>2. id \in 0..MaxId
        BY MaxIdOK DEF Types
      <3> DEFINE s == [Idle EXCEPT !.pc = "delete", !.id = id]
      <3>3. s \in ReqStates
        BY <3>2 DEF Idle, ReqStates
      <3>4. req' = [req EXCEPT ![q] = s]
        BY <3>1
      <3> HIDE DEF s
      <3>5. req' \in [Request -> ReqStates]
        BY <1>s, <3>3, <3>4
      <3> QED BY <1>s, <2>1, <3>5, TypesKept
    <2> QED BY <2>2, <2>3
  <1>6. CASE PostDeleteUser(q)
    <2>1. users' \subseteq users /\ UNCHANGED <<lastId, sessions>>
      BY <1>6 DEF PostDeleteUser
    <2>2. req' \in [Request -> ReqStates]
      <3> SUFFICES ASSUME NEW p \in Request
                   PROVE  (IF p = q THEN Idle
                           ELSE [req[p] EXCEPT !.sure =
                              @ /\ (req[p].pc # "delete" \/ users = users')]) \in ReqStates
        BY <1>6 DEF PostDeleteUser
      <3>1. req[p] \in ReqStates
        BY <1>s
      <3> QED BY <3>1, IdleReq DEF ReqStates
    <2> QED BY <1>s, <2>1, <2>2, TypesKept
  <1> QED BY <1>1, <1>2, <1>3, <1>4, <1>5, <1>6 DEF Handler

LEMMA TypesNext ==
  ASSUME Types, [Next]_vars
  PROVE  Types'
  <1>s. sessions \in [Token -> 0..Ttl] /\ req \in [Request -> ReqStates]
    BY DEF Types
  <1>1. CASE Tick
    <2>1. UNCHANGED <<users, lastId, req>>
      BY <1>1 DEF Tick
    <2>2. \A t \in Token :
            (IF sessions[t] = 0 THEN 0 ELSE sessions[t] - 1) \in 0..Ttl
      BY <1>s, MaxIdOK
    <2>3. sessions' \in [Token -> 0..Ttl]
      BY <1>1, <2>2 DEF Tick
    <2> QED BY <1>s, <2>1, <2>3, TypesKept
  <1>2. CASE LimiterGc \/ UNCHANGED vars
    BY <1>2, <1>s, TypesKept DEF LimiterGc, vars
  <1>3. ASSUME NEW t \in Token, PostLogout(t) PROVE Types'
    <2>1. UNCHANGED <<users, lastId, req>> /\ sessions' \in [Token -> 0..Ttl]
      BY <1>3, <1>s, MaxIdOK DEF PostLogout
    <2> QED BY <1>s, <2>1, TypesKept
  <1>4. CASE Restart
    <2>1. /\ users' = users \cup {[id |-> lastId + 1, name |-> n] : n \in Unknown}
          /\ lastId' = lastId + Cardinality(Unknown)
          /\ lastId + Cardinality(Unknown) <= MaxId
      BY <1>4 DEF Restart
    <2>2. sessions' \in [Token -> 0..Ttl] /\ req' \in [Request -> ReqStates]
      BY <1>4, MaxIdOK, IdleReq DEF Restart
    <2>3. lastId \in Nat
      BY DEF Types
    <2>4. CASE Unknown = {}
      <3>1. users' = users /\ lastId' = lastId
        BY <2>1, <2>3, <2>4, FS_EmptySet
      <3> QED BY <2>2, <3>1, TypesKept
    <2>5. CASE Unknown # {}
      <3>1. PICK n : n \in Unknown
        BY <2>5
      <3>2. Unknown = {n} /\ n \in Username /\ \A u \in users : u.name # n
        BY <3>1, BootstrapAssumption DEF Unknown
      <3>3. Cardinality(Unknown) = 1
        BY <3>2, FS_Singleton
      <3>4. /\ users' = users \cup {[id |-> lastId + 1, name |-> n]}
            /\ lastId' = lastId + 1 /\ lastId < MaxId
        BY <2>1, <2>3, <3>2, <3>3, MaxIdOK
      <3> QED BY <2>2, <3>2, <3>4, TypesAdded
    <2> QED BY <2>4, <2>5
  <1> QED BY <1>1, <1>2, <1>3, <1>4, TypesHandler DEF Next

\* Variables hold what the code can store in them, and names and numbers of
\* users are unique.
THEOREM AccessTypeCorrect == Spec => []TypeOK
  <1>1. Types /\ Limited /\ IInv => TypeOK
    BY DEF Types, Limited, IInv, TypeOK, ReqStates
  <1>2. Spec => []Types
    BY TypesInit, TypesNext, PTL DEF Spec
  <1> QED BY <1>1, <1>2, LimiterAlways, Invariant, PTL

=============================================================================
