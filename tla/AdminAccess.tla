----------------------------- MODULE AdminAccess -----------------------------
(***************************************************************************)
(* Who gets into the dashboard: the table users, the sessions and the      *)
(* failed logins that the server keeps in memory, and the handlers that    *)
(* log in and out and that create and delete users.  The maps are behind   *)
(* a mutex each and a store call is one statement; nothing is held from    *)
(* one such step of a handler to the next.                                 *)
(*                                                                         *)
(* Time is kept as the age of failures and the remaining life of sessions. *)
(* Failures are counted per address; one address stands for each.          *)
(***************************************************************************)
EXTENDS Naturals, FiniteSets, Sequences

CONSTANTS
    Username,   \* names of users
    Bootstrap,  \* the name the environment configures, if it does
    Token,      \* sessions that can exist at once
    Ttl,        \* life of a session
    Window,     \* loginWindow
    MaxFails,   \* loginMaxFails
    MaxId,      \* bound on the users ever created
    Request     \* handlers that can be under way at once

ASSUME BootstrapAssumption ==
    Bootstrap \subseteq Username /\ \A m, n \in Bootstrap : m = n
ASSUME TimesAssumption == {Ttl, Window, MaxFails, MaxId} \subseteq Nat \ {0}
ASSUME RequestAssumption == IsFiniteSet(Request)

User == [id: 1..MaxId, name: Username]
Age == 0..(Window + 1)  \* Window + 1 stands for every greater age

VARIABLES
    users,     \* the table
    lastId,    \* the last id AUTOINCREMENT gave
    sessions,  \* remaining life of each session, 0 if there is none
    fails,     \* the limiter's failures, oldest first
    failed,    \* history: the failures of the present window
    req,       \* the handlers
    raced      \* history: the last user went by a deletion whose count
               \* another deletion had made wrong

vars == <<users, lastId, sessions, fails, failed, req, raced>>

Idle == [pc |-> "idle", id |-> 0, sure |-> TRUE]

\* bootstrapAdmin: an upsert by name, and nothing if the environment is silent.
Unknown == {n \in Bootstrap : \A u \in users : u.name # n}

\* A server that was set up: with the user of the environment, or with one
\* that an earlier start has made.
Init ==
    /\ lastId = 1
    /\ \E n \in Username :
        /\ Bootstrap \subseteq {n}
        /\ users = {[id |-> 1, name |-> n]}
    /\ sessions = [t \in Token |-> 0]
    /\ fails = <<>> /\ failed = <<>>
    /\ req = [q \in Request |-> Idle]
    /\ raced = FALSE

Goto(q, pc) == req' = [req EXCEPT ![q] = [Idle EXCEPT !.pc = pc]]

-----------------------------------------------------------------------------
(* The limiter: a sliding window of failures.                              *)

\* The failures before the first that is in the window.
Past(ages) == {i \in DOMAIN ages : \A j \in 1..i : ages[j] > Window}

InWindow(ages) == SubSeq(ages, Cardinality(Past(ages)) + 1, Len(ages))

\* Blocked attempts and successes leave no trace.
Allowed == Len(InWindow(fails)) < MaxFails

\* Mutant: everything goes when the oldest failure has left the window.
GcByOldest == fails # <<>> /\ fails[1] > Window

\* The entry of an address goes when its latest failure has left the window.
GcDue == fails # <<>> /\ fails[Len(fails)] > Window

LimiterGc ==
    /\ GcDue
    /\ fails' = <<>>
    /\ UNCHANGED <<users, lastId, sessions, failed, req, raced>>

Aged(ages) ==
    [i \in DOMAIN ages |-> IF ages[i] > Window THEN ages[i] ELSE ages[i] + 1]

\* Failures that have left the window are kept until the collection or a
\* blocked attempt drops them; one stands for all of them.
Older(ages) ==
    LET young == InWindow(Aged(ages))
    IN  IF young = Aged(ages) THEN young ELSE <<Window + 1>> \o young

Tick ==
    /\ fails' = Older(fails)
    /\ failed' = InWindow(Older(failed))
    /\ sessions' = [t \in Token |-> IF sessions[t] = 0 THEN 0 ELSE sessions[t] - 1]
    /\ UNCHANGED <<users, lastId, req, raced>>

-----------------------------------------------------------------------------
(* postLogin, postLogout and requireAdmin.                                 *)

\* Mutant: a blocked attempt counts as a failure.
LoginBlockedRecords(q) ==
    /\ req[q].pc = "idle"
    /\ ~Allowed
    /\ Goto(q, "record")
    /\ UNCHANGED <<users, lastId, sessions, fails, failed, raced>>

\* A blocked attempt drops what has left the window.
LoginBlocked(q) ==
    /\ req[q].pc = "idle"
    /\ ~Allowed
    /\ fails' = InWindow(fails)
    /\ UNCHANGED <<users, lastId, sessions, failed, req, raced>>

LoginAllowed(q) ==
    /\ req[q].pc = "idle"
    /\ Allowed
    /\ Goto(q, "verify")
    /\ UNCHANGED <<users, lastId, sessions, fails, failed, raced>>

\* GetUserByUsername and VerifyPassword, with a right or a wrong password, or
\* a form that cannot be read, which is not counted.
LoginVerify(q) ==
    /\ req[q].pc = "verify"
    /\ \/ users # {} /\ Goto(q, "login")
       \/ Goto(q, "record")
       \/ Goto(q, "idle")
    /\ UNCHANGED <<users, lastId, sessions, fails, failed, raced>>

\* The session is made whatever has become of the user meanwhile.
LoginSession(q) ==
    /\ req[q].pc = "login"
    /\ \E t \in Token :
        /\ sessions[t] = 0
        /\ sessions' = [sessions EXCEPT ![t] = Ttl]
    /\ Goto(q, "idle")
    /\ UNCHANGED <<users, lastId, fails, failed, raced>>

LoginRecord(q) ==
    /\ req[q].pc = "record"
    /\ fails' = Append(fails, 0)
    /\ failed' = Append(failed, 0)
    /\ Goto(q, "idle")
    /\ UNCHANGED <<users, lastId, sessions, raced>>

PostLogout(t) ==
    /\ sessions[t] > 0
    /\ sessions' = [sessions EXCEPT ![t] = 0]
    /\ UNCHANGED <<users, lastId, fails, failed, req, raced>>

\* requireAdmin looks at the session once, before the handler.
RequireAdmin(q) ==
    /\ req[q].pc = "idle"
    /\ \E t \in Token : sessions[t] > 0
    /\ Goto(q, "admin")
    /\ UNCHANGED <<users, lastId, sessions, fails, failed, raced>>

-----------------------------------------------------------------------------
(* postCreateUser and postDeleteUser.                                      *)

\* Mutant: a name may be taken.
PostCreateUserAnyName(q) ==
    /\ req[q].pc = "admin"
    /\ lastId < MaxId
    /\ \E n \in Username : users' = users \cup {[id |-> lastId + 1, name |-> n]}
    /\ lastId' = lastId + 1
    /\ raced' = FALSE
    /\ Goto(q, "idle")
    /\ UNCHANGED <<sessions, fails, failed>>

PostCreateUser(q) ==
    /\ req[q].pc = "admin"
    /\ lastId < MaxId
    /\ \E n \in Username :
        /\ \A u \in users : u.name # n
        /\ users' = users \cup {[id |-> lastId + 1, name |-> n]}
    /\ lastId' = lastId + 1
    /\ raced' = FALSE
    /\ Goto(q, "idle")
    /\ UNCHANGED <<sessions, fails, failed>>

\* Mutant: the last user is not spared.
SpareNobody == users # {}

\* CountUsers
MoreThanOneUser == Cardinality(users) > 1

\* The id of the form may be that of a user who is gone.
PostDeleteUserCounts(q) ==
    /\ req[q].pc = "admin"
    /\ IF MoreThanOneUser
       THEN \E id \in 1..lastId :
                req' = [req EXCEPT ![q] = [Idle EXCEPT !.pc = "delete", !.id = id]]
       ELSE Goto(q, "idle")
    /\ UNCHANGED <<users, lastId, sessions, fails, failed, raced>>

\* DeleteUser, or its error if there is no such user.  What other handlers
\* have counted is not sure any more.
PostDeleteUser(q) ==
    /\ req[q].pc = "delete"
    /\ users' = {u \in users : u.id # req[q].id}
    /\ raced' = (raced \/ (users' = {} /\ ~req[q].sure))
    /\ req' = [p \in Request |->
                IF p = q THEN Idle
                ELSE [req[p] EXCEPT !.sure =
                        @ /\ (req[p].pc # "delete" \/ users = users')]]
    /\ UNCHANGED <<lastId, sessions, fails, failed>>

\* The request is cancelled, a form field is missing or the store fails.
PostFails(q) ==
    /\ req[q].pc \in {"login", "admin", "delete"}
    /\ Goto(q, "idle")
    /\ UNCHANGED <<users, lastId, sessions, fails, failed, raced>>

-----------------------------------------------------------------------------
(* Sessions and failures are in memory only.                               *)

Restart ==
    /\ lastId + Cardinality(Unknown) <= MaxId
    /\ users' = users \cup {[id |-> lastId + 1, name |-> n] : n \in Unknown}
    /\ lastId' = lastId + Cardinality(Unknown)
    /\ sessions' = [t \in Token |-> 0]
    /\ fails' = <<>> /\ failed' = <<>>
    /\ req' = [q \in Request |-> Idle]
    /\ raced' = (raced /\ Unknown = {})

Handler(q) ==
    \/ LoginBlocked(q) \/ LoginAllowed(q) \/ LoginVerify(q)
    \/ LoginSession(q) \/ LoginRecord(q)
    \/ RequireAdmin(q) \/ PostCreateUser(q)
    \/ PostDeleteUserCounts(q) \/ PostDeleteUser(q) \/ PostFails(q)

Next ==
    \/ Tick \/ LimiterGc \/ Restart
    \/ \E t \in Token : PostLogout(t)
    \/ \E q \in Request : Handler(q)

Spec == Init /\ [][Next]_vars

\* Time passes.  Nobody has to log in, and no handler has to answer.
FairSpec == Spec /\ WF_vars(Tick)

-----------------------------------------------------------------------------
(* Properties.                                                             *)

\* Variables hold what the code can store in them; names and ids are unique.
TypeOK ==
    /\ users \subseteq User
    /\ \A u, v \in users : u.id = v.id \/ u.name = v.name => u = v
    /\ lastId \in 1..MaxId
    /\ sessions \in [Token -> 0..Ttl]
    /\ fails \in Seq(Age) /\ failed \in Seq(0..Window)
    /\ req \in [Request ->
        [pc: {"idle", "verify", "login", "record", "admin", "delete"},
         id: 0..MaxId, sure: BOOLEAN]]
    /\ raced \in BOOLEAN

\* "Cannot delete the last user": whatever is created and deleted, some user
\* remains unless two deletions overlapped.
LastUserStaysUnlessRaced == users # {} \/ raced

\* The same without the exception.
LastUserStays == users # {}

\* In no window do more attempts fail than the limit and those that were being
\* verified when it was reached: what the limiter drops, in either of two
\* places, never lets more of them through.
FailuresBounded == Len(failed) < MaxFails + Cardinality(Request)

\* "Try again in a minute": a blocked address is not blocked for ever, however
\* often it tries.
LimiterReleases == ~Allowed ~> Allowed
=============================================================================
