---- MODULE Login ----
(***************************************************************************)
(* Setup, login, two-factor enrolment and sessions (src/auth/, src/web/    *)
(* handlers/auth.rs, account.rs and setup.rs, src/redfish/routes/          *)
(* session.rs).  There is one local user; requests of several clients run  *)
(* at a time and every table has a lock, or is a table of the database, of *)
(* its own.                                                                *)
(*                                                                         *)
(* Sessions, login challenges and secrets are numbers from one counter     *)
(* (Uuid::new_v4, Secret::generate_secret).  Whether a password or a code  *)
(* is right is an input of the request.                                    *)
(***************************************************************************)
EXTENDS Naturals, Sequences, FiniteSets

CONSTANTS
    LgWeb,        \* requests served at a time
    LgMaxFails,   \* MAX_FAILURES
    LgRevokedCap, \* the revoked sessions that are remembered: 32
    MaxLgReqs     \* bound: requests

ASSUME LgAssumption ==
    LgMaxFails \in Nat \ {0} /\ LgRevokedCap \in Nat \ {0} /\ MaxLgReqs \in Nat

VARIABLES
    lgReady,   \* config.initialized
    lgUsers,   \* rows of the table users
    lgMulti,   \* auth.single_user_allow_multiple_sessions
    lgTotp,    \* the secret in user_totp_credentials, 0 for none
    lgSess,    \* sessions
    lgGone,    \* revoked_sessions
    lgChal,    \* the login challenge of the user: [id, fails], id 0 for none
    lgEnrol,   \* enrollment_challenges: [session, secret]
    lgFails,   \* failures within the window
    lgTask,    \* per request: [pc, s, n], its session and a number it has read
    lgNext,    \* the next number
    lgReqs,
    lgUsed,    \* history: challenges that opened a session
    lgMixed    \* history: Redfish created a session

lgVars == <<lgReady, lgUsers, lgMulti, lgTotp, lgSess, lgGone, lgChal, lgEnrol, lgFails, lgTask,
            lgNext, lgReqs, lgUsed, lgMixed>>
lgConf == <<lgReady, lgUsers, lgMulti>>
lgFactor == <<lgTotp, lgChal, lgEnrol, lgFails>>
lgHist == <<lgUsed, lgMixed>>

LgRest == [pc |-> "idle", s |-> 0, n |-> 0]
NoChallenge == [id |-> 0, fails |-> 0]

LgInit ==
    /\ lgReady = FALSE /\ lgUsers = 0 /\ lgMulti \in BOOLEAN /\ lgTotp = 0
    /\ lgSess = {} /\ lgGone = <<>> /\ lgChal = NoChallenge /\ lgEnrol = {} /\ lgFails = 0
    /\ lgTask = [w \in LgWeb |-> LgRest] /\ lgNext = 1 /\ lgReqs = 0
    /\ lgUsed = <<>> /\ lgMixed = FALSE

LgGoes(w, t) == lgTask' = [lgTask EXCEPT ![w] = t]
LgAt(w, pc) == lgTask[w].pc = pc
LgTo(w, pc) == LgGoes(w, [lgTask[w] EXCEPT !.pc = pc])
LgArrives(w, t) == LgAt(w, "idle") /\ lgReqs < MaxLgReqs /\ lgReqs' = lgReqs + 1 /\ LgGoes(w, t)

\* single_user: an error when there are several.
SingleUser == lgUsers = 1

-----------------------------------------------------------------------------
\* setup_init: the same form may be sent twice.

SetupInit(w) ==
    /\ ~lgReady
    /\ LgArrives(w, [LgRest EXCEPT !.pc = "setup"])
    /\ UNCHANGED <<lgConf, lgFactor, lgSess, lgGone, lgNext, lgHist>>

\* create_first_user: is there one?
FindUser(w) ==
    /\ LgAt(w, "setup")
    /\ LgGoes(w, IF lgUsers = 0 THEN [LgRest EXCEPT !.pc = "insert_user"] ELSE LgRest)
    /\ UNCHANGED <<lgConf, lgFactor, lgSess, lgGone, lgNext, lgReqs, lgHist>>

\* INSERT INTO users: the user name is UNIQUE.
InsertUser(w) ==
    /\ LgAt(w, "insert_user")
    /\ IF lgUsers = 0 THEN lgUsers' = 1 /\ LgTo(w, "initialized")
       ELSE LgGoes(w, LgRest) /\ UNCHANGED lgUsers
    /\ UNCHANGED <<lgReady, lgMulti, lgFactor, lgSess, lgGone, lgNext, lgReqs, lgHist>>

\* The configuration is stored, which may fail; what setup starts after it is
\* modelled with its component.
SetupStored(w) ==
    /\ LgAt(w, "initialized")
    /\ lgReady' \in {TRUE, lgReady} /\ LgGoes(w, LgRest)
    /\ UNCHANGED <<lgUsers, lgMulti, lgFactor, lgSess, lgGone, lgNext, lgReqs, lgHist>>

-----------------------------------------------------------------------------
\* login, login_totp

\* login: the password is right.
LoginVerify(w) ==
    /\ lgReady /\ SingleUser
    /\ LgArrives(w, [LgRest EXCEPT !.pc = IF lgTotp = 0 THEN "create" ELSE "challenge"])
    /\ UNCHANGED <<lgConf, lgFactor, lgSess, lgGone, lgNext, lgHist>>

\* begin_login: the new challenge replaces the one before it.
BeginLogin(w) ==
    /\ LgAt(w, "challenge")
    /\ lgChal' = [id |-> lgNext, fails |-> 0] /\ lgNext' = lgNext + 1
    /\ LgGoes(w, LgRest)
    /\ UNCHANGED <<lgConf, lgTotp, lgEnrol, lgFails, lgSess, lgGone, lgReqs, lgHist>>

\* complete_login: the challenge is there and not expired, and the limit of
\* failures is not reached.
CompleteLogin(w) ==
    /\ lgChal.id # 0 /\ lgFails < LgMaxFails
    /\ LgArrives(w, [LgRest EXCEPT !.pc = "verify", !.n = lgChal.id])
    /\ UNCHANGED <<lgConf, lgFactor, lgSess, lgGone, lgNext, lgHist>>

\* It is expired and removed.
ChallengeExpires ==
    /\ lgChal.id # 0 /\ lgChal' = NoChallenge
    /\ UNCHANGED <<lgConf, lgTotp, lgEnrol, lgFails, lgSess, lgGone, lgTask, lgNext, lgReqs, lgHist>>

\* The code is compared with the credential, if that is still there.
VerifyCode(w) ==
    /\ LgAt(w, "verify")
    /\ \/ lgTotp # 0 /\ LgTo(w, "consume") /\ UNCHANGED lgChal
       \/ lgTotp # 0 /\ LgTo(w, "wrong") /\ UNCHANGED lgChal
       \/ lgTotp = 0 /\ lgChal' = NoChallenge /\ LgGoes(w, LgRest)
    /\ UNCHANGED <<lgConf, lgTotp, lgEnrol, lgFails, lgSess, lgGone, lgNext, lgReqs, lgHist>>

\* A wrong code counts for the user and for the challenge of the moment.
WrongCode(w) ==
    /\ LgAt(w, "wrong")
    /\ lgFails' = lgFails + 1 /\ LgGoes(w, LgRest)
    /\ lgChal' = IF lgChal.id = 0 \/ lgChal.fails + 1 >= LgMaxFails THEN NoChallenge
                 ELSE [lgChal EXCEPT !.fails = @ + 1]
    /\ UNCHANGED <<lgConf, lgTotp, lgEnrol, lgSess, lgGone, lgNext, lgReqs, lgHist>>

\* The window of the failures passes.
WindowPasses ==
    /\ lgFails > 0 /\ lgFails' = 0
    /\ UNCHANGED <<lgConf, lgTotp, lgChal, lgEnrol, lgSess, lgGone, lgTask, lgNext, lgReqs, lgHist>>

\* Mutant of ConsumeChallenge: what remove returned is not looked at.
ConsumeChallenge_Any(w) ==
    /\ LgAt(w, "consume")
    /\ lgChal' = NoChallenge
    /\ LgTo(w, "create") /\ lgUsed' = Append(lgUsed, lgTask[w].n)
    /\ UNCHANGED <<lgConf, lgTotp, lgEnrol, lgFails, lgSess, lgGone, lgNext, lgReqs, lgMixed>>

\* The challenge of the user is removed, and must have been this one.
ConsumeChallenge(w) ==
    /\ LgAt(w, "consume")
    /\ lgChal' = NoChallenge
    /\ IF lgChal.id = lgTask[w].n
       THEN LgTo(w, "create") /\ lgUsed' = Append(lgUsed, lgTask[w].n)
       ELSE LgGoes(w, LgRest) /\ UNCHANGED lgUsed
    /\ UNCHANGED <<lgConf, lgTotp, lgEnrol, lgFails, lgSess, lgGone, lgNext, lgReqs, lgMixed>>

\* remember_revoked_sessions.
Remember(ids) ==
    LET all == lgGone \o ids IN
    lgGone' = SubSeq(all, IF Len(all) > LgRevokedCap THEN Len(all) - LgRevokedCap + 1 ELSE 1, Len(all))

RevokedIds(S) == CHOOSE q \in [1..Cardinality(S) -> S] : \A i, j \in DOMAIN q : i < j => q[i] < q[j]

\* create_authenticated_session: create_for_login under one lock; the revoked
\* ones are remembered after it.
CreateForLogin(w) ==
    /\ LgAt(w, "create")
    /\ lgSess' = IF lgMulti THEN lgSess \cup {lgNext} ELSE {lgNext}
    /\ lgNext' = lgNext + 1
    /\ Remember(IF lgMulti THEN <<>> ELSE RevokedIds(lgSess))
    /\ LgGoes(w, LgRest)
    /\ UNCHANGED <<lgConf, lgFactor, lgReqs, lgHist>>

\* logout, the session_delete of Redfish, and a session that get finds expired.
SessionEnds(s) ==
    /\ s \in lgSess /\ lgSess' = lgSess \ {s}
    /\ UNCHANGED <<lgConf, lgFactor, lgGone, lgTask, lgNext, lgReqs, lgHist>>

\* session_create of Redfish: the password is right; the others are removed
\* first, when several are not allowed.
RedfishCreate(w) ==
    /\ SingleUser /\ LgArrives(w, [LgRest EXCEPT !.pc = "rf_create"])
    /\ lgMixed' = TRUE
    /\ IF lgMulti THEN UNCHANGED <<lgSess, lgGone>> ELSE lgSess' = {} /\ Remember(RevokedIds(lgSess))
    /\ UNCHANGED <<lgConf, lgFactor, lgNext, lgUsed>>

RedfishCreated(w) ==
    /\ LgAt(w, "rf_create")
    /\ lgSess' = lgSess \cup {lgNext} /\ lgNext' = lgNext + 1 /\ LgGoes(w, LgRest)
    /\ UNCHANGED <<lgConf, lgFactor, lgGone, lgReqs, lgHist>>

-----------------------------------------------------------------------------
\* Two-factor enrolment, by a client with a session (auth_middleware)

\* auth_middleware: the session is one of those there are.
Authenticated(s) == s \in lgSess

\* begin_totp_enrollment: the password is right and there is no credential.
BeginEnrollment(w, s) ==
    /\ Authenticated(s) /\ SingleUser /\ lgTotp = 0
    /\ LgArrives(w, [LgRest EXCEPT !.pc = "enrol", !.s = s])
    /\ UNCHANGED <<lgConf, lgFactor, lgSess, lgGone, lgNext, lgHist>>

\* A secret is shown; the enrolment the session had is replaced.
EnrollmentShown(w) ==
    LET s == lgTask[w].s IN
    /\ LgAt(w, "enrol")
    /\ lgEnrol' = {e \in lgEnrol : e.session # s} \cup {[session |-> s, secret |-> lgNext]}
    /\ lgNext' = lgNext + 1 /\ LgGoes(w, LgRest)
    /\ UNCHANGED <<lgConf, lgTotp, lgChal, lgFails, lgSess, lgGone, lgReqs, lgHist>>

\* confirm_enrollment: the code fits the secret that was shown to the session.
ConfirmEnrollment(w, e) ==
    /\ Authenticated(e.session) /\ SingleUser /\ lgFails < LgMaxFails
    /\ LgArrives(w, [pc |-> "store", s |-> e.session, n |-> e.secret])
    /\ UNCHANGED <<lgConf, lgFactor, lgSess, lgGone, lgNext, lgHist>>

\* A wrong code, which may be one too many, or the enrolment is expired.
EnrollmentFails(w, e) ==
    /\ Authenticated(e.session) /\ lgFails < LgMaxFails
    /\ LgArrives(w, LgRest)
    /\ lgFails' \in {lgFails, lgFails + 1} /\ lgEnrol' \in {lgEnrol, lgEnrol \ {e}}
    /\ UNCHANGED <<lgConf, lgTotp, lgChal, lgSess, lgGone, lgNext, lgHist>>

\* INSERT: user_id is the PRIMARY KEY, a second credential is a conflict.
StoreCredential(w) ==
    /\ LgAt(w, "store")
    /\ IF lgTotp = 0
       THEN lgTotp' = lgTask[w].n /\ LgTo(w, "revoke") /\ lgEnrol' = {e \in lgEnrol : e.session # lgTask[w].s}
       ELSE LgGoes(w, LgRest) /\ UNCHANGED <<lgTotp, lgEnrol>>
    /\ UNCHANGED <<lgConf, lgChal, lgFails, lgSess, lgGone, lgNext, lgReqs, lgHist>>

\* disable: the password and the code are right, or the code is not.
DisableTotp(w, s) ==
    /\ Authenticated(s) /\ SingleUser /\ lgTotp # 0 /\ lgFails < LgMaxFails
    /\ \/ LgArrives(w, [LgRest EXCEPT !.pc = "delete", !.s = s]) /\ UNCHANGED lgFails
       \/ LgArrives(w, LgRest) /\ lgFails' = lgFails + 1
    /\ UNCHANGED <<lgConf, lgTotp, lgChal, lgEnrol, lgSess, lgGone, lgNext, lgHist>>

\* DELETE, and clear_user_challenges; no row is a conflict.
DeleteCredential(w) ==
    /\ LgAt(w, "delete")
    /\ IF lgTotp # 0
       THEN lgTotp' = 0 /\ lgChal' = NoChallenge /\ lgEnrol' = {} /\ lgFails' = 0 /\ LgTo(w, "revoke")
       ELSE LgGoes(w, LgRest) /\ UNCHANGED lgFactor
    /\ UNCHANGED <<lgConf, lgSess, lgGone, lgNext, lgReqs, lgHist>>

\* The user command of the program, in a process of its own: the challenges
\* of the server stay.
CliDisable ==
    /\ lgTotp # 0 /\ lgReqs < MaxLgReqs /\ lgReqs' = lgReqs + 1 /\ lgTotp' = 0
    /\ UNCHANGED <<lgConf, lgChal, lgEnrol, lgFails, lgSess, lgGone, lgTask, lgNext, lgHist>>

\* revoke_other_sessions.
RevokeOthers(w) ==
    /\ LgAt(w, "revoke")
    /\ lgSess' = lgSess \cap {lgTask[w].s} /\ Remember(RevokedIds(lgSess \ {lgTask[w].s}))
    /\ LgGoes(w, LgRest)
    /\ UNCHANGED <<lgConf, lgFactor, lgNext, lgReqs, lgHist>>

LgNext ==
    \/ \E w \in LgWeb :
          \/ SetupInit(w) \/ FindUser(w) \/ InsertUser(w) \/ SetupStored(w)
          \/ LoginVerify(w) \/ BeginLogin(w) \/ CompleteLogin(w) \/ VerifyCode(w) \/ WrongCode(w)
          \/ ConsumeChallenge(w) \/ CreateForLogin(w) \/ RedfishCreate(w) \/ RedfishCreated(w)
          \/ EnrollmentShown(w) \/ StoreCredential(w) \/ DeleteCredential(w) \/ RevokeOthers(w)
          \/ \E s \in lgSess : BeginEnrollment(w, s) \/ DisableTotp(w, s)
          \/ \E e \in lgEnrol : ConfirmEnrollment(w, e) \/ EnrollmentFails(w, e)
    \/ \E s \in lgSess : SessionEnds(s)
    \/ ChallengeExpires \/ WindowPasses \/ CliDisable

LgSpec == LgInit /\ [][LgNext]_lgVars

-----------------------------------------------------------------------------

\* A form of setup that is sent twice makes one user: with two, single_user
\* fails and nobody can log in any more.  The program counts as set up only
\* when there is a user to log in as.
OneUserIsSetUp == lgUsers <= 1 /\ (lgReady => lgUsers = 1)

\* Requests that complete the same challenge at the same time open one
\* session between them.
ChallengeUsedOnce == \A i, j \in DOMAIN lgUsed : lgUsed[i] = lgUsed[j] => i = j

\* Where several sessions are not allowed, logins that overlap leave one.
\* (session_create of Redfish removes the others and creates its own under two
\* locks, and may leave two.)
LoginLeavesOneSession == ~lgMulti /\ ~lgMixed => Cardinality(lgSess) <= 1

\* Two clients enrol at the same time: the secret that was stored first is not
\* replaced by the other's, so the authenticator that was told it is enabled
\* goes on working until two-factor login is disabled.
CredentialStays == [][lgTotp # 0 /\ lgTotp' # 0 => lgTotp' = lgTotp]_lgVars

\* What login promises: one user is set up however often set-up is submitted, a
\* challenge opens one session at most, a login under single-session mode leaves
\* one session, and a credential once enrolled is only replaced after it was
\* removed.
LoginPromise == [](OneUserIsSetUp /\ ChallengeUsedOnce /\ LoginLeavesOneSession) /\ CredentialStays
====
