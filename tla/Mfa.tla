---------------------------------- MODULE Mfa ----------------------------------
(***************************************************************************)
(* The second factor of one user: enrolment, confirmation, and the codes a *)
(* login is accepted with (internal/http/mfa.go).                          *)
(*                                                                         *)
(* A one-time code stands for a 30-second step of the clock.  A request    *)
(* reads the user's row, tests the code against the clock, and only then   *)
(* writes: MarkUsed inserts the step, whose key is unique, and prunes      *)
(* older ones.  Requests run side by side and the clock goes on between    *)
(* their statements.  A secret is the number of its enrolment, 0 for none. *)
(***************************************************************************)
EXTENDS Integers, FiniteSets

CONSTANTS
    Phones,        \* requests that run side by side
    RecoveryCodes, \* of the user's enrolment
    MaxStep,       \* bound: clock steps
    MaxEnrolments, \* bound: secrets generated
    MaxUses        \* bound: codes a client submits

ASSUME MfaConstants ==
    /\ MaxStep \in Nat \ {0, 1} /\ MaxEnrolments \in Nat /\ MaxUses \in Nat
    /\ RecoveryCodes \cap (0 .. MaxStep) = {}

MFALeeway == 1
Steps     == 0 .. MaxStep
FirstStep == 2       \* the model's clock starts where every step is a number

VARIABLES
    clock,      \* the current step
    mfa,        \* the row of user_mfa: [secret, enabled, recovery]
    usedSteps,  \* used_totp_steps
    login,      \* a request between its statements, or NoLogin
    enrolments, uses,
    accepted,   \* history: how often each step, and each recovery code, was accepted
    heldOver,   \* history: the clock moved on under a request
    overlap,    \* history: the row was written while another request had read it
    confirmed   \* history: secrets a code was confirmed for

mfaVars == <<clock, mfa, usedSteps, login, enrolments, uses, accepted, heldOver,
             overlap, confirmed>>

NoLogin  == [kind |-> "none"]
Free(p)  == login[p] = NoLogin
Codes    == Steps \cup RecoveryCodes

MfaInit ==
    /\ clock = FirstStep
    /\ mfa = [secret |-> 0, enabled |-> FALSE, recovery |-> {}]
    /\ usedSteps = {}
    /\ login = [p \in Phones |-> NoLogin]
    /\ enrolments = 0 /\ uses = 0
    /\ accepted = [c \in Codes |-> 0]
    /\ heldOver = FALSE /\ overlap = FALSE
    /\ confirmed = {}

(* ValidateTOTPStep: the steps whose code is accepted at this moment.      *)
ValidSteps == {s \in Steps : clock - MFALeeway <= s /\ s <= clock + MFALeeway}

(* A slip: every older step is pruned.                                     *)
PrunedEarly(step) == {s \in usedSteps : s < step}

(* The steps MarkUsed deletes with its insert.                             *)
Pruned(step) == {s \in usedSteps : s < step - 2}

Overlaps(others) == overlap' = (overlap \/ \E q \in others : ~ Free(q))

MfaTick ==
    /\ clock < MaxStep
    /\ clock' = clock + 1
    /\ heldOver' = (heldOver \/ \E p \in Phones : ~ Free(p))
    /\ UNCHANGED <<mfa, usedSteps, login, enrolments, uses, accepted, overlap, confirmed>>

(* POST /me/mfa/setup: UpsertEnrollment replaces secret and codes and      *)
(* leaves the factor disabled.                                             *)
handleMFASetup ==
    /\ enrolments < MaxEnrolments
    /\ enrolments' = enrolments + 1
    /\ mfa' = [secret |-> enrolments + 1, enabled |-> FALSE, recovery |-> RecoveryCodes]
    /\ Overlaps(Phones)
    /\ UNCHANGED <<clock, usedSteps, login, uses, accepted, heldOver, confirmed>>

(* The row is read and the code tested, for a login, a confirmation or to  *)
(* switch the factor off.  A login needs an enabled factor.                *)
ReadAndValidate(p, kind, code) ==
    /\ Free(p) /\ uses < MaxUses /\ mfa.secret # 0
    /\ kind # "confirm" => mfa.enabled
    /\ \/ code \in ValidSteps
       \/ kind = "login" /\ code \in mfa.recovery
    /\ uses' = uses + 1
    /\ login' = [login EXCEPT ![p] = [kind |-> kind, code |-> code, secret |-> mfa.secret,
                                      recovery |-> mfa.recovery]]
    /\ UNCHANGED <<clock, mfa, usedSteps, enrolments, accepted, heldOver, overlap, confirmed>>

Accept(code) == accepted' = [accepted EXCEPT ![code] = @ + 1]

(* MarkUsed refuses a step that is recorded; the request then ends.        *)
MarkUsed(p) ==
    /\ login[p].kind \in {"login", "confirm"} /\ login[p].code \in Steps
    /\ LET step == login[p].code IN
       IF step \in usedSteps
       THEN /\ login' = [login EXCEPT ![p] = NoLogin]
            /\ UNCHANGED <<usedSteps, accepted>>
       ELSE /\ usedSteps' = (usedSteps \ Pruned(step)) \cup {step}
            /\ Accept(step)
            /\ login' = [login EXCEPT ![p] =
                            IF @.kind = "login" THEN NoLogin ELSE [@ EXCEPT !.kind = "enable"]]
    /\ UNCHANGED <<clock, mfa, enrolments, uses, heldOver, overlap, confirmed>>

(* SetRecoveryCodeHashes writes back the list read, less the code.         *)
SpendRecoveryCode(p) ==
    /\ login[p].kind = "login" /\ login[p].code \in RecoveryCodes
    /\ mfa' = [mfa EXCEPT !.recovery = login[p].recovery \ {login[p].code}]
    /\ Accept(login[p].code)
    /\ login' = [login EXCEPT ![p] = NoLogin]
    /\ Overlaps(Phones \ {p})
    /\ UNCHANGED <<clock, usedSteps, enrolments, uses, heldOver, confirmed>>

(* Enable sets the flag on whatever secret the row has now.                *)
Enable(p) ==
    /\ login[p].kind = "enable"
    /\ mfa' = [mfa EXCEPT !.enabled = TRUE]
    /\ confirmed' = confirmed \cup {login[p].secret}
    /\ login' = [login EXCEPT ![p] = NoLogin]
    /\ Overlaps(Phones \ {p})
    /\ UNCHANGED <<clock, usedSteps, enrolments, uses, accepted, heldOver>>

Disabled == [secret |-> 0, enabled |-> FALSE, recovery |-> {}]

(* DELETE /me/mfa, with a valid code, which is not marked.                 *)
handleMFADisable(p) ==
    /\ login[p].kind = "disable"
    /\ mfa' = Disabled
    /\ login' = [login EXCEPT ![p] = NoLogin]
    /\ Overlaps(Phones \ {p})
    /\ UNCHANGED <<clock, usedSteps, enrolments, uses, accepted, heldOver, confirmed>>

(* POST /users/:id/mfa/reset, by an administrator.                         *)
handleResetUserMFA ==
    /\ mfa.secret # 0
    /\ mfa' = Disabled
    /\ Overlaps(Phones)
    /\ UNCHANGED <<clock, usedSteps, login, enrolments, uses, accepted, heldOver, confirmed>>

MfaNext ==
    \/ MfaTick \/ handleMFASetup \/ handleResetUserMFA
    \/ \E p \in Phones :
          \/ \E c \in Codes, k \in {"login", "confirm", "disable"} : ReadAndValidate(p, k, c)
          \/ MarkUsed(p) \/ SpendRecoveryCode(p) \/ Enable(p) \/ handleMFADisable(p)

MfaSpec == MfaInit /\ [][MfaNext]_mfaVars

-----------------------------------------------------------------------------
MfaTypeOK ==
    /\ clock \in Steps
    /\ mfa \in [secret : 0 .. MaxEnrolments, enabled : BOOLEAN, recovery : SUBSET RecoveryCodes]
    /\ usedSteps \subseteq Steps
    /\ enrolments \in 0 .. MaxEnrolments /\ uses \in 0 .. MaxUses
    /\ accepted \in [Codes -> 0 .. MaxUses]
    /\ heldOver \in BOOLEAN /\ overlap \in BOOLEAN
    /\ confirmed \subseteq 1 .. MaxEnrolments
    /\ \A p \in Phones : Free(p) \/ login[p].secret \in 1 .. MaxEnrolments

(* A code is good for one login: MarkUsed may prune a step only when no    *)
(* request can still present it, so a step is accepted once unless a       *)
(* request was held up while the clock moved on, and a recovery code once  *)
(* unless the list was read and written by two requests at a time.  A      *)
(* factor that is on was confirmed with a code of the very secret, unless  *)
(* an enrolment replaced it under the confirmation.                        *)
CodesAreSpent ==
    /\ ~ heldOver => \A s \in Steps : accepted[s] <= 1
    /\ ~ overlap  => \A c \in RecoveryCodes : accepted[c] <= enrolments
    /\ ~ overlap /\ mfa.enabled => mfa.secret \in confirmed
=============================================================================
