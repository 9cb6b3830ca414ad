---------------------------------- MODULE Otp ----------------------------------
(***************************************************************************)
(* OtpService for one phone: requestOtp and verifyOtp on three Redis keys, *)
(* the code, the counter of guesses and the counter of requests.           *)
(*                                                                         *)
(* Every Redis command is atomic and every handler issues several; other   *)
(* handlers run, keys expire, and a handler may die, between any two.  The *)
(* account and plan checks are one step that may refuse.                   *)
(* Names start with "Otp" where Sessions has one of its own: the two are   *)
(* model-checked by one configuration.                                     *)
(***************************************************************************)
EXTENDS Integers, FiniteSets

CONSTANTS
    Handlers,       \* requests served at the same time
    OtpMaxRequests, \* OTP_MAX_REQUESTS_PER_WINDOW: 3
    MaxGuesses,     \* OTP_MAX_VERIFY_ATTEMPTS: 5
    MaxCodes,       \* bound: codes generated
    MaxServed,      \* bound: requests served
    MaxDeaths       \* bound: handlers that die, keys that expire

ASSUME OtpAssumption ==
    /\ IsFiniteSet(Handlers)
    /\ {OtpMaxRequests, MaxGuesses, MaxCodes, MaxServed, MaxDeaths} \subseteq Nat

VARIABLES
    code,       \* the code in force, 0 for none; codes are numbered
    issued,     \* codes generated
    attempts,   \* the counter of guesses, its TTL, and whether it was there
                \* before the code in force was set
    requests,   \* the counter of requests and its TTL
    handler,    \* per handler: the request it serves
    served,   \* counted against MaxServed
    deaths,     \* counted against MaxDeaths
    guesses,    \* history, per code: guesses it was compared with
    forgiven,   \* history, per code: guesses the counter no longer counts
    sessions,   \* history, per code: sessions opened with it
    raced,      \* history, per code: verifications that found it gone at the end
    stranded    \* history: a handler died before it gave a counter its TTL

otpVars == <<code, issued, attempts, requests, handler, served, deaths, guesses,
             forgiven, sessions, raced, stranded>>
otpHistory == <<guesses, forgiven, sessions, raced, stranded>>

Codes == 1 .. MaxCodes

\* A verification has counted its guess and not compared it yet at "window" and
\* "compare"; "free": the counter was reset since.  Code 0 is a wrong guess.
RequestOtp == [op : {"request"}, step : {"ttl", "limit", "set", "reset"}, count : Nat]
VerifyOtp == [op : {"verify"}, step : {"ttl", "limit", "compare", "account", "spend"},
              count : Nat, guess : {0} \cup Codes, free : BOOLEAN]
Quiet == [op |-> "none"]

OtpTypeOK ==
    /\ code \in {0} \cup Codes
    /\ issued \in 0 .. MaxCodes
    /\ attempts \in [count : Nat, ttl : BOOLEAN, older : BOOLEAN]
    /\ requests \in [count : Nat, ttl : BOOLEAN]
    /\ handler \in [Handlers -> RequestOtp \cup VerifyOtp \cup {Quiet}]
    /\ guesses \in [Codes -> Nat]
    /\ forgiven \in [Codes -> Nat]
    /\ sessions \in [Codes -> Nat]
    /\ raced \in [Codes -> Nat]
    /\ stranded \in BOOLEAN

NoAttempts == [count |-> 0, ttl |-> FALSE, older |-> FALSE]
NoRequests == [count |-> 0, ttl |-> FALSE]

OtpInit ==
    /\ code = 0
    /\ issued = 0
    /\ attempts = NoAttempts
    /\ requests = NoRequests
    /\ handler = [h \in Handlers |-> Quiet]
    /\ served = 0
    /\ deaths = 0
    /\ guesses = [c \in Codes |-> 0]
    /\ forgiven = [c \in Codes |-> 0]
    /\ sessions = [c \in Codes |-> 0]
    /\ raced = [c \in Codes |-> 0]
    /\ stranded = FALSE

Serves(h, op, step) == handler[h].op = op /\ handler[h].step = step
Step(h, step) == handler' = [handler EXCEPT ![h].step = step]
Answer(h) == handler' = [handler EXCEPT ![h] = Quiet]

\* del of the counter of guesses: the guesses made so far count no more.
ResetAttempts(handlers) ==
    /\ attempts' = NoAttempts
    /\ handler' = [h \in Handlers |->
           IF handlers[h].op = "verify" THEN [handlers[h] EXCEPT !.free = TRUE]
           ELSE handlers[h]]
    /\ forgiven' = [c \in Codes |-> IF c = code THEN guesses[c] ELSE forgiven[c]]

-----------------------------------------------------------------------------
(* requestOtp.                                                             *)

\* Fault: the first request is taken for one that is not.
Fault_NoTtl(count, then) == then
\* incr, and expire when the key is new.
AfterIncr(count, then) == IF count = 1 THEN "ttl" ELSE then

CountRequest(h) ==
    /\ handler[h] = Quiet
    /\ served < MaxServed
    /\ served' = served + 1
    /\ requests' = [requests EXCEPT !.count = @ + 1]
    /\ handler' = [handler EXCEPT ![h] =
           [op |-> "request", step |-> AfterIncr(requests.count + 1, "limit"),
            count |-> requests.count + 1]]
    /\ UNCHANGED <<code, issued, attempts, deaths, otpHistory>>

SetRequestsTtl(h) ==
    /\ Serves(h, "request", "ttl")
    /\ requests' = IF requests.count = 0 THEN requests ELSE [requests EXCEPT !.ttl = TRUE]
    /\ Step(h, "limit")
    /\ UNCHANGED <<code, issued, attempts, served, deaths, otpHistory>>

\* Too many requests, or a phone no customer has.
RequestEndsEarly(h) ==
    /\ Serves(h, "request", "limit")
    /\ Answer(h)
    /\ UNCHANGED <<code, issued, attempts, requests, served, deaths, otpHistory>>

RequestAllowed(h) ==
    /\ Serves(h, "request", "limit")
    /\ handler[h].count <= OtpMaxRequests
    /\ Step(h, "set")
    /\ UNCHANGED <<code, issued, attempts, requests, served, deaths, otpHistory>>

SetCode(h) ==
    /\ Serves(h, "request", "set")
    /\ issued < MaxCodes
    /\ issued' = issued + 1
    /\ code' = issued + 1
    /\ attempts' = [attempts EXCEPT !.older = attempts.count > 0]
    /\ Step(h, "reset")
    /\ UNCHANGED <<requests, served, deaths, otpHistory>>

\* "del attempts" follows "set code" in a command of its own.
ResetAfterCode(h) ==
    /\ Serves(h, "request", "reset")
    /\ ResetAttempts([handler EXCEPT ![h] = Quiet])
    /\ UNCHANGED <<code, issued, requests, served, deaths, guesses, sessions, raced,
                   stranded>>

-----------------------------------------------------------------------------
(* verifyOtp.                                                              *)

CountGuess(h) ==
    /\ handler[h] = Quiet
    /\ served < MaxServed
    /\ served' = served + 1
    /\ attempts' = [attempts EXCEPT !.count = @ + 1]
    /\ \E guess \in 0 .. issued :
          handler' = [handler EXCEPT ![h] =
              [op |-> "verify", step |-> AfterIncr(attempts.count + 1, "limit"),
               count |-> attempts.count + 1, guess |-> guess, free |-> FALSE]]
    /\ UNCHANGED <<code, issued, requests, deaths, otpHistory>>

SetAttemptsTtl(h) ==
    /\ Serves(h, "verify", "ttl")
    /\ attempts' = IF attempts.count = 0 THEN attempts ELSE [attempts EXCEPT !.ttl = TRUE]
    /\ Step(h, "limit")
    /\ UNCHANGED <<code, issued, requests, served, deaths, otpHistory>>

\* Fault: guesses are counted and never refused.
Fault_AnyNumber(count) == FALSE
TooMany(count) == count > MaxGuesses

\* The guess over the limit takes the code away.
TooManyGuesses(h) ==
    /\ Serves(h, "verify", "limit")
    /\ TooMany(handler[h].count)
    /\ code' = 0
    /\ Answer(h)
    /\ UNCHANGED <<issued, attempts, requests, served, deaths, otpHistory>>

GuessAllowed(h) ==
    /\ Serves(h, "verify", "limit")
    /\ ~TooMany(handler[h].count)
    /\ Step(h, "compare")
    /\ UNCHANGED <<code, issued, attempts, requests, served, deaths, otpHistory>>

Compare(h) ==
    /\ Serves(h, "verify", "compare")
    /\ LET right == code # 0 /\ handler[h].guess = code
       IN handler' = [handler EXCEPT ![h] =
              IF right THEN [handler[h] EXCEPT !.step = "account"] ELSE Quiet]
    /\ guesses' = [c \in Codes |-> IF c = code THEN guesses[c] + 1 ELSE guesses[c]]
    /\ forgiven' = [c \in Codes |->
           IF c = code /\ handler[h].free THEN forgiven[c] + 1 ELSE forgiven[c]]
    /\ UNCHANGED <<code, issued, attempts, requests, served, deaths, sessions, raced,
                   stranded>>

\* The customer is gone or switched off, or the plan has no PWA: the code stays.
AccountRefused(h) ==
    /\ Serves(h, "verify", "account")
    /\ Answer(h)
    /\ UNCHANGED <<code, issued, attempts, requests, served, deaths, otpHistory>>

AccountFound(h) ==
    /\ Serves(h, "verify", "account")
    /\ Step(h, "spend")
    /\ UNCHANGED <<code, issued, attempts, requests, served, deaths, otpHistory>>

\* del of both keys, whatever they hold by now; the session follows.
Spent == 0

SpendCode(h) ==
    /\ Serves(h, "verify", "spend")
    /\ LET c == handler[h].guess
       IN /\ sessions' = [sessions EXCEPT ![c] = @ + 1]
          /\ raced' = IF code # c THEN [raced EXCEPT ![c] = @ + 1] ELSE raced
    /\ code' = Spent
    /\ ResetAttempts([handler EXCEPT ![h] = Quiet])
    /\ UNCHANGED <<issued, requests, served, deaths, guesses, stranded>>

-----------------------------------------------------------------------------
(* Time and failure.  A code lives 300 seconds, a counter of guesses 900:  *)
(* one that was made after the code outlives it.                           *)

Death == deaths < MaxDeaths /\ deaths' = deaths + 1

CodeExpires ==
    /\ code # 0
    /\ Death
    /\ code' = 0
    /\ UNCHANGED <<issued, attempts, requests, handler, served, otpHistory>>

AttemptsExpire ==
    /\ attempts.ttl
    /\ attempts.older \/ code = 0
    /\ Death
    /\ ResetAttempts(handler)
    /\ UNCHANGED <<code, issued, requests, served, guesses, sessions, raced, stranded>>

RequestsExpire ==
    /\ requests.ttl
    /\ Death
    /\ requests' = NoRequests
    /\ UNCHANGED <<code, issued, attempts, handler, served, otpHistory>>

HandlerDies(h) ==
    /\ handler[h] # Quiet
    /\ Death
    /\ stranded' = (stranded \/ Serves(h, "request", "ttl"))
    /\ Answer(h)
    /\ UNCHANGED <<code, issued, attempts, requests, served, guesses, forgiven,
                   sessions, raced>>

OtpNext ==
    \/ \E h \in Handlers :
          \/ CountRequest(h) \/ SetRequestsTtl(h) \/ RequestEndsEarly(h)
          \/ RequestAllowed(h) \/ SetCode(h) \/ ResetAfterCode(h)
          \/ CountGuess(h) \/ SetAttemptsTtl(h) \/ TooManyGuesses(h)
          \/ GuessAllowed(h) \/ Compare(h) \/ AccountRefused(h) \/ AccountFound(h)
          \/ SpendCode(h) \/ HandlerDies(h)
    \/ CodeExpires \/ AttemptsExpire \/ RequestsExpire

OtpSpec == OtpInit /\ [][OtpNext]_otpVars

-----------------------------------------------------------------------------
(* Properties.                                                             *)

\* A code is compared with MaxGuesses guesses at most, but for those that a reset
\* of the counter forgave while the code was in force; and it opens one session,
\* but for verifications that were past the comparison when another one spent it.
CodesHold ==
    \A c \in Codes :
        /\ guesses[c] <= MaxGuesses + forgiven[c]
        /\ sessions[c] <= 1 + raced[c]

\* A phone that asked too often is let in again some day: once all handlers are
\* done the counter has a TTL, unless one died before it could set it.
LockoutEnds ==
    (requests.count > 0 /\ \A h \in Handlers : handler[h] = Quiet) =>
        requests.ttl \/ stranded
===============================================================================
