------------------------------- MODULE Sessions --------------------------------
(***************************************************************************)
(* Sessions: TokenService's rotating refresh tokens on the server, and the *)
(* four front ends' stores and axios interceptors that spend them.         *)
(*                                                                         *)
(* rotateRefreshToken reads the token, revokes it and issues the next one  *)
(* in three calls, and the caller then looks the account up; another       *)
(* request may run between any two of them.  A browser tab has several     *)
(* API calls under way; each may come back 401 once the access token has   *)
(* expired.  The admin, POS and platform clients share one refresh among   *)
(* them, the customers' PWA starts one for each.  A client presents its    *)
(* own tokens only, so rotateRefreshToken's check of the subject type      *)
(* always passes here.                                                     *)
(*                                                                         *)
(* A line is what one login started: its refresh token and the tokens that *)
(* replace it.                                                             *)
(***************************************************************************)
EXTENDS Integers, Sequences, FiniteSets

CONSTANTS
    Tabs,
    Calls,        \* API calls a tab has under way
    Users,
    None,         \* nobody, nothing
    MaxTokens,    \* bound: refresh tokens issued
    Max401,       \* bound: calls that come back 401
    MaxIncidents  \* bound: sign-outs, second tabs, lost answers,
                  \* deactivations, times that tokens expire

ASSUME SessionsAssumption ==
    /\ IsFiniteSet(Tabs)
    /\ IsFiniteSet(Calls)
    /\ MaxTokens \in Nat
    /\ Max401 \in Nat
    /\ MaxIncidents \in Nat
    /\ None \notin Users

VARIABLES
    app,        \* the client the tabs run
    tokens,     \* refresh_tokens, in the order of issue
    expired,    \* the oldest so many tokens are past their expiresAt
    active,     \* users whose account is active
    session,    \* per tab: who is shown, and the tokens it holds
    call,       \* per tab and call: where it stands
    refresh,    \* per tab and call: the refresh it started
    logouts,    \* tokens whose POST /auth/logout was sent
    denials,    \* counted against Max401
    incidents,  \* counted against MaxIncidents
    overlaps,   \* history, per line: rotations whose token was revoked
                \* between their read and their write
    lossy,      \* history: lines whose refresh was answered into the void
    crossed,    \* history: lines whose tab had a refresh under way when
                \* somebody signed in, signed out or was thrown out
    lapsed,     \* history: lines refused because their token had expired
    parallel,   \* history: lines of a tab that had two refreshes under way
    copied,     \* history: lines two tabs have held
    signedOut,  \* history: lines whose logout the server has handled
    thrownOut   \* history: lines whose tab went to the login page on a refusal

server == <<tokens, expired, active, logouts>>
history == <<overlaps, lossy, crossed, lapsed, parallel, copied, signedOut, thrownOut>>
vars == <<app, tokens, expired, active, session, call, refresh, logouts, denials, incidents, history>>

Apps == {"admin", "pos", "platform", "pwa"}

\* api.ts of the POS and the platform console, client.ts of the admin:
\* "refreshing = refreshing ?? tryRefresh()".  The PWA's api.ts has no such line.
SharesRefresh == app # "pwa"

\* stores/auth.ts: only the admin's logout tells the server.
RevokesOnLogout == app = "admin"

Lines == 1 .. MaxTokens
Ids == 1 .. MaxTokens

Token == [user : Users, line : Lines, revoked : BOOLEAN]

\* Line and token 0: none.
Session == [user : Users \cup {None}, line : Lines \cup {0}, token : Ids \cup {0}]

NoSession == [user |-> None, line |-> 0, token |-> 0]

\* A refresh in the server: "token" is the one presented, "new" the one issued;
\* "live" (history): the token was when it was read.
Refresh == [step : {"read", "revoke", "issue", "account", "granted", "refused"},
            token : Ids, new : Ids \cup {0}, live : BOOLEAN]

NoRefresh == [step |-> "none"]

TypeOK ==
    /\ app \in Apps
    /\ tokens \in Seq(Token)
    /\ Len(tokens) <= MaxTokens
    /\ expired \in 0 .. MaxTokens
    /\ active \subseteq Users
    /\ session \in [Tabs -> Session]
    /\ call \in [Tabs -> [Calls -> {"idle", "waiting"}]]
    /\ refresh \in [Tabs -> [Calls -> Refresh \cup {NoRefresh}]]
    /\ logouts \subseteq Ids
    /\ denials \in 0 .. Max401
    /\ incidents \in 0 .. MaxIncidents
    /\ overlaps \in [Lines -> Nat]
    /\ lossy \cup crossed \cup lapsed \cup parallel \subseteq Lines
    /\ copied \cup signedOut \cup thrownOut \subseteq Lines

Init ==
    /\ app \in Apps
    /\ tokens = <<>>
    /\ expired = 0
    /\ active = Users
    /\ session = [t \in Tabs |-> NoSession]
    /\ call = [t \in Tabs |-> [k \in Calls |-> "idle"]]
    /\ refresh = [t \in Tabs |-> [k \in Calls |-> NoRefresh]]
    /\ logouts = {}
    /\ denials = 0
    /\ incidents = 0
    /\ overlaps = [l \in Lines |-> 0]
    /\ lossy = {}
    /\ crossed = {}
    /\ lapsed = {}
    /\ parallel = {}
    /\ copied = {}
    /\ signedOut = {}
    /\ thrownOut = {}

InFlight(t) == {k \in Calls : refresh[t][k] # NoRefresh}

LineOf(r) == tokens[r.token].line

Incident == incidents < MaxIncidents /\ incidents' = incidents + 1

SetRefresh(t, k, r) == refresh' = [refresh EXCEPT ![t][k] = r]

-----------------------------------------------------------------------------
(* Signing in and out.                                                     *)

\* staffLogin, platformLogin or verifyOtp: the first token of a line.  The login
\* page opens to those who are signed in, too, and the new session replaces theirs
\* without a word to the server.
Login(t, u) ==
    /\ u \in active
    /\ Len(tokens) < MaxTokens
    /\ LET n == Len(tokens) + 1
       IN /\ tokens' = Append(tokens, [user |-> u, line |-> n, revoked |-> FALSE])
          /\ session' = [session EXCEPT ![t] =
                 [user |-> u, line |-> n, token |-> n]]
          /\ crossed' = IF InFlight(t) # {}
                        THEN crossed \cup {n} \cup ({session[t].line} \ {0})
                        ELSE crossed
    /\ UNCHANGED <<app, expired, active, call, refresh, logouts, denials, incidents,
                   overlaps, lossy, lapsed, parallel, copied, signedOut, thrownOut>>

\* A second tab starts from the storage that zustand's persist keeps.
OpenTab(t, from) ==
    /\ Incident
    /\ session[t] = NoSession
    /\ InFlight(t) = {}
    /\ session[from].user # None
    /\ session' = [session EXCEPT ![t] = session[from]]
    /\ copied' = copied \cup {session[from].line}
    /\ UNCHANGED <<app, server, call, refresh, denials, overlaps, lossy, crossed,
                   lapsed, parallel, signedOut, thrownOut>>

\* Fault: the tab forgets who is signed in and keeps the tokens.
Fault_KeepsTokens(s) == [s EXCEPT !.user = None]
\* logout() empties the store.
Emptied(s) == NoSession

\* The refresh under way and the calls are not cancelled.
SignOut(t) ==
    /\ Incident
    /\ session[t].user # None
    /\ session' = [session EXCEPT ![t] = Emptied(session[t])]
    /\ logouts' = IF RevokesOnLogout THEN logouts \cup {session[t].token} ELSE logouts
    /\ crossed' = IF InFlight(t) # {} THEN crossed \cup {session[t].line} ELSE crossed
    /\ UNCHANGED <<app, tokens, expired, active, call, refresh, denials, overlaps, lossy,
                   lapsed, parallel, copied, signedOut, thrownOut>>

\* Fault: logout finds no row to revoke.
Fault_RevokesNothing(id) ==
    /\ id \in logouts
    /\ logouts' = logouts \ {id}
    /\ signedOut' = signedOut \cup {tokens[id].line}
    /\ UNCHANGED <<app, tokens, expired, active, session, call, refresh, denials,
                   incidents, overlaps, lossy, crossed, lapsed, parallel, copied, thrownOut>>
\* revokeRefreshToken: by hash, and only while it is not revoked.  The call is
\* fire and forget: it may never arrive.
HandleLogout(id) ==
    /\ id \in logouts
    /\ logouts' = logouts \ {id}
    /\ tokens' = [tokens EXCEPT ![id].revoked = TRUE]
    /\ signedOut' = signedOut \cup {tokens[id].line}
    /\ UNCHANGED <<app, expired, active, session, call, refresh, denials, incidents,
                   overlaps, lossy, crossed, lapsed, parallel, copied, thrownOut>>

\* TeamService.updateStatus, updatePlatformAdmin: the account is switched off.
Deactivate(u) ==
    /\ Incident
    /\ u \in active
    /\ active' = active \ {u}
    /\ UNCHANGED <<app, tokens, expired, session, call, refresh, logouts, denials, history>>

\* Time passes expiresAt of the first n tokens: all live equally long, so they
\* expire in the order of issue.
Expire(n) ==
    /\ Incident
    /\ expired < n
    /\ expired' = n
    /\ UNCHANGED <<app, tokens, active, session, call, refresh, logouts, denials, history>>

-----------------------------------------------------------------------------
(* The tab.                                                                *)

\* Fault: every call refreshes for itself.
Fault_NeverJoins(t) == FALSE
\* The response interceptor on the 401 of a call whose access token has expired:
\* join the refresh under way, or start one with the refresh token the store
\* holds now.  The answer to a call may come long after the call, so a 401 may
\* come at any time; without a refresh token it changes nothing but the page.
Joins(t) == SharesRefresh /\ InFlight(t) # {}

Denied(t, k) ==
    /\ call[t][k] = "idle"
    /\ denials < Max401
    /\ denials' = denials + 1
    /\ call' = [call EXCEPT ![t][k] = "waiting"]
    /\ UNCHANGED incidents

JoinRefresh(t, k) ==
    /\ Denied(t, k)
    /\ Joins(t)
    /\ UNCHANGED <<app, server, session, refresh, history>>

StartRefresh(t, k) ==
    /\ Denied(t, k)
    /\ ~Joins(t)
    /\ session[t].token # 0
    /\ SetRefresh(t, k, [step |-> "read", token |-> session[t].token, new |-> 0,
                         live |-> TRUE])
    /\ parallel' = IF InFlight(t) # {} THEN parallel \cup {session[t].line} ELSE parallel
    /\ UNCHANGED <<app, server, session, overlaps, lossy, crossed, lapsed, copied,
                   signedOut, thrownOut>>

\* The calls that wait for the refresh that call k started.
Wake(t, k) ==
    call' = [call EXCEPT ![t] = [j \in Calls |->
        IF call[t][j] = "waiting" /\ (SharesRefresh \/ j = k) THEN "idle"
        ELSE call[t][j]]]

\* The answer replaces the tokens in the store, whoever is signed in by now, and
\* the calls are sent again.
Granted(t, k) ==
    /\ refresh[t][k].step = "granted"
    /\ session' = [session EXCEPT
           ![t].token = refresh[t][k].new,
           ![t].line = LineOf(refresh[t][k])]
    /\ SetRefresh(t, k, NoRefresh)
    /\ Wake(t, k)
    /\ UNCHANGED <<app, server, denials, incidents, history>>

\* A refusal, or no answer at all, is a false from tryRefresh: logout() empties
\* the store, whatever it holds by now.
Rejected(t, k) ==
    /\ refresh[t][k].step = "refused"
    /\ session' = [session EXCEPT ![t] = Emptied(session[t])]
    /\ logouts' = IF RevokesOnLogout /\ session[t].token # 0
                  THEN logouts \cup {session[t].token} ELSE logouts
    /\ thrownOut' = IF session[t].user # None
                    THEN thrownOut \cup {session[t].line} ELSE thrownOut
    /\ crossed' = IF session[t].line # 0 /\ InFlight(t) # {k}
                  THEN crossed \cup {session[t].line} ELSE crossed
    /\ SetRefresh(t, k, NoRefresh)
    /\ Wake(t, k)
    /\ UNCHANGED <<app, tokens, expired, active, denials, incidents, overlaps, lossy,
                   lapsed, parallel, copied, signedOut>>

-----------------------------------------------------------------------------
(* The server.                                                             *)

\* Fault: a token that was spent passes for good.
Fault_Replayable(id) == id > expired
\* rotateRefreshToken's checks.
Spendable(id) == ~tokens[id].revoked /\ id > expired

ReadToken(t, k) ==
    /\ refresh[t][k].step = "read"
    /\ LET id == refresh[t][k].token
       IN /\ SetRefresh(t, k, [refresh[t][k] EXCEPT
                 !.step = IF Spendable(id) THEN "revoke" ELSE "refused",
                 !.live = ~tokens[id].revoked])
          /\ lapsed' = IF ~tokens[id].revoked /\ id <= expired
                       THEN lapsed \cup {tokens[id].line} ELSE lapsed
    /\ UNCHANGED <<app, server, session, call, denials, incidents, overlaps, lossy,
                   crossed, parallel, copied, signedOut, thrownOut>>

\* The update names the row and not its state.
RevokeToken(t, k) ==
    /\ refresh[t][k].step = "revoke"
    /\ tokens' = [tokens EXCEPT ![refresh[t][k].token].revoked = TRUE]
    /\ overlaps' = IF refresh[t][k].live /\ tokens[refresh[t][k].token].revoked
                   THEN [overlaps EXCEPT ![LineOf(refresh[t][k])] = @ + 1]
                   ELSE overlaps
    /\ SetRefresh(t, k, [refresh[t][k] EXCEPT !.step = "issue"])
    /\ UNCHANGED <<app, expired, active, session, call, logouts, denials, incidents, lossy,
                   crossed, lapsed, parallel, copied, signedOut, thrownOut>>

IssueToken(t, k) ==
    /\ refresh[t][k].step = "issue"
    /\ Len(tokens) < MaxTokens
    /\ tokens' = Append(tokens, [tokens[refresh[t][k].token] EXCEPT !.revoked = FALSE])
    /\ SetRefresh(t, k, [refresh[t][k] EXCEPT !.step = "account",
                                              !.new = Len(tokens) + 1])
    /\ UNCHANGED <<app, expired, active, session, call, logouts, denials, incidents, history>>

\* staffRefresh, platformRefresh, customerRefresh: the account is looked up after
\* the rotation.
LookUpAccount(t, k) ==
    /\ refresh[t][k].step = "account"
    /\ SetRefresh(t, k, [refresh[t][k] EXCEPT
           !.step = IF tokens[refresh[t][k].token].user \in active
                    THEN "granted" ELSE "refused"])
    /\ UNCHANGED <<app, server, session, call, denials, incidents, history>>

\* The request dies in the server, or its answer does not arrive.
LoseAnswer(t, k) ==
    /\ Incident
    /\ refresh[t][k] # NoRefresh
    /\ refresh[t][k].step # "refused"
    /\ SetRefresh(t, k, [refresh[t][k] EXCEPT !.step = "refused"])
    /\ lossy' = lossy \cup {LineOf(refresh[t][k])}
    /\ UNCHANGED <<app, server, session, call, denials, overlaps, crossed, lapsed, parallel,
                   copied, signedOut, thrownOut>>

-----------------------------------------------------------------------------

Next ==
    \/ \E t \in Tabs :
          \/ \E u \in Users : Login(t, u)
          \/ \E from \in Tabs \ {t} : OpenTab(t, from)
          \/ SignOut(t)
          \/ \E k \in Calls :
                \/ JoinRefresh(t, k) \/ StartRefresh(t, k)
                \/ Granted(t, k) \/ Rejected(t, k)
                \/ ReadToken(t, k) \/ RevokeToken(t, k) \/ IssueToken(t, k)
                \/ LookUpAccount(t, k) \/ LoseAnswer(t, k)
    \/ \E id \in logouts : HandleLogout(id)
    \/ \E u \in Users : Deactivate(u)
    \/ \E n \in DOMAIN tokens : Expire(n)

Spec == Init /\ [][Next]_vars

-----------------------------------------------------------------------------
(* Properties.                                                             *)

Live(l) == {id \in DOMAIN tokens : tokens[id].line = l /\ ~tokens[id].revoked}

\* A line has one live refresh token at most: a spent token opens no second one,
\* but for each time two requests took the same token before either revoked it.
LineUnforked == \A l \in Lines : Cardinality(Live(l)) <= 1 + overlaps[l]

\* Nobody who works in one tab is thrown out while the account is active, the
\* refresh token has not expired and the network holds, unless two refreshes of the
\* tab were under way at once and spent each other's token.  That happens in the
\* PWA, which starts one refresh per call; never in the clients that share it.
NotThrownOut ==
    /\ \A l \in thrownOut : \/ l \in lossy \cup copied \cup crossed \cup lapsed \cup parallel
                             \/ tokens[l].user \notin active
    /\ SharesRefresh => parallel = {}

\* A tab acts for the person it shows and nobody once signed out, unless a
\* refresh was under way when the store was emptied: its answer fills it again.
TabActsForItsUser ==
    \A t \in Tabs :
        LET s == session[t]
        IN s.token # 0 =>
               \/ tokens[s.token].user = s.user
               \/ tokens[s.token].line \in crossed

\* A sign-out that reached the server leaves no token of its line alive, unless
\* a refresh of it was under way, answered into the void, in another tab, or
\* refused (after the rotation) because the account was switched off.
SignOutEndsLine ==
    \A l \in signedOut \ (crossed \cup lossy \cup copied) :
        tokens[l].user \in active => Live(l) = {}
===============================================================================
