---------------------------- MODULE Sessions_proofs ----------------------------
(***************************************************************************)
(* Proofs about Sessions and Otp, for any tabs, calls, users, handlers and *)
(* limits: what a spent refresh token may still open, whom a tab acts for, *)
(* who is thrown out, what a sign-out ends, and what a one-time code is    *)
(* good for.                                                               *)
(*                                                                         *)
(* The invariant of Sessions says where tokens, sessions and refreshes     *)
(* point (TokensPlaced, SessionsPlaced, FlightsPlaced, MarksPlaced), counts *)
(* the live tokens of a line and those about to be issued (Unforked), and  *)
(* follows the one live token of a line that nothing disturbed from the    *)
(* tab to the server and back (Orderly).                                   *)
(***************************************************************************)
EXTENDS Sessions, Otp, FiniteSetTheorems, SequenceTheorems, TLAPS

Issued == 1 .. Len(tokens)

Flies(t, k) == refresh[t][k].step # "none"

\* A line starts with the token of its number.
TokensPlaced ==
    \A id \in Issued :
        /\ tokens[id].line \in 1 .. id
        /\ tokens[tokens[id].line].line = tokens[id].line
        /\ tokens[tokens[id].line].user = tokens[id].user

SessionsPlaced ==
    \A t \in Tabs :
        /\ session[t].token = 0 => session[t].line = 0 /\ session[t].user = None
        /\ session[t].token # 0 =>
              /\ session[t].token \in Issued
              /\ session[t].line = tokens[session[t].token].line
              /\ \/ session[t].user = tokens[session[t].token].user
                 \/ session[t].line \in crossed

\* A refresh is for the line of its tab, or one of the two lines was crossed; it
\* spends the token its tab holds, unless another refresh or sign-in came between.
FlightPlaced(t, k) ==
    LET r == refresh[t][k]
    IN /\ r.token \in Issued
       /\ r.step \in {"account", "granted"} =>
             /\ r.new \in Issued
             /\ tokens[r.new].line = tokens[r.token].line
             /\ tokens[r.new].user = tokens[r.token].user
       /\ r.step = "revoke" => r.live
       /\ tokens[r.token].line = session[t].line \/ tokens[r.token].line \in crossed
       /\ tokens[r.token].line = session[t].line \/ session[t].line \in crossed \cup {0}
       /\ r.token = session[t].token \/ tokens[r.token].line \in crossed \cup parallel

FlightsPlaced == \A t \in Tabs : \A k \in Calls : Flies(t, k) => FlightPlaced(t, k)

MarksPlaced ==
    /\ logouts \subseteq Issued
    /\ signedOut \subseteq Issued
    /\ thrownOut \subseteq Issued

\* The refreshes of a line that have revoked its token and issue the next.
Issuing(l) ==
    {p \in Tabs \X Calls :
        refresh[p[1]][p[2]].step = "issue" /\ tokens[refresh[p[1]][p[2]].token].line = l}

Unforked == \A l \in Lines : Cardinality(Live(l)) + Cardinality(Issuing(l)) <= 1 + overlaps[l]

-----------------------------------------------------------------------------
(* Lines that nothing disturbed.                                           *)

Clean(l) == l \notin lossy \cup copied \cup crossed \cup parallel /\ tokens[l].user \in active

HeldBy(l, t) == session[t].line = l

Idle(t) == \A k \in Calls : ~Flies(t, k)

\* Where the live token of the line is while the refresh goes on.
FlightOrderly(l, r) ==
    /\ r.step \in {"read", "revoke", "refused"} => Live(l) = {r.token}
    /\ r.step = "issue" => Live(l) = {}
    /\ r.step \in {"account", "granted"} => Live(l) = {r.new}
    /\ r.step = "refused" => l \in lapsed

OrderlyLine(l) ==
    /\ \A s, t \in Tabs : HeldBy(l, s) /\ HeldBy(l, t) => s = t
    /\ \A t \in Tabs : HeldBy(l, t) /\ Idle(t) => Live(l) = {session[t].token}
    /\ \A t \in Tabs : \A k \in Calls :
          Flies(t, k) /\ tokens[refresh[t][k].token].line = l => FlightOrderly(l, refresh[t][k])
    /\ \A id \in logouts : tokens[id].line = l =>
          Live(l) \subseteq {id} /\ \A t \in Tabs : ~HeldBy(l, t)
    /\ l \in signedOut => Live(l) = {} /\ \A t \in Tabs : ~HeldBy(l, t)
    /\ l \in thrownOut => l \in lapsed

\* A tab has one refresh under way, but for lines that two of them disturbed.
OneFlight ==
    \A t \in Tabs : \A j, k \in Calls :
        Flies(t, j) /\ Flies(t, k) /\ j # k =>
            tokens[refresh[t][j].token].line \in crossed \cup parallel

Orderly == OneFlight /\ \A l \in Issued : Clean(l) => OrderlyLine(l)

\* What only the admin does, and what only the PWA does.
ByClient ==
    /\ ~RevokesOnLogout => logouts = {} /\ signedOut = {}
    /\ SharesRefresh => parallel = {}

Placed == TypeOK /\ TokensPlaced /\ SessionsPlaced /\ FlightsPlaced /\ MarksPlaced /\ ByClient

SessionsInv == Placed /\ Unforked /\ Orderly

-----------------------------------------------------------------------------
(* Types and counts.                                                       *)

LEMMA TokenTypes ==
    ASSUME TypeOK
    PROVE  /\ tokens \in Seq(Token) /\ Len(tokens) \in Nat /\ DOMAIN tokens = Issued
           /\ Issued \subseteq Ids
           /\ \A id \in Issued : tokens[id] \in Token
BY SessionsAssumption, LenProperties DEF TypeOK, Issued, Ids

LEMMA FlightTypes ==
    ASSUME TypeOK, NEW t \in Tabs, NEW k \in Calls
    PROVE  /\ Flies(t, k) <=> refresh[t][k] # NoRefresh
           /\ Flies(t, k) <=> refresh[t][k] \in Refresh
<1>1. refresh[t][k] \in Refresh \cup {NoRefresh}
    BY DEF TypeOK
<1>2. NoRefresh.step = "none"
    BY DEF NoRefresh
<1>3. \A r \in Refresh : r.step # "none"
    BY DEF Refresh
<1> QED BY <1>1, <1>2, <1>3 DEF Flies

\* What setting one refresh does.
LEMMA SetRefreshSets ==
    ASSUME TypeOK, NEW t \in Tabs, NEW k \in Calls,
           NEW r \in Refresh \cup {NoRefresh}, SetRefresh(t, k, r)
    PROVE  /\ refresh' \in [Tabs -> [Calls -> Refresh \cup {NoRefresh}]]
           /\ refresh'[t][k] = r
           /\ \A s \in Tabs : \A j \in Calls :
                 s # t \/ j # k => refresh'[s][j] = refresh[s][j]
<1>1. refresh \in [Tabs -> [Calls -> Refresh \cup {NoRefresh}]]
    BY DEF TypeOK
<1>2. refresh' = [refresh EXCEPT ![t] = [refresh[t] EXCEPT ![k] = r]]
    BY DEF SetRefresh
<1> QED BY <1>1, <1>2

LEMMA LiveFinite ==
    ASSUME TypeOK, NEW l
    PROVE  /\ IsFiniteSet(Live(l)) /\ Cardinality(Live(l)) \in Nat
           /\ Live(l) \subseteq Issued
<1>1. Live(l) \subseteq Issued
    BY TokenTypes DEF Live
<1>2. IsFiniteSet(Issued)
    BY TokenTypes, FS_Interval DEF Issued
<1> QED BY <1>1, <1>2, FS_Subset, FS_CardinalityType

LEMMA IssuingFinite ==
    ASSUME NEW l
    PROVE  IsFiniteSet(Issuing(l)) /\ Cardinality(Issuing(l)) \in Nat
<1>1. IsFiniteSet(Tabs \X Calls)
    BY SessionsAssumption, FS_Product
<1>2. Issuing(l) \subseteq Tabs \X Calls
    BY DEF Issuing
<1> QED BY <1>1, <1>2, FS_Subset, FS_CardinalityType

\* Fewer live tokens and fewer to come.
LEMMA UnforkedShrinks ==
    ASSUME SessionsInv, TypeOK',
           \A l \in Lines : /\ Live(l)' \subseteq Live(l)
                            /\ Issuing(l)' \subseteq Issuing(l)
                            /\ overlaps'[l] = overlaps[l]
    PROVE  Unforked'
<1> SUFFICES ASSUME NEW l \in Lines
             PROVE  Cardinality(Live(l)') + Cardinality(Issuing(l)') <= 1 + overlaps'[l]
    BY DEF Unforked
<1>1. /\ IsFiniteSet(Live(l)) /\ Cardinality(Live(l)) \in Nat
      /\ IsFiniteSet(Issuing(l)) /\ Cardinality(Issuing(l)) \in Nat
    BY LiveFinite, IssuingFinite DEF SessionsInv, Placed
<1>2. /\ Cardinality(Live(l)') <= Cardinality(Live(l)) /\ IsFiniteSet(Live(l)')
      /\ Cardinality(Issuing(l)') <= Cardinality(Issuing(l)) /\ IsFiniteSet(Issuing(l)')
    BY <1>1, FS_Subset
<1>3. Cardinality(Live(l)') \in Nat /\ Cardinality(Issuing(l)') \in Nat
    BY <1>2, FS_CardinalityType
<1>4. Cardinality(Live(l)) + Cardinality(Issuing(l)) <= 1 + overlaps[l] /\ overlaps[l] \in Nat
    BY DEF SessionsInv, Placed, TypeOK, Unforked
<1> QED BY <1>1, <1>2, <1>3, <1>4

\* No second refresh starts in a tab.
LEMMA OneFlightKept ==
    ASSUME OneFlight, crossed \subseteq crossed', parallel \subseteq parallel',
           \A s \in Tabs : \A j \in Calls : Flies(s, j)' =>
               /\ Flies(s, j)
               /\ tokens'[refresh'[s][j].token].line = tokens[refresh[s][j].token].line
    PROVE  OneFlight'
BY DEF OneFlight

-----------------------------------------------------------------------------
(* Steps of a refresh in the server that change no token.                  *)

LEMMA FlightStep ==
    ASSUME SessionsInv, NEW t \in Tabs, NEW k \in Calls, Flies(t, k),
           NEW r \in Refresh, SetRefresh(t, k, r), r.token = refresh[t][k].token,
           UNCHANGED <<app, tokens, expired, active, session, call, logouts, denials, overlaps,
                       crossed, parallel, copied, signedOut, thrownOut>>,
           incidents' \in 0 .. MaxIncidents, lossy \subseteq lossy', lossy' \subseteq Lines,
           lapsed \subseteq lapsed', lapsed' \subseteq Lines,
           r.step \in {"revoke", "granted", "refused"},
           r.step = "granted" =>
               refresh[t][k].step \in {"account", "granted"} /\ r.new = refresh[t][k].new,
           r.step = "revoke" => refresh[t][k].step = "read" /\ r.live,
           r.step = "refused" =>
               \/ LineOf(r) \in lossy'
               \/ tokens[r.token].user \notin active
               \/ /\ refresh[t][k].step = "read"
                  /\ tokens[r.token].revoked \/ LineOf(r) \in lapsed'
    PROVE  SessionsInv'
<1>1. TypeOK /\ refresh[t][k] \in Refresh
    BY FlightTypes DEF SessionsInv, Placed
<1>2. /\ refresh' \in [Tabs -> [Calls -> Refresh \cup {NoRefresh}]]
      /\ refresh'[t][k] = r
      /\ \A s \in Tabs : \A j \in Calls : s # t \/ j # k => refresh'[s][j] = refresh[s][j]
    BY <1>1, SetRefreshSets
<1>3. TypeOK'
    BY <1>1, <1>2 DEF TypeOK
<1>4. /\ Issued' = Issued /\ \A l : Live(l)' = Live(l)
      /\ Flies(t, k)'
      /\ \A s \in Tabs : \A j \in Calls : Flies(s, j)' = Flies(s, j)
    BY <1>2 DEF Issued, Live, Flies, Refresh
<1>5. TokensPlaced' /\ SessionsPlaced' /\ MarksPlaced' /\ ByClient'
    BY <1>4 DEF SessionsInv, Placed, TokensPlaced, SessionsPlaced, MarksPlaced, ByClient,
                RevokesOnLogout, SharesRefresh
<1>6. FlightsPlaced'
  <2>1. FlightPlaced(t, k)'
      BY <1>2, <1>4 DEF SessionsInv, Placed, FlightsPlaced, FlightPlaced
  <2>2. ASSUME NEW s \in Tabs, NEW j \in Calls, s # t \/ j # k, Flies(s, j)
        PROVE  FlightPlaced(s, j)'
      BY <1>2, <1>4, <2>2 DEF SessionsInv, Placed, FlightsPlaced, FlightPlaced
  <2> QED BY <1>4, <2>1, <2>2 DEF FlightsPlaced
<1>7. Unforked'
  <2>1. ASSUME NEW l \in Lines PROVE Issuing(l)' \subseteq Issuing(l)
      BY <1>2 DEF Issuing
  <2> QED BY <1>3, <1>4, <2>1, UnforkedShrinks
<1>8. Orderly'
  <2> SUFFICES OneFlight' /\ \A l \in Issued' : Clean(l)' => OrderlyLine(l)'
      BY DEF Orderly
  <2>2. OneFlight /\ \A l \in Issued : Clean(l) => OrderlyLine(l)
      BY DEF SessionsInv, Orderly
  <2>3. OneFlight'
    <3>1. \A s \in Tabs : \A j \in Calls : refresh'[s][j].token = refresh[s][j].token
        BY <1>2
    <3> QED BY <1>4, <2>2, <3>1, OneFlightKept
  <2>4. ASSUME NEW l \in Issued, Clean(l)'
        PROVE  OrderlyLine(l)'
    <3>1. Clean(l) /\ OrderlyLine(l)
        BY <2>2, <2>4 DEF Clean
    <3>2. \A s \in Tabs : Idle(s)' = Idle(s) /\ HeldBy(l, s)' = HeldBy(l, s)
        BY <1>4 DEF Idle, HeldBy
    <3>3. ASSUME tokens[r.token].line = l
          PROVE  FlightOrderly(l, r)'
      <4>1. FlightOrderly(l, refresh[t][k])
          BY <3>1, <3>3 DEF OrderlyLine
      <4>2. r.step = "refused" => refresh[t][k].step = "read" /\ l \in lapsed'
        <5>1. r.token \in Issued /\ tokens[tokens[r.token].line].user = tokens[r.token].user
            BY DEF SessionsInv, Placed, FlightsPlaced, FlightPlaced, TokensPlaced
        <5>2. LineOf(r) = l /\ l \notin lossy' /\ tokens[r.token].user \in active
            BY <2>4, <3>3, <5>1 DEF Clean, LineOf
        <5>3. refresh[t][k].step = "read" => ~tokens[r.token].revoked
            BY <4>1 DEF FlightOrderly, Live
        <5> QED BY <5>2, <5>3
      <4> QED BY <1>4, <4>1, <4>2 DEF FlightOrderly
    <3>4. ASSUME NEW s \in Tabs, NEW j \in Calls, Flies(s, j)',
                 tokens[refresh'[s][j].token].line = l
          PROVE  FlightOrderly(l, refresh[s][j])'
      <4>1. CASE s = t /\ j = k
          BY <1>2, <3>3, <3>4, <4>1 DEF FlightOrderly
      <4>2. CASE s # t \/ j # k
        <5>1. refresh'[s][j] = refresh[s][j] /\ Flies(s, j)
            BY <1>2, <1>4, <3>4, <4>2
        <5>2. FlightOrderly(l, refresh[s][j])
            BY <3>1, <3>4, <5>1 DEF OrderlyLine
        <5> QED BY <1>4, <5>1, <5>2 DEF FlightOrderly
      <4> QED BY <4>1, <4>2
    <3>5. \A s \in Tabs : \A j \in Calls :
              Flies(s, j)' /\ tokens'[refresh'[s][j].token].line = l => FlightOrderly(l, refresh[s][j])'
        BY <3>4
    <3> QED BY <1>4, <3>1, <3>2, <3>5 DEF OrderlyLine
  <2> QED BY <1>4, <2>3, <2>4
<1> QED BY <1>3, <1>5, <1>6, <1>7, <1>8 DEF SessionsInv, Placed

LEMMA ReadTokenKeeps ==
    ASSUME SessionsInv, NEW t \in Tabs, NEW k \in Calls, ReadToken(t, k)
    PROVE  SessionsInv'
<1> DEFINE o == refresh[t][k]
           r == [o EXCEPT !.step = IF Spendable(o.token) THEN "revoke" ELSE "refused",
                          !.live = ~tokens[o.token].revoked]
<1>1. o.step = "read" /\ SetRefresh(t, k, r) /\ Flies(t, k)
    BY DEF ReadToken, Flies
<1>2. TypeOK /\ o \in Refresh
    BY <1>1, FlightTypes DEF SessionsInv, Placed
<1>3. o.token \in Issued /\ tokens[o.token].revoked \in BOOLEAN
    BY <1>1, <1>2, TokenTypes DEF SessionsInv, Placed, FlightsPlaced, FlightPlaced, Token
<1>4. /\ r \in Refresh /\ r.token = o.token /\ r.step \in {"revoke", "refused"}
      /\ r.step = "revoke" => r.live
      /\ r.step = "refused" => tokens[o.token].revoked \/ o.token <= expired
  <2>1. o.token \in Int /\ expired \in Int
      BY <1>2, <1>3, TokenTypes DEF TypeOK, Issued
  <2>2. Spendable(o.token) <=> ~tokens[o.token].revoked /\ ~(o.token <= expired)
      BY <2>1 DEF Spendable
  <2>3. /\ r \in Refresh /\ r.token = o.token /\ r.live = ~tokens[o.token].revoked
        /\ r.step = IF Spendable(o.token) THEN "revoke" ELSE "refused"
      BY <1>2, <1>3 DEF Refresh
  <2> HIDE DEF o, r
  <2> QED BY <1>3, <2>2, <2>3
<1>5. /\ UNCHANGED <<app, tokens, expired, active, session, call, logouts, denials, overlaps,
                     crossed, parallel, copied, signedOut, thrownOut, incidents, lossy>>
      /\ incidents \in 0 .. MaxIncidents /\ lossy \subseteq Lines
    BY <1>2 DEF ReadToken, server, TypeOK
<1>6. lapsed' = IF ~tokens[o.token].revoked /\ o.token <= expired
                THEN lapsed \cup {tokens[o.token].line} ELSE lapsed
    BY DEF ReadToken
<1>7. lapsed \subseteq lapsed' /\ lapsed' \subseteq Lines
  <2>1. tokens[o.token].line \in Lines
      BY <1>2, <1>3, TokenTypes DEF Token
  <2> QED BY <1>2, <1>6, <2>1 DEF TypeOK
<1>8. r.step = "refused" => tokens[o.token].revoked \/ LineOf(r) \in lapsed'
    BY <1>4, <1>6 DEF LineOf
<1> HIDE DEF o, r
<1> QED BY <1>1, <1>4, <1>5, <1>7, <1>8, FlightStep DEF o

LEMMA LookUpAccountKeeps ==
    ASSUME SessionsInv, NEW t \in Tabs, NEW k \in Calls, LookUpAccount(t, k)
    PROVE  SessionsInv'
<1> DEFINE o == refresh[t][k]
           r == [o EXCEPT !.step =
                    IF tokens[o.token].user \in active THEN "granted" ELSE "refused"]
<1>1. o.step = "account" /\ SetRefresh(t, k, r) /\ Flies(t, k)
    BY DEF LookUpAccount, Flies
<1>2. TypeOK /\ o \in Refresh
    BY <1>1, FlightTypes DEF SessionsInv, Placed
<1>4. /\ r \in Refresh /\ r.token = o.token /\ r.step \in {"granted", "refused"}
      /\ r.new = o.new
      /\ r.step = "refused" => tokens[o.token].user \notin active
    BY <1>2 DEF Refresh
<1>5. /\ UNCHANGED <<app, tokens, expired, active, session, call, logouts, denials, overlaps,
                     crossed, parallel, copied, signedOut, thrownOut, incidents, lossy, lapsed>>
      /\ incidents \in 0 .. MaxIncidents /\ lossy \subseteq Lines /\ lapsed \subseteq Lines
    BY <1>2 DEF LookUpAccount, server, history, TypeOK
<1> HIDE DEF o, r
<1> QED BY <1>1, <1>4, <1>5, FlightStep DEF o

LEMMA LoseAnswerKeeps ==
    ASSUME SessionsInv, NEW t \in Tabs, NEW k \in Calls, LoseAnswer(t, k)
    PROVE  SessionsInv'
<1> DEFINE o == refresh[t][k]
           r == [o EXCEPT !.step = "refused"]
<1>1. TypeOK /\ SetRefresh(t, k, r) /\ Flies(t, k) /\ o \in Refresh
    BY FlightTypes DEF LoseAnswer, SessionsInv, Placed
<1>2. r \in Refresh /\ r.token = o.token /\ r.step = "refused"
    BY <1>1 DEF Refresh
<1>3. /\ o.token \in Issued /\ tokens[o.token].line \in Lines
    BY <1>1, TokenTypes DEF SessionsInv, Placed, FlightsPlaced, FlightPlaced, Token
<1>4. /\ UNCHANGED <<app, tokens, expired, active, session, call, logouts, denials, overlaps,
                     crossed, lapsed, parallel, copied, signedOut, thrownOut>>
      /\ lossy' = lossy \cup {LineOf(o)} /\ lapsed \subseteq Lines
    BY <1>1 DEF LoseAnswer, server, TypeOK
<1>5. incidents' \in 0 .. MaxIncidents
    BY <1>1, SessionsAssumption DEF LoseAnswer, Incident, TypeOK
<1>6. lossy' \subseteq Lines /\ LineOf(r) \in lossy'
    BY <1>1, <1>2, <1>3, <1>4 DEF TypeOK, LineOf
<1> HIDE DEF o, r
<1> QED BY <1>1, <1>2, <1>4, <1>5, <1>6, FlightStep DEF o

-----------------------------------------------------------------------------
(* Steps that write tokens.                                                *)

LEMMA RevokeWrites ==
    ASSUME TypeOK, NEW id \in Issued, tokens' = [tokens EXCEPT ![id].revoked = TRUE]
    PROVE  /\ tokens' \in Seq(Token) /\ Len(tokens') = Len(tokens) /\ Issued' = Issued
           /\ \A i \in Issued : /\ tokens'[i].line = tokens[i].line
                                /\ tokens'[i].user = tokens[i].user
                                /\ i # id => tokens'[i] = tokens[i]
           /\ \A l : Live(l)' = Live(l) \ {id}
<1> DEFINE new == [tokens[id] EXCEPT !.revoked = TRUE]
<1>1. /\ tokens \in Seq(Token) /\ Len(tokens) \in Nat /\ DOMAIN tokens = Issued
      /\ tokens[id] \in Token
    BY TokenTypes
<1>2. new \in Token /\ new.line = tokens[id].line /\ new.user = tokens[id].user /\ new.revoked
    BY <1>1 DEF Token
<1>3. tokens' = [tokens EXCEPT ![id] = new]
    BY <1>1
<1> HIDE DEF new
<1>4. /\ tokens' \in Seq(Token) /\ Len(tokens') = Len(tokens)
      /\ DOMAIN tokens' = Issued /\ tokens'[id] = new
      /\ \A i \in Issued : i # id => tokens'[i] = tokens[i]
  <2>1. /\ [tokens EXCEPT ![id] = new] \in Seq(Token)
        /\ Len([tokens EXCEPT ![id] = new]) = Len(tokens)
    <3>1. tokens \in Seq(Token) /\ id \in 1 .. Len(tokens) /\ new \in Token
        BY <1>1, <1>2 DEF Issued
    <3> QED BY <3>1, ExceptSeq
  <2>2. tokens' \in Seq(Token) /\ Len(tokens') = Len(tokens)
      BY <1>3, <2>1
  <2> QED BY <1>1, <1>3, <2>2 DEF Issued
<1>5. Issued' = Issued
    BY <1>4 DEF Issued
<1>6. ASSUME NEW l PROVE Live(l)' = Live(l) \ {id}
    BY <1>1, <1>2, <1>4 DEF Live
<1> QED BY <1>2, <1>4, <1>5, <1>6

LEMMA AppendWrites ==
    ASSUME TypeOK, Len(tokens) < MaxTokens, NEW new \in Token, ~new.revoked,
           tokens' = Append(tokens, new), NEW n, n = Len(tokens) + 1
    PROVE  /\ tokens' \in Seq(Token) /\ Len(tokens') <= MaxTokens
           /\ Issued' = Issued \cup {n} /\ n \notin Issued /\ n \in Ids
           /\ tokens'[n] = new
           /\ \A i \in Issued : tokens'[i] = tokens[i]
           /\ \A l : Live(l)' = IF l = new.line THEN Live(l) \cup {n} ELSE Live(l)
<1>1. tokens \in Seq(Token) /\ Len(tokens) \in Nat /\ DOMAIN tokens = Issued
    BY TokenTypes
<1>2. /\ tokens' \in Seq(Token) /\ Len(tokens') = Len(tokens) + 1
      /\ tokens'[n] = new
      /\ \A i \in 1 .. Len(tokens) : tokens'[i] = tokens[i]
    BY <1>1
<1>3. Issued' = Issued \cup {n} /\ n \notin Issued /\ n \in Ids /\ Len(tokens') <= MaxTokens
    BY <1>1, <1>2, SessionsAssumption DEF Issued, Ids
<1>4. DOMAIN tokens' = Issued \cup {n}
    BY <1>2, <1>3, LenProperties DEF Issued
<1>5. \A i \in Issued : tokens'[i] = tokens[i]
    BY <1>2 DEF Issued
<1>6. ASSUME NEW l PROVE Live(l)' = IF l = new.line THEN Live(l) \cup {n} ELSE Live(l)
    BY <1>1, <1>2, <1>3, <1>4, <1>5 DEF Live
<1> QED BY <1>2, <1>3, <1>5, <1>6

\* Whoever looks at a token's line and user sees the same.
LEMMA SameLines ==
    ASSUME SessionsInv, Issued' = Issued,
           \A i \in Issued : tokens'[i].line = tokens[i].line /\ tokens'[i].user = tokens[i].user
    PROVE  /\ TokensPlaced'
           /\ \A l \in Issued : Clean(l)' <=> /\ l \notin lossy' \cup copied' \cup crossed' \cup parallel'
                                              /\ tokens[l].user \in active'
<1>1. TokensPlaced
    BY DEF SessionsInv, Placed
<1>2. \A id \in Issued : tokens[id].line \in Issued
  <2> TAKE id \in Issued
  <2>1. tokens[id].line \in 1 .. id /\ Len(tokens) \in Nat
      BY <1>1, TokenTypes DEF TokensPlaced, SessionsInv, Placed
  <2> QED BY <2>1 DEF Issued
<1> QED BY <1>1, <1>2 DEF TokensPlaced, Clean

\* The tab that holds a line nothing disturbed has its only refresh.
LEMMA OnlyFlight ==
    ASSUME SessionsInv, OneFlight, NEW l, l \notin crossed \cup parallel, OrderlyLine(l),
           NEW s \in Tabs, NEW j \in Calls, Flies(s, j), tokens[refresh[s][j].token].line = l,
           NEW t \in Tabs, NEW k \in Calls, Flies(t, k), tokens[refresh[t][k].token].line = l
    PROVE  s = t /\ j = k
<1>1. HeldBy(l, s) /\ HeldBy(l, t)
    BY DEF SessionsInv, Placed, FlightsPlaced, FlightPlaced, HeldBy
<1>2. s = t
    BY <1>1 DEF OrderlyLine
<1> QED BY <1>2 DEF OneFlight

LEMMA RevokeTokenKeeps ==
    ASSUME SessionsInv, NEW t \in Tabs, NEW k \in Calls, RevokeToken(t, k)
    PROVE  SessionsInv'
<1> DEFINE o == refresh[t][k]
           r == [o EXCEPT !.step = "issue"]
           id == o.token
           m == tokens[id].line
<1>1. /\ TypeOK /\ Flies(t, k) /\ o \in Refresh /\ o.step = "revoke"
    BY FlightTypes DEF RevokeToken, SessionsInv, Placed, Flies
<1>2. r \in Refresh /\ r.token = id /\ r.step = "issue"
    BY <1>1 DEF Refresh
<1>3. id \in Issued /\ o.live /\ m \in Lines
    BY <1>1, TokenTypes DEF SessionsInv, Placed, FlightsPlaced, FlightPlaced, Token
<1>4. /\ tokens' = [tokens EXCEPT ![id].revoked = TRUE]
      /\ SetRefresh(t, k, r)
      /\ overlaps' = IF tokens[id].revoked THEN [overlaps EXCEPT ![m] = @ + 1] ELSE overlaps
      /\ UNCHANGED <<app, expired, active, session, call, logouts, denials, incidents, lossy,
                     crossed, lapsed, parallel, copied, signedOut, thrownOut>>
    BY <1>3 DEF RevokeToken, LineOf
<1> HIDE DEF o, r, id, m
<1>5. /\ tokens' \in Seq(Token) /\ Len(tokens') = Len(tokens) /\ Issued' = Issued
      /\ \A i \in Issued : /\ tokens'[i].line = tokens[i].line
                           /\ tokens'[i].user = tokens[i].user
      /\ \A l : Live(l)' = Live(l) \ {id}
    BY <1>1, <1>3, <1>4, RevokeWrites
<1>6. /\ refresh' \in [Tabs -> [Calls -> Refresh \cup {NoRefresh}]]
      /\ refresh'[t][k] = r
      /\ \A s \in Tabs : \A j \in Calls : s # t \/ j # k => refresh'[s][j] = refresh[s][j]
    BY <1>1, <1>2, <1>4, SetRefreshSets
<1>7. TypeOK'
    BY <1>1, <1>3, <1>4, <1>5, <1>6 DEF TypeOK
<1>8. \A s \in Tabs : \A j \in Calls : Flies(s, j)' = Flies(s, j)
    BY <1>1, <1>2, <1>6 DEF Flies
<1>9. TokensPlaced' /\ \A l \in Issued : Clean(l)' = Clean(l)
  <2>1. \A l \in Issued : Clean(l)' <=> Clean(l)
      BY <1>4, <1>5, SameLines DEF Clean
  <2> QED BY <1>5, <2>1, SameLines DEF Clean
<1>10. SessionsPlaced' /\ MarksPlaced' /\ ByClient'
    BY <1>4, <1>5 DEF SessionsInv, Placed, SessionsPlaced, MarksPlaced, ByClient, RevokesOnLogout, SharesRefresh
<1>11. FlightsPlaced'
  <2>1. FlightPlaced(t, k)'
      BY <1>1, <1>2, <1>4, <1>5, <1>6 DEF SessionsInv, Placed, FlightsPlaced, FlightPlaced, o, id
  <2>2. ASSUME NEW s \in Tabs, NEW j \in Calls, s # t \/ j # k, Flies(s, j)
        PROVE  FlightPlaced(s, j)'
      BY <1>4, <1>5, <1>6, <2>2 DEF SessionsInv, Placed, FlightsPlaced, FlightPlaced
  <2> QED BY <1>8, <2>1, <2>2, SMTT(40) DEF FlightsPlaced
<1>12. Unforked'
  <2>1. ASSUME NEW l \in Lines
        PROVE  Issuing(l)' = IF l = m THEN Issuing(l) \cup {<<t, k>>} ELSE Issuing(l)
    <3>1. \A s \in Tabs : \A j \in Calls : Flies(s, j) =>
              tokens'[refresh[s][j].token].line = tokens[refresh[s][j].token].line
        BY <1>5 DEF SessionsInv, Placed, FlightsPlaced, FlightPlaced
    <3>2. \A s \in Tabs : \A j \in Calls : (s # t \/ j # k) =>
              (<<s, j>> \in Issuing(l)' <=> <<s, j>> \in Issuing(l))
        BY <1>6, <3>1 DEF Issuing, Flies
    <3>3. /\ <<t, k>> \in Issuing(l)' <=> l = m
          /\ <<t, k>> \notin Issuing(l)
        BY <1>1, <1>2, <1>3, <1>5, <1>6 DEF Issuing, m, o
    <3>4. Issuing(l) \subseteq Tabs \X Calls /\ Issuing(l)' \subseteq Tabs \X Calls
        BY DEF Issuing
    <3>5. ASSUME NEW p \in Tabs \X Calls
          PROVE  p \in Issuing(l)' <=>
                     p \in (IF l = m THEN Issuing(l) \cup {<<t, k>>} ELSE Issuing(l))
      <4>1. PICK s \in Tabs, j \in Calls : p = <<s, j>>
          OBVIOUS
      <4> QED BY <3>2, <3>3, <4>1
    <3> QED BY <3>4, <3>5
  <2>2. ASSUME NEW l \in Lines
        PROVE  Cardinality(Live(l)') + Cardinality(Issuing(l)') <= 1 + overlaps'[l]
    <3>1. /\ IsFiniteSet(Live(l)) /\ Cardinality(Live(l)) \in Nat
          /\ IsFiniteSet(Issuing(l)) /\ Cardinality(Issuing(l)) \in Nat
          /\ Cardinality(Live(l)) + Cardinality(Issuing(l)) <= 1 + overlaps[l]
          /\ overlaps[l] \in Nat
        BY <1>1, LiveFinite, IssuingFinite DEF SessionsInv, Unforked, TypeOK
    <3>2. Cardinality(Live(l)') = IF id \in Live(l) THEN Cardinality(Live(l)) - 1
                                  ELSE Cardinality(Live(l))
        BY <1>5, <3>1, FS_RemoveElement
    <3>3. id \in Live(m) <=> ~tokens[id].revoked
        BY <1>1, <1>3, TokenTypes DEF Live, m
    <3>4. CASE l # m
      <4>1. Issuing(l)' = Issuing(l) /\ overlaps'[l] = overlaps[l]
          BY <1>1, <1>4, <2>1, <3>4 DEF TypeOK
      <4> QED BY <3>1, <3>2, <4>1
    <3>5. CASE l = m
      <4>1. Cardinality(Issuing(l)') <= Cardinality(Issuing(l)) + 1 /\ Cardinality(Issuing(l)') \in Nat
        <5>1. /\ IsFiniteSet(Issuing(l)') /\ Cardinality(Issuing(l)') \in
                     {Cardinality(Issuing(l)), Cardinality(Issuing(l)) + 1}
          <6>1. Issuing(l)' = Issuing(l) \cup {<<t, k>>}
              BY <2>1, <3>5
          <6>2. /\ IsFiniteSet(Issuing(l) \cup {<<t, k>>})
                /\ Cardinality(Issuing(l) \cup {<<t, k>>}) \in
                      {Cardinality(Issuing(l)), Cardinality(Issuing(l)) + 1}
              BY <3>1, FS_AddElement
          <6> QED BY <6>1, <6>2
        <5> QED BY <3>1, <5>1
      <4>2. CASE tokens[id].revoked
        <5>1. overlaps'[l] = overlaps[l] + 1
            BY <1>1, <1>4, <3>5, <4>2 DEF TypeOK
        <5>2. Cardinality(Live(l)') = Cardinality(Live(l))
            BY <3>2, <3>3, <3>5, <4>2
        <5> QED BY <3>1, <4>1, <5>1, <5>2
      <4>3. CASE ~tokens[id].revoked
        <5>1. overlaps'[l] = overlaps[l]
            BY <1>4, <4>3
        <5>2. Cardinality(Live(l)') = Cardinality(Live(l)) - 1
            BY <3>2, <3>3, <3>5, <4>3
        <5> QED BY <3>1, <4>1, <5>1, <5>2
      <4> QED BY <4>2, <4>3
    <3> QED BY <3>4, <3>5
  <2> QED BY <2>2 DEF Unforked
<1>13. Orderly'
  <2> SUFFICES OneFlight' /\ \A l \in Issued : Clean(l) => OrderlyLine(l)'
      BY <1>4, <1>5, <1>9 DEF Orderly
  <2>1. OneFlight /\ \A l \in Issued : Clean(l) => OrderlyLine(l)
      BY DEF SessionsInv, Orderly
  <2>2. OneFlight'
    <3>1. ASSUME NEW s \in Tabs, NEW j \in Calls, Flies(s, j)
          PROVE  tokens'[refresh'[s][j].token].line = tokens[refresh[s][j].token].line
      <4>1. refresh'[s][j].token = refresh[s][j].token
          BY <1>2, <1>6 DEF o, id
      <4> QED BY <1>5, <3>1, <4>1 DEF SessionsInv, Placed, FlightsPlaced, FlightPlaced
    <3> QED BY <1>4, <1>8, <2>1, <3>1, OneFlightKept
  <2>3. ASSUME NEW l \in Issued, Clean(l)
        PROVE  OrderlyLine(l)'
    <3>1. OrderlyLine(l) /\ l \notin crossed \cup parallel
        BY <2>1, <2>3 DEF Clean
    <3>2. \A s \in Tabs : Idle(s)' = Idle(s) /\ HeldBy(l, s)' = HeldBy(l, s)
        BY <1>4, <1>8 DEF Idle, HeldBy
    <3>3. CASE l # m
      <4>1. Live(l)' = Live(l)
        <5>1. id \notin Live(l)
            BY <3>3 DEF Live, m
        <5> QED BY <1>5, <5>1
      <4>2. ASSUME NEW s \in Tabs, NEW j \in Calls, Flies(s, j),
                   tokens'[refresh'[s][j].token].line = l
            PROVE  FlightOrderly(l, refresh'[s][j])
        <5>1. s # t \/ j # k
            BY <1>2, <1>3, <1>5, <1>6, <3>3, <4>2 DEF m
        <5>2. refresh'[s][j] = refresh[s][j] /\ refresh[s][j].token \in Issued
            BY <1>6, <4>2, <5>1 DEF SessionsInv, Placed, FlightsPlaced, FlightPlaced
        <5> QED BY <1>5, <3>1, <4>2, <5>2 DEF OrderlyLine
      <4>3. \A i \in logouts : tokens'[i].line = tokens[i].line
          BY <1>5 DEF SessionsInv, Placed, MarksPlaced
      <4> QED BY <1>4, <1>8, <3>1, <3>2, <4>1, <4>2, <4>3 DEF OrderlyLine, FlightOrderly
    <3>4. CASE l = m
      <4>1. Live(l) = {id} /\ Live(l)' = {}
          BY <1>1, <1>5, <3>1, <3>4 DEF OrderlyLine, FlightOrderly, m, id, o
      <4>2. ASSUME NEW s \in Tabs, NEW j \in Calls, Flies(s, j),
                   tokens'[refresh'[s][j].token].line = l
            PROVE  s = t /\ j = k
        <5>1. CASE s # t \/ j # k
          <6>1. refresh'[s][j] = refresh[s][j] /\ refresh[s][j].token \in Issued
              BY <1>6, <4>2, <5>1 DEF SessionsInv, Placed, FlightsPlaced, FlightPlaced
          <6>2. tokens[refresh[s][j].token].line = l
              BY <1>5, <4>2, <6>1
          <6> QED BY <1>1, <2>1, <3>1, <3>4, <4>2, <6>2, OnlyFlight DEF m, id, o
        <5> QED BY <5>1
      <4>3. HeldBy(l, t) /\ ~Idle(t)
          BY <1>1, <3>1, <3>4 DEF SessionsInv, Placed, FlightsPlaced, FlightPlaced, HeldBy, Idle,
                                  m, id, o
      <4>4. \A i \in logouts : tokens'[i].line = tokens[i].line
          BY <1>5 DEF SessionsInv, Placed, MarksPlaced
      <4>5. \A s \in Tabs : HeldBy(l, s) => s = t
          BY <3>1, <4>3 DEF OrderlyLine
      <4> QED BY <1>2, <1>4, <1>6, <1>8, <3>1, <3>2, <4>1, <4>2, <4>3, <4>4, <4>5, SMTT(40)
              DEF OrderlyLine, FlightOrderly
    <3> QED BY <3>3, <3>4
  <2> QED BY <2>2, <2>3
<1> QED BY <1>7, <1>9, <1>10, <1>11, <1>12, <1>13 DEF SessionsInv, Placed

\* What a line keeps when a step changes nothing of it.
LEMMA LineUndisturbed ==
    ASSUME NEW l, OrderlyLine(l), Live(l)' = Live(l), lapsed \subseteq lapsed',
           \A s \in Tabs : \A j \in Calls :
               Flies(s, j)' /\ tokens'[refresh'[s][j].token].line = l =>
                   /\ Flies(s, j) /\ refresh'[s][j] = refresh[s][j]
                   /\ tokens[refresh[s][j].token].line = l,
           \A s \in Tabs :
               HeldBy(l, s)' => HeldBy(l, s) /\ session'[s] = session[s] /\ (Idle(s)' => Idle(s)),
           \A id \in logouts' : tokens'[id].line = l => id \in logouts /\ tokens[id].line = l,
           l \in signedOut' => l \in signedOut,
           l \in thrownOut' => l \in thrownOut
    PROVE  OrderlyLine(l)'
<1>1. \A s, t \in Tabs : HeldBy(l, s)' /\ HeldBy(l, t)' => s = t
    BY DEF OrderlyLine
<1>2. \A t \in Tabs : HeldBy(l, t)' /\ Idle(t)' => Live(l)' = {session'[t].token}
    BY DEF OrderlyLine
<1>3. ASSUME NEW t \in Tabs, NEW k \in Calls,
             Flies(t, k)', tokens'[refresh'[t][k].token].line = l
      PROVE  FlightOrderly(l, refresh[t][k])'
  <2>1. FlightOrderly(l, refresh[t][k]) /\ refresh'[t][k] = refresh[t][k]
      BY <1>3 DEF OrderlyLine
  <2> QED BY <2>1 DEF FlightOrderly
<1>4. \A id \in logouts' : tokens'[id].line = l =>
          Live(l)' \subseteq {id} /\ \A t \in Tabs : ~HeldBy(l, t)'
    BY DEF OrderlyLine
<1>5. /\ l \in signedOut' => Live(l)' = {} /\ \A t \in Tabs : ~HeldBy(l, t)'
      /\ l \in thrownOut' => l \in lapsed'
    BY DEF OrderlyLine
<1>6. \A t \in Tabs : \A k \in Calls :
          Flies(t, k)' /\ tokens'[refresh'[t][k].token].line = l => FlightOrderly(l, refresh[t][k])'
    BY <1>3
<1> QED BY <1>1, <1>2, <1>4, <1>5, <1>6 DEF OrderlyLine

LEMMA IssueTokenKeeps ==
    ASSUME SessionsInv, NEW t \in Tabs, NEW k \in Calls, IssueToken(t, k)
    PROVE  SessionsInv'
<1>n. PICK n : n = Len(tokens) + 1
    OBVIOUS
<1> DEFINE o == refresh[t][k]
           r == [o EXCEPT !.step = "account", !.new = n]
           id == o.token
           new == [tokens[id] EXCEPT !.revoked = FALSE]
           m == tokens[id].line
<1>1. /\ TypeOK /\ Flies(t, k) /\ o \in Refresh /\ o.step = "issue"
    BY FlightTypes DEF IssueToken, SessionsInv, Placed, Flies
<1>2. /\ tokens' = Append(tokens, new) /\ SetRefresh(t, k, r) /\ Len(tokens) < MaxTokens
      /\ UNCHANGED <<app, expired, active, session, call, logouts, denials, incidents, overlaps,
                     lossy, crossed, lapsed, parallel, copied, signedOut, thrownOut>>
    BY <1>n DEF IssueToken, history
<1>3. id \in Issued /\ m \in Lines /\ m \in 1 .. id /\ tokens[id] \in Token
    BY <1>1, TokenTypes DEF SessionsInv, Placed, FlightsPlaced, FlightPlaced, TokensPlaced, Token
<1>4. new \in Token /\ ~new.revoked /\ new.line = m /\ new.user = tokens[id].user
    BY <1>3 DEF Token
<1> HIDE DEF new, id, m, o, r
<1>5. /\ tokens' \in Seq(Token) /\ Len(tokens') <= MaxTokens
      /\ Issued' = Issued \cup {n} /\ n \notin Issued /\ n \in Ids
      /\ tokens'[n] = new
      /\ \A i \in Issued : tokens'[i] = tokens[i]
      /\ \A l : Live(l)' = IF l = new.line THEN Live(l) \cup {n} ELSE Live(l)
    BY <1>n, <1>1, <1>2, <1>4, AppendWrites, ZenonT(60)
<1>6. r \in Refresh /\ r.token = id /\ r.step = "account" /\ r.new = n
    BY <1>1, <1>5 DEF Refresh, r, id
<1>7. /\ refresh' \in [Tabs -> [Calls -> Refresh \cup {NoRefresh}]]
      /\ refresh'[t][k] = r
      /\ \A s \in Tabs : \A j \in Calls : s # t \/ j # k => refresh'[s][j] = refresh[s][j]
    BY <1>1, <1>2, <1>6, SetRefreshSets
<1>8. TypeOK'
    BY <1>1, <1>2, <1>5, <1>7 DEF TypeOK
<1>9. \A s \in Tabs : \A j \in Calls : Flies(s, j)' = Flies(s, j)
    BY <1>1, <1>6, <1>7 DEF Flies
<1>10. \A i \in Issued : tokens[i].line \in Issued
  <2> TAKE i \in Issued
  <2>1. tokens[i].line \in 1 .. i /\ Len(tokens) \in Nat
      BY <1>1, TokenTypes DEF SessionsInv, Placed, TokensPlaced
  <2> QED BY <2>1 DEF Issued
<1>11. TokensPlaced'
  <2>1. ASSUME NEW i \in Issued
        PROVE  /\ tokens'[i].line \in 1 .. i
               /\ tokens'[tokens'[i].line].line = tokens'[i].line
               /\ tokens'[tokens'[i].line].user = tokens'[i].user
      BY <1>5, <1>10 DEF SessionsInv, Placed, TokensPlaced
  <2>2. /\ tokens'[n].line \in 1 .. n
        /\ tokens'[tokens'[n].line].line = tokens'[n].line
        /\ tokens'[tokens'[n].line].user = tokens'[n].user
    <3>1. m \in 1 .. n
        BY <1>n, <1>1, <1>3, TokenTypes DEF Issued
    <3>2. m \in Issued /\ tokens[m].line = m /\ tokens[m].user = tokens[id].user
        BY <1>3, <1>10 DEF SessionsInv, Placed, TokensPlaced, m
    <3> QED BY <1>4, <1>5, <3>1, <3>2
  <2> QED BY <1>5, <2>1, <2>2 DEF TokensPlaced
<1>12. SessionsPlaced' /\ MarksPlaced' /\ ByClient'
    BY <1>2, <1>5 DEF SessionsInv, Placed, SessionsPlaced, MarksPlaced, ByClient, RevokesOnLogout, SharesRefresh
<1>13. FlightsPlaced'
  <2>1. FlightPlaced(t, k)'
    <3>1. /\ m = session[t].line \/ m \in crossed
          /\ m = session[t].line \/ session[t].line \in crossed \cup {0}
          /\ id = session[t].token \/ m \in crossed \cup parallel
        BY <1>1 DEF SessionsInv, Placed, FlightsPlaced, FlightPlaced, o, id, m
    <3>2. /\ tokens'[id].line = m /\ tokens'[id].user = tokens[id].user /\ id \in Issued'
          /\ tokens'[n].line = m /\ tokens'[n].user = tokens[id].user /\ n \in Issued'
        BY <1>3, <1>4, <1>5 DEF m
    <3>3. session' = session /\ crossed' = crossed /\ parallel' = parallel
        BY <1>2
    <3> HIDE DEF FlightPlaced
    <3> QED BY <1>6, <1>7, <3>1, <3>2, <3>3 DEF FlightPlaced
  <2>2. ASSUME NEW s \in Tabs, NEW j \in Calls, s # t \/ j # k, Flies(s, j)
        PROVE  FlightPlaced(s, j)'
    <3>1. FlightPlaced(s, j)
        BY <2>2 DEF SessionsInv, Placed, FlightsPlaced
    <3>2. /\ refresh'[s][j] = refresh[s][j] /\ session' = session
          /\ crossed' = crossed /\ parallel' = parallel
        BY <1>2, <1>7, <2>2
    <3> QED BY <1>5, <3>1, <3>2 DEF FlightPlaced
  <2> QED BY <1>9, <2>1, <2>2 DEF FlightsPlaced
<1>14. Unforked'
  <2>1. ASSUME NEW l \in Lines
        PROVE  Issuing(l)' = IF l = m THEN Issuing(l) \ {<<t, k>>} ELSE Issuing(l)
    <3>1. \A s \in Tabs : \A j \in Calls : Flies(s, j) =>
              tokens'[refresh[s][j].token].line = tokens[refresh[s][j].token].line
        BY <1>5 DEF SessionsInv, Placed, FlightsPlaced, FlightPlaced
    <3>2. \A s \in Tabs : \A j \in Calls : (s # t \/ j # k) =>
              (<<s, j>> \in Issuing(l)' <=> <<s, j>> \in Issuing(l))
        BY <1>7, <3>1 DEF Issuing, Flies
    <3>3. /\ <<t, k>> \notin Issuing(l)'
          /\ <<t, k>> \in Issuing(l) <=> l = m
        BY <1>1, <1>6, <1>7 DEF Issuing, m, o, id
    <3>4. Issuing(l) \subseteq Tabs \X Calls /\ Issuing(l)' \subseteq Tabs \X Calls
        BY DEF Issuing
    <3>5. ASSUME NEW p \in Tabs \X Calls
          PROVE  p \in Issuing(l)' <=>
                     p \in (IF l = m THEN Issuing(l) \ {<<t, k>>} ELSE Issuing(l))
      <4>1. PICK s \in Tabs, j \in Calls : p = <<s, j>>
          OBVIOUS
      <4> QED BY <3>2, <3>3, <4>1
    <3> QED BY <3>4, <3>5
  <2>2. ASSUME NEW l \in Lines
        PROVE  Cardinality(Live(l)') + Cardinality(Issuing(l)') <= 1 + overlaps'[l]
    <3>1. /\ IsFiniteSet(Live(l)) /\ Cardinality(Live(l)) \in Nat
          /\ IsFiniteSet(Issuing(l)) /\ Cardinality(Issuing(l)) \in Nat
          /\ Cardinality(Live(l)) + Cardinality(Issuing(l)) <= 1 + overlaps[l]
          /\ overlaps[l] \in Nat
        BY <1>1, LiveFinite, IssuingFinite DEF SessionsInv, Unforked, TypeOK
    <3>2. CASE l # m
        BY <1>2, <1>4, <1>5, <2>1, <3>1, <3>2
    <3>3. CASE l = m
      <4>1. Issuing(l)' = Issuing(l) \ {<<t, k>>} /\ Live(l)' = Live(l) \cup {n}
          BY <1>4, <1>5, <2>1, <3>3
      <4>2. <<t, k>> \in Issuing(l)
          BY <1>1, <3>3 DEF Issuing, m, o, id
      <4>3. Cardinality(Issuing(l)') = Cardinality(Issuing(l)) - 1
        <5>1. Cardinality(Issuing(l) \ {<<t, k>>}) = Cardinality(Issuing(l)) - 1
            BY <3>1, <4>2, FS_RemoveElement
        <5> QED BY <4>1, <5>1
      <4>4. /\ Cardinality(Live(l)') <= Cardinality(Live(l)) + 1
            /\ Cardinality(Live(l)') \in Nat
        <5>1. Cardinality(Live(l) \cup {n}) \in {Cardinality(Live(l)), Cardinality(Live(l)) + 1}
            BY <3>1, FS_AddElement
        <5> QED BY <3>1, <4>1, <5>1
      <4> QED BY <1>2, <3>1, <4>3, <4>4
    <3> QED BY <3>2, <3>3
  <2> QED BY <2>2 DEF Unforked
<1>15. Orderly'
  <2> SUFFICES OneFlight' /\ \A l \in Issued' : Clean(l)' => OrderlyLine(l)'
      BY <1>2 DEF Orderly
  <2>1. OneFlight /\ \A l \in Issued : Clean(l) => OrderlyLine(l)
      BY DEF SessionsInv, Orderly
  <2>2. OneFlight'
    <3>1. ASSUME NEW s \in Tabs, NEW j \in Calls, Flies(s, j)
          PROVE  tokens'[refresh'[s][j].token].line = tokens[refresh[s][j].token].line
      <4>1. refresh'[s][j].token = refresh[s][j].token
          BY <1>6, <1>7 DEF o, id
      <4> QED BY <1>5, <3>1, <4>1 DEF SessionsInv, Placed, FlightsPlaced, FlightPlaced
    <3> QED BY <1>2, <1>9, <2>1, <3>1, OneFlightKept
  <2>3. \A i \in Issued : tokens'[i].line \in Issued
      BY <1>5, <1>10
  <2>4. OrderlyLine(n)'
    <3>1. m # n
        BY <1>3, <1>5, <1>10 DEF m
    <3>2. Live(n)' = {}
      <4>1. Live(n)' = Live(n)
          BY <1>4, <1>5, <3>1
      <4>2. Live(n) = {}
          BY <1>1, <1>5, <1>10, TokenTypes DEF Live
      <4> QED BY <4>1, <4>2
    <3>3. \A s \in Tabs : ~HeldBy(n, s)'
      <4> SUFFICES ASSUME NEW s \in Tabs, session[s].line = n PROVE FALSE
          BY <1>2 DEF HeldBy
      <4>1. n # 0
          BY <1>n, <1>1, TokenTypes
      <4> QED BY <1>5, <1>10, <4>1 DEF SessionsInv, Placed, SessionsPlaced
    <3>4. ASSUME NEW s \in Tabs, NEW j \in Calls, Flies(s, j)
          PROVE  tokens'[refresh'[s][j].token].line # n
      <4>1. refresh'[s][j].token \in Issued
        <5>1. CASE s # t \/ j # k
            BY <1>7, <3>4, <5>1 DEF SessionsInv, Placed, FlightsPlaced, FlightPlaced
        <5>2. CASE s = t /\ j = k
            BY <1>3, <1>6, <1>7, <5>2
        <5> QED BY <5>1, <5>2
      <4> QED BY <1>5, <2>3, <4>1
    <3>5. \A i \in logouts : tokens'[i].line # n
        BY <1>5, <2>3 DEF SessionsInv, Placed, MarksPlaced
    <3>6. n \notin signedOut /\ n \notin thrownOut
        BY <1>5 DEF SessionsInv, Placed, MarksPlaced
    <3> QED BY <1>2, <1>9, <3>2, <3>3, <3>4, <3>5, <3>6 DEF OrderlyLine
  <2>5. ASSUME NEW l \in Issued, Clean(l)'
        PROVE  OrderlyLine(l)'
    <3>1. Clean(l) /\ OrderlyLine(l) /\ l \notin crossed \cup parallel
        BY <1>2, <1>5, <2>1, <2>5 DEF Clean
    <3>2. \A s \in Tabs : Idle(s)' = Idle(s) /\ HeldBy(l, s)' = HeldBy(l, s)
        BY <1>2, <1>9 DEF Idle, HeldBy
    <3>3. \A i \in logouts : tokens'[i].line = tokens[i].line
        BY <1>5 DEF SessionsInv, Placed, MarksPlaced
    <3>4. ASSUME NEW s \in Tabs, NEW j \in Calls, Flies(s, j), s # t \/ j # k,
                 tokens'[refresh'[s][j].token].line = l
          PROVE  refresh'[s][j] = refresh[s][j] /\ tokens[refresh[s][j].token].line = l
      <4>1. refresh'[s][j] = refresh[s][j] /\ refresh[s][j].token \in Issued
          BY <1>7, <3>4 DEF SessionsInv, Placed, FlightsPlaced, FlightPlaced
      <4> QED BY <1>5, <3>4, <4>1
    <3>5. tokens'[refresh'[t][k].token].line = m
        BY <1>3, <1>5, <1>6, <1>7 DEF m
    <3>6. CASE l # m
      <4>1. Live(l)' = Live(l)
          BY <1>4, <1>5, <3>6
      <4>2. \A s \in Tabs : \A j \in Calls :
               Flies(s, j)' /\ tokens'[refresh'[s][j].token].line = l =>
                   /\ Flies(s, j) /\ refresh'[s][j] = refresh[s][j]
                   /\ tokens[refresh[s][j].token].line = l
          BY <1>9, <3>4, <3>5, <3>6
      <4> QED BY <1>2, <3>1, <3>2, <3>3, <4>1, <4>2, LineUndisturbed
    <3>7. CASE l = m
      <4>1. Live(l) = {} /\ Live(l)' = {n}
          BY <1>1, <1>4, <1>5, <3>1, <3>7, ZenonT(60) DEF OrderlyLine, FlightOrderly, m, id, o
      <4>2. \A s \in Tabs : \A j \in Calls :
               Flies(s, j) /\ tokens'[refresh'[s][j].token].line = l => s = t /\ j = k
          BY <1>1, <2>1, <3>1, <3>4, <3>7, OnlyFlight DEF m, id, o
      <4>3. HeldBy(l, t) /\ ~Idle(t)
          BY <1>1, <3>1, <3>7 DEF SessionsInv, Placed, FlightsPlaced, FlightPlaced, HeldBy, Idle,
                                  m, id, o
      <4>4. \A s \in Tabs : HeldBy(l, s) => s = t
          BY <3>1, <4>3 DEF OrderlyLine
      <4>5. ASSUME NEW s \in Tabs, NEW j \in Calls, Flies(s, j)',
                   tokens'[refresh'[s][j].token].line = l
            PROVE  refresh'[s][j].step = "account" /\ refresh'[s][j].new = n
          BY <1>6, <1>7, <1>9, <4>2, <4>5
      <4>6. /\ \A s \in Tabs : HeldBy(l, s)' => s = t
            /\ ~Idle(t)'
          BY <3>2, <4>3, <4>4
      <4>7. /\ \A i \in logouts' : tokens'[i].line # l
            /\ l \notin signedOut' /\ (l \in thrownOut' => l \in lapsed')
          BY <1>2, <3>1, <3>3, <4>3 DEF OrderlyLine
      <4> QED BY <4>1, <4>5, <4>6, <4>7, SMTT(40) DEF OrderlyLine, FlightOrderly
    <3> QED BY <3>6, <3>7
  <2> QED BY <1>5, <2>2, <2>4, <2>5
<1> QED BY <1>8, <1>11, <1>12, <1>13, <1>14, <1>15 DEF SessionsInv, Placed

LEMMA HandleLogoutKeeps ==
    ASSUME SessionsInv, NEW id \in logouts, HandleLogout(id)
    PROVE  SessionsInv'
<1> DEFINE m == tokens[id].line
<1>1. TypeOK /\ id \in Issued
    BY DEF SessionsInv, Placed, MarksPlaced
<1>2. /\ tokens' = [tokens EXCEPT ![id].revoked = TRUE]
      /\ logouts' = logouts \ {id} /\ signedOut' = signedOut \cup {m}
      /\ UNCHANGED <<app, expired, active, session, call, refresh, denials, incidents, overlaps,
                     lossy, crossed, lapsed, parallel, copied, thrownOut>>
    BY DEF HandleLogout
<1>3. \A i \in Issued : tokens[i].line \in Issued /\ tokens[i].line \in Lines
  <2> TAKE i \in Issued
  <2>1. tokens[i].line \in 1 .. i /\ Len(tokens) \in Nat /\ tokens[i] \in Token
      BY <1>1, TokenTypes DEF SessionsInv, Placed, TokensPlaced
  <2> QED BY <2>1 DEF Issued, Token
<1> HIDE DEF m
<1>4. /\ tokens' \in Seq(Token) /\ Len(tokens') = Len(tokens) /\ Issued' = Issued
      /\ \A i \in Issued : /\ tokens'[i].line = tokens[i].line
                           /\ tokens'[i].user = tokens[i].user
      /\ \A l : Live(l)' = Live(l) \ {id}
    BY <1>1, <1>2, RevokeWrites
<1>5. TypeOK'
    BY <1>1, <1>2, <1>3, <1>4 DEF TypeOK, m
<1>6. TokensPlaced' /\ \A l \in Issued : Clean(l)' = Clean(l)
  <2>1. \A l \in Issued : Clean(l)' <=> Clean(l)
      BY <1>2, <1>4, SameLines DEF Clean
  <2> QED BY <1>4, <2>1, SameLines DEF Clean
<1>7. SessionsPlaced' /\ MarksPlaced' /\ ByClient'
    BY <1>1, <1>2, <1>3, <1>4 DEF SessionsInv, Placed, SessionsPlaced, MarksPlaced, ByClient,
                                  RevokesOnLogout, SharesRefresh, m
<1>8. \A s \in Tabs : \A j \in Calls : Flies(s, j)' = Flies(s, j)
    BY <1>2 DEF Flies
<1>9. FlightsPlaced'
    BY <1>2, <1>4, <1>8 DEF SessionsInv, Placed, FlightsPlaced, FlightPlaced
<1>a. \A s \in Tabs : \A j \in Calls : Flies(s, j) =>
          tokens'[refresh[s][j].token].line = tokens[refresh[s][j].token].line
    BY <1>4 DEF SessionsInv, Placed, FlightsPlaced, FlightPlaced
<1>10. Unforked'
  <2>1. \A l \in Lines : Issuing(l)' \subseteq Issuing(l)
      BY <1>2, <1>a DEF Issuing, Flies
  <2> QED BY <1>2, <1>4, <1>5, <2>1, UnforkedShrinks
<1>11. Orderly'
  <2> SUFFICES OneFlight' /\ \A l \in Issued : Clean(l) => OrderlyLine(l)'
      BY <1>2, <1>4, <1>6 DEF Orderly
  <2>1. OneFlight /\ \A l \in Issued : Clean(l) => OrderlyLine(l)
      BY DEF SessionsInv, Orderly
  <2>2. OneFlight'
      BY <1>2, <1>8, <1>a, <2>1, OneFlightKept
  <2>3. ASSUME NEW l \in Issued, Clean(l)
        PROVE  OrderlyLine(l)'
    <3>1. OrderlyLine(l) /\ l \notin crossed
        BY <2>1, <2>3 DEF Clean
    <3>2. \A s \in Tabs : Idle(s)' = Idle(s) /\ HeldBy(l, s)' = HeldBy(l, s)
        BY <1>2, <1>8 DEF Idle, HeldBy
    <3>3. \A i \in logouts : tokens'[i].line = tokens[i].line
        BY <1>4 DEF SessionsInv, Placed, MarksPlaced
    <3>4. CASE l # m
      <4>1. Live(l)' = Live(l)
        <5>1. id \notin Live(l)
            BY <3>4 DEF Live, m
        <5> QED BY <1>4, <5>1
      <4>2. \A s \in Tabs : \A j \in Calls :
               Flies(s, j)' /\ tokens'[refresh'[s][j].token].line = l =>
                   /\ Flies(s, j) /\ refresh'[s][j] = refresh[s][j]
                   /\ tokens[refresh[s][j].token].line = l
          BY <1>2, <1>8, <1>a
      <4> QED BY <1>2, <3>1, <3>2, <3>3, <3>4, <4>1, <4>2, LineUndisturbed
    <3>5. CASE l = m
      <4>1. Live(l)' = {} /\ \A s \in Tabs : ~HeldBy(l, s)
          BY <1>4, <3>1, <3>5 DEF OrderlyLine, m
      <4>2. \A s \in Tabs : \A j \in Calls :
               Flies(s, j) => tokens'[refresh[s][j].token].line # l
          BY <1>a, <3>1, <4>1 DEF SessionsInv, Placed, FlightsPlaced, FlightPlaced, HeldBy
      <4>3. l \in thrownOut => l \in lapsed
          BY <3>1 DEF OrderlyLine
      <4> QED BY <1>2, <1>8, <3>2, <4>1, <4>2, <4>3 DEF OrderlyLine
    <3> QED BY <3>4, <3>5
  <2> QED BY <2>2, <2>3
<1> QED BY <1>5, <1>6, <1>7, <1>9, <1>10, <1>11 DEF SessionsInv, Placed

-----------------------------------------------------------------------------
(* Steps of the tabs, which write no token but the first of a line.        *)

LEMMA InitSessions ==
    ASSUME Init
    PROVE  SessionsInv
<1>1. Len(tokens) = 0 /\ Issued = {}
    BY DEF Init, Issued
<1>2. TypeOK
  <2>1. tokens \in Seq(Token) /\ Len(tokens) <= MaxTokens
      BY <1>1, SessionsAssumption DEF Init
  <2>2. session \in [Tabs -> Session]
      BY DEF Init, Session, NoSession
  <2>3. denials \in 0 .. Max401 /\ incidents \in 0 .. MaxIncidents
      BY SessionsAssumption DEF Init
  <2> QED BY <2>1, <2>2, <2>3 DEF Init, TypeOK, Apps
<1>3. \A t \in Tabs : \A k \in Calls : ~Flies(t, k)
    BY DEF Init, Flies, NoRefresh
<1>4. Placed
    BY <1>1, <1>2, <1>3 DEF Placed, TokensPlaced, SessionsPlaced, FlightsPlaced, MarksPlaced,
                            ByClient, Init, NoSession
<1>5. Unforked
  <2> SUFFICES ASSUME NEW l \in Lines
               PROVE  Cardinality(Live(l)) + Cardinality(Issuing(l)) <= 1 + overlaps[l]
      BY DEF Unforked
  <2>1. Live(l) = {} /\ Issuing(l) = {}
      BY <1>1, <1>2, <1>3, TokenTypes DEF Live, Issuing, Flies, Init, NoRefresh
  <2> QED BY <2>1, FS_EmptySet DEF Init
<1>6. Orderly
    BY <1>1, <1>3 DEF Orderly, OneFlight
<1> QED BY <1>4, <1>5, <1>6 DEF SessionsInv

LEMMA QuietStep ==
    ASSUME SessionsInv, TypeOK', active' \subseteq active,
           UNCHANGED <<app, tokens, session, refresh, logouts, history>>
    PROVE  SessionsInv'
<1>1. /\ Issued' = Issued /\ \A l : Live(l)' = Live(l) /\ Issuing(l)' = Issuing(l)
      /\ \A s \in Tabs : \A j \in Calls : Flies(s, j)' = Flies(s, j)
    BY DEF Issued, Live, Issuing, Flies
<1>2. TokensPlaced' /\ SessionsPlaced' /\ FlightsPlaced' /\ MarksPlaced' /\ ByClient'
    BY <1>1 DEF SessionsInv, Placed, TokensPlaced, SessionsPlaced, FlightsPlaced, FlightPlaced,
                MarksPlaced, ByClient, RevokesOnLogout, SharesRefresh, history
<1>3. Unforked'
    BY <1>1, UnforkedShrinks DEF history
<1>4. OneFlight' /\ \A l \in Issued' : Clean(l)' => OrderlyLine(l)'
  <2>1. OneFlight /\ \A l \in Issued : Clean(l) => OrderlyLine(l)
      BY DEF SessionsInv, Orderly
  <2>2. OneFlight'
      BY <1>1, <2>1, OneFlightKept DEF history
  <2>3. ASSUME NEW l \in Issued, Clean(l)' PROVE OrderlyLine(l)'
    <3>1. OrderlyLine(l)
        BY <2>1, <2>3 DEF Clean, history
    <3>2. \A s \in Tabs : Idle(s)' = Idle(s) /\ HeldBy(l, s)' = HeldBy(l, s)
        BY <1>1 DEF Idle, HeldBy
    <3> QED BY <1>1, <3>1, <3>2, LineUndisturbed DEF history
  <2> QED BY <1>1, <2>2, <2>3
<1> QED BY <1>2, <1>3, <1>4 DEF SessionsInv, Placed, Orderly

\* Lines are numbered by tokens, which exist.
LEMMA LinesIssued ==
    ASSUME SessionsInv
    PROVE  /\ \A i \in Issued : tokens[i].line \in Issued /\ tokens[i].line \in Lines
           /\ \A i \in Issued : tokens[tokens[i].line].user = tokens[i].user
           /\ 0 \notin Issued /\ 0 \notin Lines
<1>1. TypeOK /\ TokensPlaced
    BY DEF SessionsInv, Placed
<1>2. Len(tokens) \in Nat
    BY <1>1, TokenTypes
<1>3. ASSUME NEW i \in Issued
      PROVE  tokens[i].line \in Issued /\ tokens[i].line \in Lines
  <2>1. tokens[i].line \in 1 .. i /\ tokens[i] \in Token
      BY <1>1, TokenTypes DEF TokensPlaced
  <2> QED BY <1>2, <2>1 DEF Issued, Token
<1> QED BY <1>1, <1>3 DEF TokensPlaced, Issued, Lines

LEMMA StartRefreshKeeps ==
    ASSUME SessionsInv, NEW t \in Tabs, NEW k \in Calls, StartRefresh(t, k)
    PROVE  SessionsInv'
<1> DEFINE r == [step |-> "read", token |-> session[t].token, new |-> 0, live |-> TRUE]
           m == session[t].line
<1>1. /\ TypeOK /\ SetRefresh(t, k, r) /\ session[t].token # 0 /\ ~Joins(t)
      /\ denials < Max401 /\ denials' = denials + 1
      /\ call' = [call EXCEPT ![t][k] = "waiting"]
      /\ UNCHANGED <<app, tokens, expired, active, session, logouts, incidents, overlaps, lossy,
                     crossed, lapsed, copied, signedOut, thrownOut>>
      /\ parallel' = IF InFlight(t) # {} THEN parallel \cup {m} ELSE parallel
    BY DEF StartRefresh, Denied, SessionsInv, Placed, server
<1>2. session[t].token \in Issued /\ tokens[session[t].token].line = m /\ m \in Lines
    BY <1>1, LinesIssued DEF SessionsInv, Placed, SessionsPlaced
<1>3. r \in Refresh /\ r.step = "read" /\ r.token = session[t].token /\ r.live
    BY <1>1, <1>2, TokenTypes DEF Refresh
<1> HIDE DEF r, m
<1>4. /\ refresh' \in [Tabs -> [Calls -> Refresh \cup {NoRefresh}]]
      /\ refresh'[t][k] = r
      /\ \A s \in Tabs : \A j \in Calls : s # t \/ j # k => refresh'[s][j] = refresh[s][j]
    BY <1>1, <1>3, SetRefreshSets
<1>5. TypeOK'
  <2>1. call' \in [Tabs -> [Calls -> {"idle", "waiting"}]]
    <3>1. call \in [Tabs -> [Calls -> {"idle", "waiting"}]]
        BY <1>1 DEF TypeOK
    <3>2. call' = [call EXCEPT ![t] = [call[t] EXCEPT ![k] = "waiting"]]
        BY <1>1
    <3> QED BY <3>1, <3>2
  <2>2. denials' \in 0 .. Max401
      BY <1>1, SessionsAssumption DEF TypeOK
  <2> QED BY <1>1, <1>2, <1>4, <2>1, <2>2 DEF TypeOK
<1>6. /\ Issued' = Issued /\ \A l : Live(l)' = Live(l)
      /\ Flies(t, k)'
      /\ \A s \in Tabs : \A j \in Calls : s # t \/ j # k => (Flies(s, j)' <=> Flies(s, j))
    BY <1>1, <1>3, <1>4 DEF Issued, Live, Flies
<1>7. TokensPlaced' /\ SessionsPlaced' /\ MarksPlaced' /\ ByClient'
    BY <1>1, <1>6 DEF SessionsInv, Placed, TokensPlaced, SessionsPlaced, MarksPlaced, ByClient,
                      RevokesOnLogout, SharesRefresh, Joins
<1>p. /\ parallel \subseteq parallel'
      /\ \A j \in Calls : Flies(t, j) => m \in parallel'
  <2>1. \A j \in Calls : Flies(t, j) => InFlight(t) # {}
      BY <1>1, FlightTypes DEF InFlight
  <2> QED BY <1>1, <2>1
<1>8. FlightsPlaced'
  <2>1. FlightPlaced(t, k)'
      BY <1>1, <1>2, <1>3, <1>4, <1>6 DEF FlightPlaced, m
  <2>2. ASSUME NEW s \in Tabs, NEW j \in Calls, s # t \/ j # k, Flies(s, j)
        PROVE  FlightPlaced(s, j)'
      BY <1>1, <1>4, <1>6, <2>2 DEF SessionsInv, Placed, FlightsPlaced, FlightPlaced
  <2> QED BY <1>6, <2>1, <2>2 DEF FlightsPlaced
<1>9. Unforked'
  <2>1. ASSUME NEW l \in Lines PROVE Issuing(l)' \subseteq Issuing(l)
      BY <1>1, <1>3, <1>4 DEF Issuing
  <2> QED BY <1>1, <1>5, <1>6, <2>1, UnforkedShrinks
<1>10. Orderly'
  <2> SUFFICES OneFlight' /\ \A l \in Issued : Clean(l)' => OrderlyLine(l)'
      BY <1>1, <1>6 DEF Orderly
  <2>1. OneFlight /\ \A l \in Issued : Clean(l) => OrderlyLine(l)
      BY DEF SessionsInv, Orderly
  <2>2. Idle(t) \/ m \in parallel'
      BY <1>p DEF Idle
  <2>3. OneFlight'
    <3> SUFFICES ASSUME NEW s \in Tabs, NEW i \in Calls, NEW j \in Calls, i # j,
                        Flies(s, i)', Flies(s, j)'
                 PROVE  tokens[refresh'[s][i].token].line \in crossed \cup parallel'
        BY <1>1 DEF OneFlight
    <3>1. CASE s = t /\ i = k
      <4>1. tokens[refresh'[s][i].token].line = m /\ Flies(t, j)
          BY <1>2, <1>3, <1>4, <1>6, <3>1
      <4> QED BY <1>p, <4>1
    <3>2. CASE s # t \/ i # k
      <4>1. refresh'[s][i] = refresh[s][i] /\ Flies(s, i)
          BY <1>4, <1>6, <3>2
      <4>2. CASE s = t
        <5>1. m \in parallel'
            BY <1>p, <4>1, <4>2
        <5>2. tokens[refresh[t][i].token].line = m \/ tokens[refresh[t][i].token].line \in crossed
            BY <4>1, <4>2 DEF SessionsInv, Placed, FlightsPlaced, FlightPlaced, m
        <5> QED BY <4>1, <4>2, <5>1, <5>2
      <4>3. CASE s # t
        <5>1. Flies(s, j)
            BY <1>6, <4>3
        <5>2. tokens[refresh[s][i].token].line \in crossed \cup parallel
            BY <2>1, <4>1, <5>1 DEF OneFlight
        <5> QED BY <1>p, <4>1, <5>2
      <4> QED BY <4>2, <4>3
    <3> QED BY <3>1, <3>2
  <2>4. ASSUME NEW l \in Issued, Clean(l)'
        PROVE  OrderlyLine(l)'
    <3>1. Clean(l) /\ OrderlyLine(l) /\ l \notin parallel'
        BY <1>1, <1>p, <2>1, <2>4 DEF Clean
    <3>2. \A s \in Tabs : HeldBy(l, s)' = HeldBy(l, s) /\ (Idle(s)' => Idle(s))
        BY <1>1, <1>6 DEF Idle, HeldBy
    <3>3. CASE l # m
      <4>1. ASSUME NEW s \in Tabs, NEW j \in Calls,
                   Flies(s, j)', tokens'[refresh'[s][j].token].line = l
            PROVE  /\ Flies(s, j) /\ refresh'[s][j] = refresh[s][j]
                   /\ tokens[refresh[s][j].token].line = l
          BY <1>1, <1>2, <1>3, <1>4, <1>6, <3>3, <4>1
      <4> QED BY <1>1, <1>6, <3>1, <3>2, <4>1, LineUndisturbed
    <3>4. CASE l = m
      <4>1. Live(l) = {session[t].token} /\ HeldBy(l, t)
          BY <2>2, <3>1, <3>4 DEF OrderlyLine, HeldBy, m
      <4>2. ASSUME NEW s \in Tabs, NEW j \in Calls, Flies(s, j)',
                   tokens'[refresh'[s][j].token].line = l
            PROVE  FlightOrderly(l, refresh[s][j])'
        <5>1. CASE s = t /\ j = k
            BY <1>3, <1>4, <1>6, <4>1, <5>1 DEF FlightOrderly
        <5>2. CASE s # t \/ j # k
          <6>1. refresh'[s][j] = refresh[s][j] /\ Flies(s, j) /\ tokens'[refresh[s][j].token].line = l
              BY <1>4, <1>6, <4>2, <5>2
          <6>2. FlightOrderly(l, refresh[s][j])
              BY <1>1, <3>1, <6>1 DEF OrderlyLine
          <6> QED BY <1>1, <1>6, <6>1, <6>2 DEF FlightOrderly
        <5> QED BY <5>1, <5>2
      <4>3. \A s \in Tabs : \A j \in Calls :
                Flies(s, j)' /\ tokens'[refresh'[s][j].token].line = l => FlightOrderly(l, refresh[s][j])'
          BY <4>2
      <4> QED BY <1>1, <1>6, <3>1, <3>2, <4>1, <4>3, ZenonT(60) DEF OrderlyLine
    <3> QED BY <3>3, <3>4
  <2> QED BY <2>3, <2>4
<1> QED BY <1>5, <1>7, <1>8, <1>9, <1>10 DEF SessionsInv, Placed

\* Nothing is of the line that the next token would start.
LEMMA NewLine ==
    ASSUME SessionsInv, NEW n, n = Len(tokens) + 1
    PROVE  /\ Live(n) = {} /\ Issuing(n) = {}
           /\ n \notin Issued /\ n # 0
           /\ \A s \in Tabs : session[s].line # n
           /\ \A s \in Tabs : \A j \in Calls : Flies(s, j) => tokens[refresh[s][j].token].line # n
           /\ \A id \in logouts : tokens[id].line # n
           /\ n \notin signedOut /\ n \notin thrownOut
<1>1. TypeOK
    BY DEF SessionsInv, Placed
<1>2. n \notin Issued /\ n # 0
    BY <1>1, TokenTypes DEF Issued
<1>3. \A i \in Issued : tokens[i].line \in Issued
    BY LinesIssued
<1>4. Live(n) = {}
    BY <1>1, <1>2, <1>3, TokenTypes DEF Live
<1>5. \A s \in Tabs : \A j \in Calls : Flies(s, j) => tokens[refresh[s][j].token].line # n
    BY <1>2, <1>3 DEF SessionsInv, Placed, FlightsPlaced, FlightPlaced
<1>6. Issuing(n) = {}
    BY <1>5 DEF Issuing, Flies
<1>7. \A s \in Tabs : session[s].line # n
    BY <1>2, <1>3 DEF SessionsInv, Placed, SessionsPlaced
<1> QED BY <1>2, <1>3, <1>4, <1>5, <1>6, <1>7 DEF SessionsInv, Placed, MarksPlaced

LEMMA LoginKeeps ==
    ASSUME SessionsInv, NEW t \in Tabs, NEW u \in Users, Login(t, u)
    PROVE  SessionsInv'
<1>n. PICK n : n = Len(tokens) + 1
    OBVIOUS
<1> DEFINE new == [user |-> u, line |-> n, revoked |-> FALSE]
           mine == [user |-> u, line |-> n, token |-> n]
           old == session[t].line
<1>1. /\ TypeOK /\ u \in active
      /\ Len(tokens) < MaxTokens /\ tokens' = Append(tokens, new)
      /\ session' = [session EXCEPT ![t] = mine]
      /\ crossed' = IF InFlight(t) # {} THEN crossed \cup {n} \cup ({old} \ {0}) ELSE crossed
      /\ UNCHANGED <<app, expired, active, call, refresh, logouts, denials, incidents, overlaps,
                     lossy, lapsed, parallel, copied, signedOut, thrownOut>>
    BY <1>n DEF Login, SessionsInv, Placed
<1>2. n \in Lines /\ n \in Ids
    BY <1>n, <1>1, TokenTypes, SessionsAssumption DEF Lines, Ids
<1>3. new \in Token /\ ~new.revoked /\ new.line = n /\ new.user = u
    BY <1>2 DEF Token
<1>4. mine \in Session /\ mine.user = u /\ mine.line = n /\ mine.token = n
    BY <1>2 DEF Session
<1>m. old # 0 => old \in Issued /\ old \in Lines
    BY LinesIssued DEF SessionsInv, Placed, SessionsPlaced
<1> HIDE DEF new, mine, old
<1>5. /\ tokens' \in Seq(Token) /\ Len(tokens') <= MaxTokens
      /\ Issued' = Issued \cup {n} /\ n \notin Issued
      /\ tokens'[n] = new
      /\ \A i \in Issued : tokens'[i] = tokens[i]
      /\ \A l : Live(l)' = IF l = n THEN Live(l) \cup {n} ELSE Live(l)
    BY <1>1, <1>3, <1>n, AppendWrites, ZenonT(60)
<1>6. session' \in [Tabs -> Session] /\ session'[t] = mine /\ \A s \in Tabs \ {t} : session'[s] = session[s]
    BY <1>1, <1>4 DEF TypeOK
<1>7. TypeOK'
    BY <1>1, <1>2, <1>5, <1>6, <1>m DEF TypeOK
<1>8. /\ Live(n) = {} /\ Issuing(n) = {} /\ n # 0
      /\ \A s \in Tabs : session[s].line # n
      /\ \A s \in Tabs : \A j \in Calls : Flies(s, j) => tokens[refresh[s][j].token].line # n
      /\ \A id \in logouts : tokens[id].line # n
      /\ n \notin signedOut /\ n \notin thrownOut
    BY <1>n, NewLine
<1>9. \A s \in Tabs : \A j \in Calls : Flies(s, j)' = Flies(s, j)
    BY <1>1 DEF Flies
<1>a. \A s \in Tabs : \A j \in Calls : Flies(s, j) =>
          tokens'[refresh[s][j].token].line = tokens[refresh[s][j].token].line
    BY <1>5 DEF SessionsInv, Placed, FlightsPlaced, FlightPlaced
<1>b. crossed \subseteq crossed' /\ crossed' \subseteq crossed \cup {n, old}
    BY <1>1
<1>c. (\E j \in Calls : Flies(t, j)) => n \in crossed' /\ (old # 0 => old \in crossed')
    BY <1>1, FlightTypes DEF InFlight
<1>10. TokensPlaced'
  <2>1. ASSUME NEW i \in Issued
        PROVE  /\ tokens'[i].line \in 1 .. i
               /\ tokens'[tokens'[i].line].line = tokens'[i].line
               /\ tokens'[tokens'[i].line].user = tokens'[i].user
      BY <1>5, LinesIssued DEF SessionsInv, Placed, TokensPlaced
  <2>2. n \in 1 .. n
      BY <1>2 DEF Lines
  <2> QED BY <1>3, <1>5, <2>1, <2>2 DEF TokensPlaced
<1>11. SessionsPlaced'
  <2>1. ASSUME NEW s \in Tabs, s # t
        PROVE  /\ session'[s].token = 0 => session'[s].line = 0 /\ session'[s].user = None
               /\ session'[s].token # 0 =>
                     /\ session'[s].token \in Issued'
                     /\ session'[s].line = tokens'[session'[s].token].line
                     /\ \/ session'[s].user = tokens'[session'[s].token].user
                        \/ session'[s].line \in crossed'
      BY <1>1, <1>5, <1>6, <2>1 DEF SessionsInv, Placed, SessionsPlaced
  <2> QED BY <1>3, <1>4, <1>5, <1>6, <1>8, <2>1 DEF SessionsPlaced
<1>12. MarksPlaced' /\ ByClient'
    BY <1>1, <1>5 DEF SessionsInv, Placed, MarksPlaced, ByClient, RevokesOnLogout, SharesRefresh
<1>13. FlightsPlaced'
  <2> SUFFICES ASSUME NEW s \in Tabs, NEW j \in Calls, Flies(s, j) PROVE FlightPlaced(s, j)'
      BY <1>9 DEF FlightsPlaced
  <2>1. FlightPlaced(s, j)
      BY DEF SessionsInv, Placed, FlightsPlaced
  <2>2. CASE s # t
      BY <1>1, <1>5, <1>6, <2>1, <2>2 DEF FlightPlaced
  <2>3. CASE s = t
    <3>1. tokens[refresh[t][j].token].line # 0
        BY <2>1, <2>3, LinesIssued DEF FlightPlaced
    <3>2. tokens[refresh[t][j].token].line \in crossed'
      <4>1. tokens[refresh[t][j].token].line = old \/ tokens[refresh[t][j].token].line \in crossed
          BY <2>1, <2>3 DEF FlightPlaced, old
      <4> QED BY <1>b, <1>c, <2>3, <3>1, <4>1
    <3> QED BY <1>1, <1>4, <1>5, <1>6, <1>c, <2>1, <2>3, <3>2 DEF FlightPlaced
  <2> QED BY <2>2, <2>3
<1>14. Unforked'
  <2> SUFFICES ASSUME NEW l \in Lines
               PROVE  Cardinality(Live(l)') + Cardinality(Issuing(l)') <= 1 + overlaps'[l]
      BY DEF Unforked
  <2>1. Issuing(l)' = Issuing(l)
      BY <1>1, <1>a, ZenonT(60) DEF Issuing, Flies
  <2>2. Cardinality(Live(l)) + Cardinality(Issuing(l)) <= 1 + overlaps[l] /\ overlaps[l] \in Nat
      BY <1>1 DEF SessionsInv, Unforked, TypeOK
  <2>3. CASE l # n
      BY <1>1, <1>5, <2>1, <2>2, <2>3
  <2>4. CASE l = n
    <3>1. Live(l)' = {n} /\ Issuing(l)' = {}
        BY <1>5, <1>8, <2>1, <2>4
    <3>2. Cardinality({n}) = 1 /\ Cardinality({}) = 0
        BY FS_Singleton, FS_EmptySet
    <3> QED BY <1>1, <2>2, <3>1, <3>2
  <2> QED BY <2>3, <2>4
<1>15. Orderly'
  <2> SUFFICES OneFlight' /\ \A l \in Issued' : Clean(l)' => OrderlyLine(l)'
      BY <1>1 DEF Orderly
  <2>1. OneFlight /\ \A l \in Issued : Clean(l) => OrderlyLine(l)
      BY DEF SessionsInv, Orderly
  <2>2. OneFlight'
      BY <1>1, <1>9, <1>a, <1>b, <2>1, OneFlightKept
  <2>3. \A id \in logouts : tokens'[id].line = tokens[id].line
      BY <1>5 DEF SessionsInv, Placed, MarksPlaced
  <2>4. ASSUME NEW l \in Issued, Clean(l)'
        PROVE  OrderlyLine(l)'
    <3>1. Clean(l) /\ OrderlyLine(l)
        BY <1>1, <1>5, <1>b, <2>1, <2>4 DEF Clean
    <3>2. l # n /\ l # 0 /\ Live(l)' = Live(l)
        BY <1>5, LinesIssued
    <3>3. ASSUME NEW s \in Tabs
          PROVE  (HeldBy(l, s)' => HeldBy(l, s) /\ session'[s] = session[s]) /\ Idle(s)' = Idle(s)
        BY <1>4, <1>6, <1>9, <3>2 DEF HeldBy, Idle
    <3>4. \A s \in Tabs : \A j \in Calls :
             Flies(s, j)' /\ tokens'[refresh'[s][j].token].line = l =>
                 /\ Flies(s, j) /\ refresh'[s][j] = refresh[s][j]
                 /\ tokens[refresh[s][j].token].line = l
        BY <1>1, <1>9, <1>a
    <3> QED BY <1>1, <2>3, <3>1, <3>2, <3>3, <3>4, LineUndisturbed
  <2>5. ASSUME Clean(n)'
        PROVE  OrderlyLine(n)'
    <3>1. Idle(t)
        BY <1>c, <2>5 DEF Clean, Idle
    <3>2. Live(n)' = {n}
        BY <1>5, <1>8
    <3>3. \A s \in Tabs : HeldBy(n, s)' => s = t
        BY <1>6, <1>8 DEF HeldBy
    <3>4. \A s \in Tabs : \A j \in Calls : Flies(s, j)' => tokens'[refresh'[s][j].token].line # n
        BY <1>1, <1>8, <1>9, <1>a
    <3>5. \A id \in logouts' : tokens'[id].line # n
        BY <1>1, <1>8, <2>3
    <3>6. n \notin signedOut' /\ n \notin thrownOut'
        BY <1>1, <1>8
    <3>7. \A s \in Tabs : HeldBy(n, s)' /\ Idle(s)' => Live(n)' = {session'[s].token}
        BY <1>4, <1>6, <3>2, <3>3
    <3> QED BY <3>3, <3>4, <3>5, <3>6, <3>7 DEF OrderlyLine
  <2> QED BY <1>5, <2>2, <2>4, <2>5
<1> QED BY <1>7, <1>10, <1>11, <1>12, <1>13, <1>14, <1>15 DEF SessionsInv, Placed

LEMMA OpenTabKeeps ==
    ASSUME SessionsInv, NEW t \in Tabs, NEW from \in Tabs, OpenTab(t, from)
    PROVE  SessionsInv'
<1> DEFINE m == session[from].line
<1>1. /\ TypeOK /\ session[t] = NoSession /\ InFlight(t) = {} /\ session[from].user # None
      /\ session' = [session EXCEPT ![t] = session[from]] /\ copied' = copied \cup {m}
      /\ UNCHANGED <<app, tokens, expired, active, logouts, call, refresh, denials, overlaps, lossy,
                     crossed, lapsed, parallel, signedOut, thrownOut>>
      /\ incidents < MaxIncidents /\ incidents' = incidents + 1
    BY DEF OpenTab, SessionsInv, Placed, server, Incident
<1>2. m \in Lines
    BY <1>1, LinesIssued DEF SessionsInv, Placed, SessionsPlaced
<1> HIDE DEF m
<1>3. session' \in [Tabs -> Session] /\ session'[t] = session[from]
      /\ \A s \in Tabs \ {t} : session'[s] = session[s]
    BY <1>1 DEF TypeOK
<1>4. TypeOK'
  <2>1. incidents' \in 0 .. MaxIncidents
      BY <1>1, SessionsAssumption DEF TypeOK
  <2> QED BY <1>1, <1>2, <1>3, <2>1 DEF TypeOK
<1>5. /\ Issued' = Issued /\ \A l : Live(l)' = Live(l) /\ Issuing(l)' = Issuing(l)
      /\ \A s \in Tabs : \A j \in Calls : Flies(s, j)' = Flies(s, j)
      /\ \A j \in Calls : ~Flies(t, j)
  <2>1. \A j \in Calls : ~Flies(t, j)
      BY <1>1, FlightTypes DEF InFlight
  <2> QED BY <1>1, <2>1 DEF Issued, Live, Issuing, Flies
<1>6. TokensPlaced' /\ SessionsPlaced' /\ MarksPlaced' /\ ByClient'
    BY <1>1, <1>3, <1>5 DEF SessionsInv, Placed, TokensPlaced, SessionsPlaced, MarksPlaced,
                            ByClient, RevokesOnLogout, SharesRefresh
<1>7. FlightsPlaced'
    BY <1>1, <1>3, <1>5 DEF SessionsInv, Placed, FlightsPlaced, FlightPlaced
<1>8. Unforked'
    BY <1>1, <1>4, <1>5, UnforkedShrinks
<1>9. Orderly'
  <2> SUFFICES OneFlight' /\ \A l \in Issued : Clean(l)' => OrderlyLine(l)'
      BY <1>1, <1>5 DEF Orderly
  <2>1. OneFlight /\ \A l \in Issued : Clean(l) => OrderlyLine(l)
      BY DEF SessionsInv, Orderly
  <2>2. OneFlight'
      BY <1>1, <1>5, <2>1, OneFlightKept
  <2>3. ASSUME NEW l \in Issued, Clean(l)' PROVE OrderlyLine(l)'
    <3>1. OrderlyLine(l) /\ l # m
        BY <1>1, <2>1, <2>3 DEF Clean
    <3>2. \A s \in Tabs : HeldBy(l, s)' => HeldBy(l, s) /\ session'[s] = session[s]
        BY <1>3, <3>1 DEF HeldBy, m
    <3>3. \A s \in Tabs : Idle(s)' = Idle(s)
        BY <1>5 DEF Idle
    <3> QED BY <1>1, <1>5, <3>1, <3>2, <3>3, LineUndisturbed
  <2> QED BY <2>2, <2>3
<1> QED BY <1>4, <1>6, <1>7, <1>8, <1>9 DEF SessionsInv, Placed

LEMMA SignOutKeeps ==
    ASSUME SessionsInv, NEW t \in Tabs, SignOut(t)
    PROVE  SessionsInv'
<1> DEFINE m == session[t].line
           id == session[t].token
<1>1. /\ TypeOK /\ session[t].user # None
      /\ session' = [session EXCEPT ![t] = NoSession]
      /\ logouts' = IF RevokesOnLogout THEN logouts \cup {id} ELSE logouts
      /\ crossed' = IF InFlight(t) # {} THEN crossed \cup {m} ELSE crossed
      /\ UNCHANGED <<app, tokens, expired, active, call, refresh, denials, overlaps, lossy,
                     lapsed, parallel, copied, signedOut, thrownOut>>
      /\ incidents < MaxIncidents /\ incidents' = incidents + 1
    BY DEF SignOut, Emptied, SessionsInv, Placed, Incident
<1>2. /\ id \in Issued /\ m = tokens[id].line /\ m \in Lines /\ id \in Ids
    BY <1>1, LinesIssued, TokenTypes DEF SessionsInv, Placed, SessionsPlaced
<1> HIDE DEF m, id
<1>3. session' \in [Tabs -> Session] /\ session'[t] = NoSession
      /\ \A s \in Tabs \ {t} : session'[s] = session[s]
    BY <1>1 DEF TypeOK, Session, NoSession
<1>4. TypeOK'
  <2>1. incidents' \in 0 .. MaxIncidents
      BY <1>1, SessionsAssumption DEF TypeOK
  <2> QED BY <1>1, <1>2, <1>3, <2>1 DEF TypeOK
<1>5. /\ Issued' = Issued /\ \A l : Live(l)' = Live(l) /\ Issuing(l)' = Issuing(l)
      /\ \A s \in Tabs : \A j \in Calls : Flies(s, j)' = Flies(s, j)
      /\ (\E j \in Calls : Flies(t, j)) => m \in crossed'
  <2>1. (\E j \in Calls : Flies(t, j)) => m \in crossed'
      BY <1>1, FlightTypes DEF InFlight
  <2> QED BY <1>1, <2>1 DEF Issued, Live, Issuing, Flies
<1>6. TokensPlaced' /\ SessionsPlaced' /\ MarksPlaced' /\ ByClient'
  <2>1. TokensPlaced' /\ MarksPlaced' /\ ByClient'
      BY <1>1, <1>2, <1>5 DEF SessionsInv, Placed, TokensPlaced, MarksPlaced, ByClient, RevokesOnLogout, SharesRefresh
  <2>2. SessionsPlaced'
      BY <1>1, <1>3, <1>5 DEF SessionsInv, Placed, SessionsPlaced, NoSession
  <2> QED BY <2>1, <2>2
<1>7. FlightsPlaced'
  <2> SUFFICES ASSUME NEW s \in Tabs, NEW j \in Calls, Flies(s, j) PROVE FlightPlaced(s, j)'
      BY <1>5 DEF FlightsPlaced
  <2>1. FlightPlaced(s, j)
      BY DEF SessionsInv, Placed, FlightsPlaced
  <2>2. CASE s # t
      BY <1>1, <1>3, <1>5, <2>1, <2>2 DEF FlightPlaced
  <2>3. CASE s = t
      BY <1>1, <1>3, <1>5, <2>1, <2>3 DEF FlightPlaced, NoSession, m
  <2> QED BY <2>2, <2>3
<1>8. Unforked'
    BY <1>1, <1>4, <1>5, UnforkedShrinks
<1>9. Orderly'
  <2> SUFFICES OneFlight' /\ \A l \in Issued : Clean(l)' => OrderlyLine(l)'
      BY <1>1, <1>5 DEF Orderly
  <2>1. OneFlight /\ \A l \in Issued : Clean(l) => OrderlyLine(l)
      BY DEF SessionsInv, Orderly
  <2>2. OneFlight'
      BY <1>1, <1>5, <2>1, OneFlightKept
  <2>3. ASSUME NEW l \in Issued, Clean(l)' PROVE OrderlyLine(l)'
    <3>1. Clean(l) /\ OrderlyLine(l) /\ l # 0 /\ l \notin crossed'
        BY <1>1, <2>1, <2>3, LinesIssued DEF Clean
    <3>2. \A s \in Tabs : HeldBy(l, s)' => s # t /\ HeldBy(l, s) /\ session'[s] = session[s]
        BY <1>3, <3>1 DEF HeldBy, NoSession
    <3>3. \A s \in Tabs : Idle(s)' = Idle(s)
        BY <1>5 DEF Idle
    <3>4. CASE l # m
      <4>1. \A i \in logouts' : tokens'[i].line = l => i \in logouts /\ tokens[i].line = l
          BY <1>1, <1>2, <3>4
      <4> QED BY <1>1, <1>5, <3>1, <3>2, <3>3, <4>1, LineUndisturbed
    <3>5. CASE l = m
      <4>1. HeldBy(l, t) /\ Idle(t)
          BY <1>5, <3>1, <3>5 DEF HeldBy, Idle, m
      <4>2. Live(l) = {id}
          BY <3>1, <4>1 DEF OrderlyLine, id
      <4>3. \A s \in Tabs : ~HeldBy(l, s)'
          BY <3>1, <3>2, <4>1 DEF OrderlyLine
      <4>4. \A s \in Tabs : \A j \in Calls : Flies(s, j) => tokens[refresh[s][j].token].line # l
        <5> SUFFICES ASSUME NEW s \in Tabs, NEW j \in Calls, Flies(s, j),
                            tokens[refresh[s][j].token].line = l
                     PROVE  FALSE
            OBVIOUS
        <5>1. HeldBy(l, s)
            BY <3>1 DEF SessionsInv, Placed, FlightsPlaced, FlightPlaced, HeldBy, Clean
        <5>2. s = t
            BY <3>1, <4>1, <5>1 DEF OrderlyLine
        <5> QED BY <4>1, <5>2 DEF Idle
      <4>5. \A i \in logouts' : tokens'[i].line = l => i = id
          BY <1>1, <3>1, <4>1 DEF OrderlyLine
      <4>6. l \notin signedOut /\ (l \in thrownOut => l \in lapsed)
          BY <3>1, <4>1 DEF OrderlyLine
      <4> QED BY <1>1, <1>5, <4>2, <4>3, <4>4, <4>5, <4>6 DEF OrderlyLine
    <3> QED BY <3>4, <3>5
  <2> QED BY <2>2, <2>3
<1> QED BY <1>4, <1>6, <1>7, <1>8, <1>9 DEF SessionsInv, Placed

LEMMA WakeTypes ==
    ASSUME TypeOK, NEW t \in Tabs, NEW k \in Calls, Wake(t, k)
    PROVE  call' \in [Tabs -> [Calls -> {"idle", "waiting"}]]
BY DEF TypeOK, Wake

\* Of a line nothing disturbed, the refresh that is answered is in the tab that
\* holds the line.
LEMMA GrantedKeeps ==
    ASSUME SessionsInv, NEW t \in Tabs, NEW k \in Calls, Granted(t, k)
    PROVE  SessionsInv'
<1> DEFINE o == refresh[t][k]
           m == tokens[o.token].line
           M == session[t].line
<1>1. /\ TypeOK /\ o.step = "granted" /\ Flies(t, k)
      /\ session' = [session EXCEPT ![t].token = o.new, ![t].line = m]
      /\ SetRefresh(t, k, NoRefresh) /\ Wake(t, k)
      /\ UNCHANGED <<app, tokens, expired, active, logouts, denials, incidents, overlaps, lossy,
                     crossed, lapsed, parallel, copied, signedOut, thrownOut>>
    BY DEF Granted, LineOf, Flies, SessionsInv, Placed, server, history
<1>2. /\ o.token \in Issued /\ o.new \in Issued /\ tokens[o.new].line = m
      /\ tokens[o.new].user = tokens[o.token].user
      /\ m = M \/ m \in crossed
      /\ m = M \/ M \in crossed \cup {0}
    BY <1>1 DEF SessionsInv, Placed, FlightsPlaced, FlightPlaced
<1>3. m \in Lines /\ o.new \in Ids /\ m # 0 /\ o.new # 0
    BY <1>1, <1>2, LinesIssued, TokenTypes
<1> HIDE DEF o, m, M
<1>4. /\ session' \in [Tabs -> Session]
      /\ session'[t].user = session[t].user /\ session'[t].token = o.new /\ session'[t].line = m
      /\ \A s \in Tabs \ {t} : session'[s] = session[s]
    BY <1>1, <1>3 DEF TypeOK, Session
<1>5. /\ refresh' \in [Tabs -> [Calls -> Refresh \cup {NoRefresh}]]
      /\ refresh'[t][k] = NoRefresh
      /\ \A s \in Tabs : \A j \in Calls : s # t \/ j # k => refresh'[s][j] = refresh[s][j]
    BY <1>1, SetRefreshSets
<1>6. TypeOK'
    BY <1>1, <1>4, <1>5, WakeTypes DEF TypeOK
<1>7. /\ Issued' = Issued /\ \A l : Live(l)' = Live(l)
      /\ ~Flies(t, k)'
      /\ \A s \in Tabs : \A j \in Calls : Flies(s, j)' => (s # t \/ j # k) /\ Flies(s, j)
    BY <1>1, <1>5 DEF Issued, Live, Flies, NoRefresh
<1>8. SessionsPlaced'
  <2>1. session'[t].user = tokens[o.new].user \/ m \in crossed
    <3>1. CASE m = M
      <4>1. session[t].token # 0
          BY <1>3, <3>1 DEF SessionsInv, Placed, SessionsPlaced, M
      <4>2. /\ session[t].token \in Issued /\ tokens[session[t].token].line = m
            /\ session[t].user = tokens[session[t].token].user \/ m \in crossed
          BY <3>1, <4>1 DEF SessionsInv, Placed, SessionsPlaced, M
      <4>3. tokens[session[t].token].user = tokens[m].user /\ tokens[o.new].user = tokens[m].user
          BY <1>2, <4>2, LinesIssued
      <4> QED BY <1>4, <4>2, <4>3
    <3> QED BY <1>2, <3>1
  <2> QED BY <1>1, <1>2, <1>3, <1>4, <1>7, <2>1 DEF SessionsInv, Placed, SessionsPlaced
<1>9. TokensPlaced' /\ MarksPlaced' /\ ByClient'
    BY <1>1, <1>7 DEF SessionsInv, Placed, TokensPlaced, MarksPlaced, ByClient, RevokesOnLogout, SharesRefresh
<1>10. FlightsPlaced'
  <2> SUFFICES ASSUME NEW s \in Tabs, NEW j \in Calls, s # t \/ j # k, Flies(s, j)
               PROVE  FlightPlaced(s, j)'
      BY <1>7 DEF FlightsPlaced
  <2>1. FlightPlaced(s, j) /\ tokens[refresh[s][j].token].line # 0
      BY LinesIssued DEF SessionsInv, Placed, FlightsPlaced, FlightPlaced
  <2>2. CASE s # t
      BY <1>1, <1>4, <1>5, <1>7, <2>1, <2>2 DEF FlightPlaced
  <2>3. CASE s = t
    <3>1. refresh'[t][j] = refresh[t][j]
        BY <1>5, <2>3
    <3>2. tokens[refresh[t][j].token].line \in crossed \cup parallel
        BY <1>1, <2>3 DEF SessionsInv, Orderly, OneFlight
    <3> QED BY <1>1, <1>2, <1>4, <1>7, <2>1, <2>3, <3>1, <3>2 DEF FlightPlaced, M
  <2> QED BY <2>2, <2>3
<1>11. Unforked'
  <2>1. ASSUME NEW l \in Lines PROVE Issuing(l)' \subseteq Issuing(l)
      BY <1>1, <1>5 DEF Issuing, NoRefresh
  <2> QED BY <1>1, <1>6, <1>7, <2>1, UnforkedShrinks
<1>12. Orderly'
  <2> SUFFICES OneFlight' /\ \A l \in Issued : Clean(l)' => OrderlyLine(l)'
      BY <1>1, <1>7 DEF Orderly
  <2>1. OneFlight /\ \A l \in Issued : Clean(l) => OrderlyLine(l)
      BY DEF SessionsInv, Orderly
  <2>2. OneFlight'
      BY <1>1, <1>5, <1>7, <2>1, OneFlightKept
  <2>3. ASSUME NEW l \in Issued, Clean(l)' PROVE OrderlyLine(l)'
    <3>1. Clean(l) /\ OrderlyLine(l) /\ l # 0 /\ l \notin crossed \cup parallel
        BY <1>1, <2>1, <2>3, LinesIssued DEF Clean
    <3>2. CASE l # m
      <4>1. l # M
          BY <1>2, <3>1, <3>2
      <4>2. \A s \in Tabs : HeldBy(l, s)' => s # t /\ HeldBy(l, s) /\ session'[s] = session[s]
          BY <1>4, <3>2 DEF HeldBy
      <4>3. \A s \in Tabs : s # t => (Idle(s)' => Idle(s))
          BY <1>5 DEF Idle, Flies
      <4>4. ASSUME NEW s \in Tabs, NEW j \in Calls,
                   Flies(s, j)', tokens'[refresh'[s][j].token].line = l
            PROVE  /\ Flies(s, j) /\ refresh'[s][j] = refresh[s][j]
                   /\ tokens[refresh[s][j].token].line = l
          BY <1>1, <1>5, <1>7, <4>4
      <4> QED BY <1>1, <1>7, <3>1, <4>2, <4>3, <4>4, LineUndisturbed
    <3>3. CASE l = m
      <4>1. l = M /\ HeldBy(l, t)
          BY <1>2, <3>1, <3>3, SMTT(40) DEF HeldBy, M
      <4>2. Live(l) = {o.new}
          BY <1>1, <3>1, <3>3 DEF OrderlyLine, FlightOrderly, o, m
      <4>3. \A s \in Tabs : HeldBy(l, s)' => s = t
          BY <1>4, <3>1, <4>1, SMTT(40) DEF HeldBy, OrderlyLine
      <4>4. ASSUME NEW s \in Tabs, NEW j \in Calls, Flies(s, j)'
            PROVE  tokens[refresh'[s][j].token].line # l
        <5>1. refresh'[s][j] = refresh[s][j] /\ Flies(s, j) /\ (s # t \/ j # k)
            BY <1>5, <1>7, <4>4
        <5> QED BY <1>1, <2>1, <3>1, <3>3, <5>1, OnlyFlight DEF o, m
      <4>5. /\ \A i \in logouts : tokens[i].line # l
            /\ l \notin signedOut /\ (l \in thrownOut => l \in lapsed)
          BY <3>1, <4>1 DEF OrderlyLine
      <4> QED BY <1>1, <1>4, <1>7, <4>2, <4>3, <4>4, <4>5 DEF OrderlyLine
    <3> QED BY <3>2, <3>3
  <2> QED BY <2>2, <2>3
<1> QED BY <1>6, <1>8, <1>9, <1>10, <1>11, <1>12 DEF SessionsInv, Placed

\* A line nothing disturbed is refused no refresh, unless its token has expired.
LEMMA RejectedKeeps ==
    ASSUME SessionsInv, NEW t \in Tabs, NEW k \in Calls, Rejected(t, k)
    PROVE  SessionsInv'
<1> DEFINE o == refresh[t][k]
           m == tokens[o.token].line
           M == session[t].line
           id == session[t].token
<1>1. /\ TypeOK /\ o.step = "refused" /\ Flies(t, k)
      /\ session' = [session EXCEPT ![t] = NoSession]
      /\ logouts' = IF RevokesOnLogout /\ id # 0 THEN logouts \cup {id} ELSE logouts
      /\ thrownOut' = IF session[t].user # None THEN thrownOut \cup {M} ELSE thrownOut
      /\ crossed' = IF M # 0 /\ InFlight(t) # {k} THEN crossed \cup {M} ELSE crossed
      /\ SetRefresh(t, k, NoRefresh) /\ Wake(t, k)
      /\ UNCHANGED <<app, tokens, expired, active, denials, incidents, overlaps, lossy, lapsed,
                     parallel, copied, signedOut>>
    BY DEF Rejected, Emptied, Flies, SessionsInv, Placed
<1>2. /\ o.token \in Issued /\ m # 0
      /\ m = M \/ m \in crossed
      /\ m = M \/ M \in crossed \cup {0}
      /\ o.token = id \/ m \in crossed \cup parallel
    BY <1>1, LinesIssued DEF SessionsInv, Placed, FlightsPlaced, FlightPlaced
<1>3. /\ id = 0 => session[t].user = None /\ M = 0
      /\ id # 0 => id \in Issued /\ M = tokens[id].line
    BY DEF SessionsInv, Placed, SessionsPlaced
<1>4. id # 0 => id \in Ids /\ M \in Lines /\ M \in Issued
    BY <1>1, <1>3, LinesIssued, TokenTypes
<1> HIDE DEF o, m, M, id
<1>5. session' \in [Tabs -> Session] /\ session'[t] = NoSession
      /\ \A s \in Tabs \ {t} : session'[s] = session[s]
    BY <1>1 DEF TypeOK, Session, NoSession
<1>6. /\ refresh' \in [Tabs -> [Calls -> Refresh \cup {NoRefresh}]]
      /\ refresh'[t][k] = NoRefresh
      /\ \A s \in Tabs : \A j \in Calls : s # t \/ j # k => refresh'[s][j] = refresh[s][j]
    BY <1>1, SetRefreshSets
<1>7. TypeOK'
  <2>1. call' \in [Tabs -> [Calls -> {"idle", "waiting"}]]
      BY <1>1, WakeTypes
  <2> QED BY <1>1, <1>3, <1>4, <1>5, <1>6, <2>1 DEF TypeOK
<1>8. /\ Issued' = Issued /\ \A l : Live(l)' = Live(l)
      /\ ~Flies(t, k)'
      /\ \A s \in Tabs : \A j \in Calls : Flies(s, j)' => (s # t \/ j # k) /\ Flies(s, j)
      /\ \A s \in Tabs : \A j \in Calls : s # t => (Flies(s, j)' <=> Flies(s, j))
    BY <1>1, <1>6 DEF Issued, Live, Flies, NoRefresh
<1>9. /\ TokensPlaced' /\ ByClient' /\ crossed \subseteq crossed'
    BY <1>1, <1>8 DEF SessionsInv, Placed, TokensPlaced, ByClient, RevokesOnLogout, SharesRefresh
<1>10. MarksPlaced'
    BY <1>1, <1>3, <1>4, <1>8 DEF SessionsInv, Placed, MarksPlaced
<1>11. SessionsPlaced'
    BY <1>1, <1>5, <1>8, <1>9 DEF SessionsInv, Placed, SessionsPlaced, NoSession
<1>12. FlightsPlaced'
  <2> SUFFICES ASSUME NEW s \in Tabs, NEW j \in Calls, s # t \/ j # k, Flies(s, j)
               PROVE  FlightPlaced(s, j)'
      BY <1>8 DEF FlightsPlaced
  <2>1. /\ FlightPlaced(s, j) /\ tokens[refresh[s][j].token].line # 0
        /\ refresh'[s][j] = refresh[s][j]
      BY <1>6, LinesIssued DEF SessionsInv, Placed, FlightsPlaced, FlightPlaced
  <2>2. CASE s # t
      BY <1>1, <1>5, <1>8, <1>9, <2>1, <2>2 DEF FlightPlaced
  <2>3. CASE s = t
    <3>1. j # k /\ j \in InFlight(t)
        BY <1>1, <2>3, FlightTypes DEF InFlight
    <3>2. M # 0 => M \in crossed'
        BY <1>1, <3>1
    <3> QED BY <1>1, <1>5, <1>8, <1>9, <2>1, <2>3, <3>2 DEF FlightPlaced, NoSession, M
  <2> QED BY <2>2, <2>3
<1>13. Unforked'
  <2>1. ASSUME NEW l \in Lines PROVE Issuing(l)' \subseteq Issuing(l)
      BY <1>1, <1>6 DEF Issuing, NoRefresh
  <2> QED BY <1>1, <1>7, <1>8, <2>1, UnforkedShrinks
<1>14. Orderly'
  <2> SUFFICES OneFlight' /\ \A l \in Issued : Clean(l)' => OrderlyLine(l)'
      BY <1>1, <1>8 DEF Orderly
  <2>1. OneFlight /\ \A l \in Issued : Clean(l) => OrderlyLine(l)
      BY DEF SessionsInv, Orderly
  <2>2. OneFlight'
      BY <1>1, <1>6, <1>8, <1>9, <2>1, OneFlightKept
  <2>3. ASSUME NEW l \in Issued, Clean(l)', l = m PROVE OrderlyLine(l)'
    <3>1. Clean(l) /\ OrderlyLine(l) /\ l # 0 /\ l \notin crossed \cup parallel
        BY <1>1, <1>9, <2>1, <2>3, LinesIssued DEF Clean
    <3>2. l = M /\ o.token = id /\ HeldBy(l, t)
        BY <1>2, <2>3, <3>1 DEF HeldBy, M
    <3>3. Live(l) = {id} /\ l \in lapsed
        BY <1>1, <2>3, <3>1, <3>2 DEF OrderlyLine, FlightOrderly, o, m
    <3>4. \A s \in Tabs : ~HeldBy(l, s)'
        BY <1>5, <3>1, <3>2 DEF HeldBy, NoSession, OrderlyLine
    <3>5. ASSUME NEW s \in Tabs, NEW j \in Calls, Flies(s, j)'
          PROVE  tokens[refresh'[s][j].token].line # l
      <4>1. refresh'[s][j] = refresh[s][j] /\ Flies(s, j) /\ (s # t \/ j # k)
          BY <1>6, <1>8, <3>5
      <4> QED BY <1>1, <2>1, <2>3, <3>1, <4>1, OnlyFlight DEF o, m
    <3>6. (\A i \in logouts : tokens[i].line # l) /\ l \notin signedOut
        BY <3>1, <3>2 DEF OrderlyLine
    <3>7. \A i \in logouts' : tokens[i].line = l => i = id
        BY <1>1, <3>6
    <3> QED BY <1>1, <1>8, <3>3, <3>4, <3>5, <3>6, <3>7 DEF OrderlyLine
  <2>4. ASSUME NEW l \in Issued, Clean(l)', l # m PROVE OrderlyLine(l)'
    <3>1. Clean(l) /\ OrderlyLine(l) /\ l # 0 /\ l \notin crossed
        BY <1>1, <1>9, <2>1, <2>4, LinesIssued DEF Clean
    <3>3. l # M
        BY <1>2, <2>4, <3>1
    <3>4. \A s \in Tabs : HeldBy(l, s)' => s # t /\ HeldBy(l, s) /\ session'[s] = session[s]
        BY <1>5, <3>1 DEF HeldBy, NoSession
    <3>5. \A s \in Tabs : s # t => (Idle(s)' => Idle(s))
        BY <1>8 DEF Idle
    <3>6. ASSUME NEW s \in Tabs, NEW j \in Calls,
                 Flies(s, j)', tokens'[refresh'[s][j].token].line = l
          PROVE  /\ Flies(s, j) /\ refresh'[s][j] = refresh[s][j]
                 /\ tokens[refresh[s][j].token].line = l
        BY <1>1, <1>6, <1>8, <3>6
    <3>7. \A i \in logouts' : tokens'[i].line = l => i \in logouts /\ tokens[i].line = l
        BY <1>1, <1>3, <3>3
    <3>8. (l \in signedOut' => l \in signedOut) /\ (l \in thrownOut' => l \in thrownOut)
        BY <1>1, <3>3
    <3> QED BY <1>1, <1>8, <3>1, <3>4, <3>5, <3>6, <3>7, <3>8, LineUndisturbed
  <2> QED BY <2>2, <2>3, <2>4
<1> QED BY <1>7, <1>9, <1>10, <1>11, <1>12, <1>13, <1>14 DEF SessionsInv, Placed

-----------------------------------------------------------------------------
(* The theorems about sessions.                                            *)

LEMMA NextKeepsSessions ==
    ASSUME SessionsInv, [Next]_vars
    PROVE  SessionsInv'
<1>1. TypeOK
    BY DEF SessionsInv, Placed
<1>2. CASE UNCHANGED vars
  <2>1. TypeOK'
      BY <1>1, <1>2 DEF vars, history, TypeOK
  <2> QED BY <1>2, <2>1, QuietStep DEF vars
<1>3. ASSUME NEW t \in Tabs, NEW k \in Calls, JoinRefresh(t, k)
      PROVE  SessionsInv'
  <2>1. call' \in [Tabs -> [Calls -> {"idle", "waiting"}]]
    <3>1. call \in [Tabs -> [Calls -> {"idle", "waiting"}]]
        BY <1>1 DEF TypeOK
    <3>2. call' = [call EXCEPT ![t] = [call[t] EXCEPT ![k] = "waiting"]]
        BY <1>3 DEF JoinRefresh, Denied
    <3> QED BY <3>1, <3>2
  <2>2. denials' \in 0 .. Max401
      BY <1>1, <1>3, SessionsAssumption DEF JoinRefresh, Denied, TypeOK
  <2>3. TypeOK'
      BY <1>1, <1>3, <2>1, <2>2 DEF JoinRefresh, Denied, TypeOK, server, history
  <2> QED BY <1>3, <2>3, QuietStep DEF JoinRefresh, Denied, server
<1>4. ASSUME NEW u \in Users, Deactivate(u)
      PROVE  SessionsInv'
  <2>1. incidents' \in 0 .. MaxIncidents
      BY <1>1, <1>4, SessionsAssumption DEF Deactivate, Incident, TypeOK
  <2>2. TypeOK'
      BY <1>1, <1>4, <2>1 DEF Deactivate, TypeOK, history
  <2> QED BY <1>4, <2>2, QuietStep DEF Deactivate
<1>e. ASSUME NEW n \in DOMAIN tokens, Expire(n)
      PROVE  SessionsInv'
  <2>1. incidents' \in 0 .. MaxIncidents
      BY <1>1, <1>e, SessionsAssumption DEF Expire, Incident, TypeOK
  <2>2. expired' \in 0 .. MaxTokens
      BY <1>1, <1>e, TokenTypes DEF Expire, Issued, Ids
  <2>3. TypeOK'
      BY <1>1, <1>e, <2>1, <2>2 DEF Expire, TypeOK, history
  <2> QED BY <1>e, <2>3, QuietStep DEF Expire
<1>5. ASSUME NEW t \in Tabs, NEW k \in Calls,
             \/ StartRefresh(t, k) \/ Granted(t, k) \/ Rejected(t, k)
             \/ ReadToken(t, k) \/ RevokeToken(t, k) \/ IssueToken(t, k)
             \/ LookUpAccount(t, k) \/ LoseAnswer(t, k)
      PROVE  SessionsInv'
    BY <1>5, StartRefreshKeeps, GrantedKeeps, RejectedKeeps, ReadTokenKeeps, RevokeTokenKeeps,
       IssueTokenKeeps, LookUpAccountKeeps, LoseAnswerKeeps
<1>6. ASSUME NEW t \in Tabs,
             (\E u \in Users : Login(t, u)) \/ (\E from \in Tabs \ {t} : OpenTab(t, from)) \/ SignOut(t)
      PROVE  SessionsInv'
    BY <1>6, LoginKeeps, OpenTabKeeps, SignOutKeeps
<1> QED BY <1>2, <1>3, <1>4, <1>e, <1>5, <1>6, HandleLogoutKeeps DEF Next

\* The types of Sessions, and the invariant the other theorems rest on.
THEOREM SessionsInvariant == Spec => [](TypeOK /\ SessionsInv)
<1>1. SessionsInv => TypeOK
    BY DEF SessionsInv, Placed
<1>2. Init => SessionsInv
    BY InitSessions
<1>3. SessionsInv /\ [Next]_vars => SessionsInv'
    BY NextKeepsSessions
<1> QED BY <1>1, <1>2, <1>3, PTL DEF Spec

\* rotateRefreshToken (token.service.ts): a line has one live refresh token, and
\* one more for each pair of requests that took the same token before either
\* revoked it; the read and the update are two statements without a lock.
THEOREM SpentTokensOpenNoSecondLine == Spec => []LineUnforked
<1>1. SessionsInv => LineUnforked
  <2> SUFFICES ASSUME SessionsInv, NEW l \in Lines
               PROVE  Cardinality(Live(l)) <= 1 + overlaps[l]
      BY DEF LineUnforked
  <2>1. /\ Cardinality(Live(l)) \in Nat /\ Cardinality(Issuing(l)) \in Nat
        /\ overlaps[l] \in Nat
      BY LiveFinite, IssuingFinite DEF SessionsInv, Placed, TypeOK
  <2>2. Cardinality(Live(l)) + Cardinality(Issuing(l)) <= 1 + overlaps[l]
      BY DEF SessionsInv, Unforked
  <2> QED BY <2>1, <2>2
<1> QED BY <1>1, SessionsInvariant, PTL

\* tryRefresh (api.ts, client.ts) and rotateRefreshToken (token.service.ts): however
\* many calls come back 401 at once, a tab is thrown out by an expired token, a
\* disturbance the history names or a closed account only; and the clients that
\* share a refresh never disturb themselves.
THEOREM SharedRefreshThrowsNobodyOut == Spec => []NotThrownOut
<1>1. SessionsInv => NotThrownOut
  <2> SUFFICES ASSUME SessionsInv
               PROVE  NotThrownOut
      OBVIOUS
  <2>1. ASSUME NEW l \in thrownOut, l \notin lossy \cup copied \cup crossed \cup parallel,
               tokens[l].user \in active
        PROVE  l \in lapsed
    <3>1. l \in Issued /\ Clean(l)
        BY <2>1 DEF SessionsInv, Placed, MarksPlaced, Clean
    <3>2. OrderlyLine(l)
        BY <3>1 DEF SessionsInv, Orderly
    <3> QED BY <2>1, <3>2 DEF OrderlyLine
  <2>2. SharesRefresh => parallel = {}
      BY DEF SessionsInv, Placed, ByClient
  <2> QED BY <2>1, <2>2 DEF NotThrownOut
<1> QED BY <1>1, SessionsInvariant, PTL

\* stores/auth.ts and the interceptors: a tab acts for the user it shows, unless a
\* refresh was under way when the store was emptied or filled again.
THEOREM TabsActForTheirUsers == Spec => []TabActsForItsUser
<1>1. SessionsInv => TabActsForItsUser
    BY DEF SessionsInv, Placed, SessionsPlaced, TabActsForItsUser
<1> QED BY <1>1, SessionsInvariant, PTL

\* The admin's logout, revokeRefreshToken and rotateRefreshToken: a sign-out the
\* server has handled leaves no live token of an undisturbed line.
THEOREM SignOutLeavesNoToken == Spec => []SignOutEndsLine
<1>1. SessionsInv => SignOutEndsLine
  <2> SUFFICES ASSUME SessionsInv, NEW l \in signedOut, l \notin crossed \cup lossy \cup copied,
                      tokens[l].user \in active
               PROVE  Live(l) = {}
      BY DEF SignOutEndsLine
  <2>1. SharesRefresh
      BY DEF SessionsInv, Placed, ByClient, RevokesOnLogout, SharesRefresh
  <2>2. l \in Issued /\ Clean(l)
      BY <2>1 DEF SessionsInv, Placed, MarksPlaced, Clean, ByClient
  <2>3. OrderlyLine(l)
      BY <2>1, <2>2 DEF SessionsInv, Orderly
  <2> QED BY <2>3 DEF OrderlyLine
<1> QED BY <1>1, SessionsInvariant, PTL

-----------------------------------------------------------------------------
(* One-time codes.                                                         *)

\* A handler whose guess the counter counts and the code has not met yet.
Waits(r) ==
    /\ r.op = "verify"
    /\ ~r.free
    /\ r.step \in {"ttl", "limit", "compare"}
    /\ r.count <= MaxGuesses

Waiting == {h \in Handlers : Waits(handler[h])}

\* Guesses at the code in force that the counter still counts.
Used == IF code = 0 THEN 0 ELSE guesses[code] - forgiven[code]

InHand(r) ==
    r.op = "verify" => /\ r.step = "compare" => r.count <= MaxGuesses
                       /\ r.step \in {"account", "spend"} => r.guess \in Codes

Handled == \A h \in Handlers : InHand(handler[h])

Counted ==
    /\ code <= issued
    /\ Used + Cardinality(Waiting) <= attempts.count
    /\ Used + Cardinality(Waiting) <= MaxGuesses
    /\ \A c \in Codes :
          /\ forgiven[c] <= guesses[c]
          /\ guesses[c] <= MaxGuesses + forgiven[c]
          /\ c > issued => guesses[c] = 0 /\ sessions[c] <= raced[c]
          /\ sessions[c] <= raced[c] + (IF c = code THEN 0 ELSE 1)

RequestsTimed ==
    requests.count > 0 =>
        requests.ttl \/ stranded \/ \E h \in Handlers : Serves(h, "request", "ttl")

OtpInv == OtpTypeOK /\ Handled /\ Counted /\ RequestsTimed

LEMMA OtpTypes ==
    ASSUME OtpTypeOK
    PROVE  /\ MaxGuesses \in Nat /\ MaxCodes \in Nat
           /\ IsFiniteSet(Waiting) /\ Cardinality(Waiting) \in Nat
           /\ \A h \in Handlers : /\ handler[h].op = "verify" => handler[h] \in VerifyOtp
                                  /\ handler[h].op = "request" => handler[h] \in RequestOtp
           /\ Used \in Int /\ issued \in Nat /\ code \in Nat
<1>1. MaxGuesses \in Nat /\ MaxCodes \in Nat
    BY OtpAssumption
<1>2. IsFiniteSet(Waiting) /\ Cardinality(Waiting) \in Nat
  <2>1. Waiting \subseteq Handlers
      BY DEF Waiting
  <2> QED BY <2>1, OtpAssumption, FS_Subset, FS_CardinalityType
<1>3. ASSUME NEW h \in Handlers
      PROVE  /\ handler[h].op = "verify" => handler[h] \in VerifyOtp
             /\ handler[h].op = "request" => handler[h] \in RequestOtp
  <2>1. handler[h] \in RequestOtp \cup VerifyOtp \cup {Quiet}
      BY DEF OtpTypeOK
  <2> QED BY <2>1 DEF RequestOtp, VerifyOtp, Quiet
<1>4. Used \in Int
  <2>1. CASE code = 0
      BY <2>1 DEF Used
  <2>2. CASE code # 0
      BY <2>2 DEF Used, OtpTypeOK
  <2> QED BY <2>1, <2>2
<1> QED BY <1>1, <1>2, <1>3, <1>4 DEF OtpTypeOK, Codes

LEMMA OneHandler ==
    ASSUME OtpTypeOK, Handled, NEW h \in Handlers,
           NEW r \in RequestOtp \cup VerifyOtp \cup {Quiet}, InHand(r),
           handler' = [handler EXCEPT ![h] = r]
    PROVE  /\ handler' \in [Handlers -> RequestOtp \cup VerifyOtp \cup {Quiet}]
           /\ handler'[h] = r /\ \A j \in Handlers \ {h} : handler'[j] = handler[j]
           /\ Handled'
           /\ Waiting' = IF Waits(r) THEN Waiting \cup {h} ELSE Waiting \ {h}
<1>1. /\ handler' \in [Handlers -> RequestOtp \cup VerifyOtp \cup {Quiet}]
      /\ handler'[h] = r /\ \A j \in Handlers \ {h} : handler'[j] = handler[j]
    BY DEF OtpTypeOK
<1>2. Handled'
    BY <1>1 DEF Handled, InHand
<1>3. ASSUME NEW j \in Handlers
      PROVE  j \in Waiting' <=> j \in (IF Waits(r) THEN Waiting \cup {h} ELSE Waiting \ {h})
  <2>1. j \in Waiting' <=> Waits(handler'[j])
      BY DEF Waiting, Waits
  <2>2. j \in Waiting <=> Waits(handler[j])
      BY DEF Waiting
  <2>3. CASE j = h
      BY <1>1, <2>1, <2>3
  <2>4. CASE j # h
      BY <1>1, <2>1, <2>2, <2>4
  <2> QED BY <2>3, <2>4
<1>4. Waiting' \subseteq Handlers /\ Waiting \subseteq Handlers
    BY DEF Waiting
<1> QED BY <1>1, <1>2, <1>3, <1>4

\* Steps that compare nothing, reset nothing and issue no code.
LEMMA LessWaiting ==
    ASSUME OtpInv, OtpTypeOK', Handled', RequestsTimed', Waiting' \subseteq Waiting,
           code' \in {0, code}, attempts'.count = attempts.count,
           UNCHANGED <<issued, guesses, forgiven, sessions, raced>>
    PROVE  OtpInv'
<1>1. Cardinality(Waiting') <= Cardinality(Waiting) /\ Cardinality(Waiting') \in Nat
  <2>1. IsFiniteSet(Waiting)
      BY OtpTypes DEF OtpInv
  <2> QED BY <2>1, FS_Subset, FS_CardinalityType
<1>2. Used' <= Used /\ Used' \in Int
  <2>1. CASE code' = code
    <3>1. Used' = Used
        BY <2>1 DEF Used
    <3> QED BY <3>1, OtpTypes DEF OtpInv
  <2>2. CASE code' = 0 /\ code # 0
    <3>1. Used' = 0
        BY <2>2 DEF Used
    <3>2. code \in Codes
        BY <2>2 DEF OtpInv, OtpTypeOK
    <3>3. Used = guesses[code] - forgiven[code]
        BY <2>2 DEF Used
    <3>4. guesses[code] \in Nat /\ forgiven[code] \in Nat /\ forgiven[code] <= guesses[code]
        BY <3>2 DEF OtpInv, Counted, OtpTypeOK
    <3> QED BY <3>1, <3>3, <3>4
  <2> QED BY <2>1, <2>2
<1>3. /\ Cardinality(Waiting) \in Nat /\ Used \in Int /\ MaxGuesses \in Nat
      /\ attempts.count \in Nat /\ code \in Nat /\ issued \in Nat
    BY OtpTypes DEF OtpInv, OtpTypeOK
<1>4. /\ Used' + Cardinality(Waiting') <= attempts'.count
      /\ Used' + Cardinality(Waiting') <= MaxGuesses
      /\ code' <= issued'
    BY <1>1, <1>2, <1>3 DEF OtpInv, Counted
<1>5. ASSUME NEW c \in Codes
      PROVE  /\ forgiven'[c] <= guesses'[c]
             /\ guesses'[c] <= MaxGuesses + forgiven'[c]
             /\ c > issued' => guesses'[c] = 0 /\ sessions'[c] <= raced'[c]
             /\ sessions'[c] <= raced'[c] + (IF c = code' THEN 0 ELSE 1)
  <2>1. /\ sessions[c] <= raced[c] + (IF c = code THEN 0 ELSE 1)
        /\ sessions[c] \in Nat /\ raced[c] \in Nat
      BY DEF OtpInv, Counted, OtpTypeOK
  <2>2. c # 0
      BY OtpTypes DEF OtpInv, Codes
  <2>3. sessions'[c] <= raced'[c] + (IF c = code' THEN 0 ELSE 1)
      BY <2>1, <2>2
  <2> QED BY <2>3 DEF OtpInv, Counted
<1> QED BY <1>4, <1>5 DEF OtpInv, Counted

LEMMA ServesKind ==
    ASSUME OtpInv, NEW h \in Handlers
    PROVE  /\ \A step : Serves(h, "request", step) => handler[h] \in RequestOtp
           /\ \A step : Serves(h, "verify", step) => handler[h] \in VerifyOtp
BY OtpTypes DEF OtpInv, Serves

\* A handler goes on to its next step, or answers.
LEMMA HandlerGoesOn ==
    ASSUME OtpInv, NEW h \in Handlers,
           NEW r \in RequestOtp \cup VerifyOtp \cup {Quiet}, InHand(r),
           handler' = [handler EXCEPT ![h] = r],
           Waits(r) => Waits(handler[h]),
           code' \in {0, code}, attempts'.count = attempts.count,
           attempts' \in [count : Nat, ttl : BOOLEAN, older : BOOLEAN],
           requests' \in [count : Nat, ttl : BOOLEAN], stranded' \in BOOLEAN, RequestsTimed',
           UNCHANGED <<issued, guesses, forgiven, sessions, raced>>
    PROVE  OtpInv'
<1>1. /\ handler' \in [Handlers -> RequestOtp \cup VerifyOtp \cup {Quiet}]
      /\ Handled' /\ Waiting' = IF Waits(r) THEN Waiting \cup {h} ELSE Waiting \ {h}
    BY OneHandler DEF OtpInv
<1>2. Waiting' \subseteq Waiting
    BY <1>1 DEF Waiting
<1>3. OtpTypeOK'
    BY <1>1 DEF OtpInv, OtpTypeOK
<1> QED BY <1>1, <1>2, <1>3, LessWaiting

LEMMA TimedStays ==
    ASSUME OtpInv, NEW h \in Handlers, ~Serves(h, "request", "ttl"), NEW r,
           handler' = [handler EXCEPT ![h] = r], UNCHANGED <<requests, stranded>>
    PROVE  RequestsTimed'
<1> SUFFICES ASSUME requests.count > 0, ~requests.ttl, ~stranded
             PROVE  \E j \in Handlers : Serves(j, "request", "ttl")'
    BY DEF RequestsTimed
<1>1. PICK j \in Handlers : Serves(j, "request", "ttl")
    BY DEF OtpInv, RequestsTimed
<1>2. handler'[j] = handler[j]
    BY <1>1 DEF OtpInv, OtpTypeOK
<1> QED BY <1>1, <1>2 DEF Serves

LEMMA CountRequestKeeps ==
    ASSUME OtpInv, NEW h \in Handlers, CountRequest(h)
    PROVE  OtpInv'
<1> DEFINE n == requests.count + 1
           r == [op |-> "request", step |-> AfterIncr(n, "limit"), count |-> n]
<1>1. /\ handler[h] = Quiet /\ handler' = [handler EXCEPT ![h] = r]
      /\ requests' = [requests EXCEPT !.count = @ + 1]
      /\ UNCHANGED <<code, issued, attempts, guesses, forgiven, sessions, raced, stranded>>
    BY DEF CountRequest, otpHistory
<1>2. OtpTypeOK /\ Handled
    BY DEF OtpInv
<1>3. n \in Nat /\ requests' \in [count : Nat, ttl : BOOLEAN] /\ requests'.ttl = requests.ttl
    BY <1>1, <1>2 DEF OtpTypeOK
<1>4. r \in RequestOtp /\ InHand(r) /\ ~Waits(r)
    BY <1>3 DEF RequestOtp, AfterIncr, InHand, Waits
<1>5. handler'[h] = r /\ \A j \in Handlers \ {h} : handler'[j] = handler[j]
    BY <1>1, <1>2 DEF OtpTypeOK
<1>6. RequestsTimed'
  <2>1. CASE requests.count = 0
    <3>1. r.op = "request" /\ r.step = "ttl"
        BY <2>1 DEF AfterIncr
    <3>2. Serves(h, "request", "ttl")'
        BY <1>5, <3>1 DEF Serves
    <3> QED BY <3>2 DEF RequestsTimed
  <2>2. CASE requests.count > 0
    <3> SUFFICES ASSUME ~requests.ttl, ~stranded
                 PROVE  \E j \in Handlers : Serves(j, "request", "ttl")'
        BY <1>1, <1>3 DEF RequestsTimed
    <3>1. PICK j \in Handlers : Serves(j, "request", "ttl")
        BY <2>2 DEF OtpInv, RequestsTimed
    <3>2. j # h
        BY <1>1, <3>1 DEF Serves, Quiet
    <3> QED BY <1>5, <3>1, <3>2 DEF Serves
  <2> QED BY <1>2, <2>1, <2>2 DEF OtpTypeOK
<1> HIDE DEF r, n
<1> QED BY <1>1, <1>2, <1>3, <1>4, <1>6, HandlerGoesOn DEF OtpTypeOK

LEMMA RequestGoesOn ==
    ASSUME OtpInv, NEW h \in Handlers,
           SetRequestsTtl(h) \/ RequestEndsEarly(h) \/ RequestAllowed(h)
    PROVE  OtpInv'
<1> DEFINE r(step) == [handler[h] EXCEPT !.step = step]
<1>1. OtpTypeOK /\ Handled
    BY DEF OtpInv
<1>2. handler[h] \in RequestOtp
    BY ServesKind DEF SetRequestsTtl, RequestEndsEarly, RequestAllowed
<1>3. \A step \in {"limit", "set"} :
         r(step) \in RequestOtp /\ InHand(r(step)) /\ ~Waits(r(step))
    BY <1>2 DEF RequestOtp, InHand, Waits
<1>4. Quiet \in {Quiet} /\ InHand(Quiet) /\ ~Waits(Quiet)
    BY DEF Quiet, InHand, Waits
<1>5. CASE SetRequestsTtl(h)
  <2>1. /\ handler' = [handler EXCEPT ![h] = r("limit")]
        /\ requests' = IF requests.count = 0 THEN requests ELSE [requests EXCEPT !.ttl = TRUE]
        /\ UNCHANGED <<code, issued, attempts, guesses, forgiven, sessions, raced, stranded>>
      BY <1>5 DEF SetRequestsTtl, Step, otpHistory
  <2>2. requests' \in [count : Nat, ttl : BOOLEAN] /\ RequestsTimed'
    <3>1. requests \in [count : Nat, ttl : BOOLEAN]
        BY <1>1 DEF OtpTypeOK
    <3>2. CASE requests.count = 0
        BY <2>1, <3>1, <3>2 DEF RequestsTimed
    <3>3. CASE requests.count # 0
      <4>1. requests' = [requests EXCEPT !.ttl = TRUE]
          BY <2>1, <3>3
      <4> QED BY <3>1, <4>1 DEF RequestsTimed
    <3> QED BY <3>2, <3>3
  <2> HIDE DEF r
  <2> QED BY <1>1, <1>3, <2>1, <2>2, HandlerGoesOn DEF OtpTypeOK
<1>6. CASE RequestEndsEarly(h)
  <2>1. /\ handler' = [handler EXCEPT ![h] = Quiet] /\ ~Serves(h, "request", "ttl")
        /\ UNCHANGED <<code, issued, attempts, requests, guesses, forgiven, sessions, raced,
                       stranded>>
      BY <1>6 DEF RequestEndsEarly, Answer, Serves, otpHistory
  <2>2. RequestsTimed'
      BY <2>1, TimedStays
  <2> QED BY <1>1, <1>4, <2>1, <2>2, HandlerGoesOn DEF OtpTypeOK
<1>7. CASE RequestAllowed(h)
  <2>1. /\ handler' = [handler EXCEPT ![h] = r("set")] /\ ~Serves(h, "request", "ttl")
        /\ UNCHANGED <<code, issued, attempts, requests, guesses, forgiven, sessions, raced,
                       stranded>>
      BY <1>7 DEF RequestAllowed, Step, Serves, otpHistory
  <2> HIDE DEF r
  <2>2. RequestsTimed'
      BY <2>1, TimedStays
  <2> QED BY <1>1, <1>3, <2>1, <2>2, HandlerGoesOn DEF OtpTypeOK
<1> QED BY <1>5, <1>6, <1>7

LEMMA VerificationGoesOn ==
    ASSUME OtpInv, NEW h \in Handlers,
           \/ SetAttemptsTtl(h) \/ TooManyGuesses(h) \/ GuessAllowed(h)
           \/ AccountRefused(h) \/ AccountFound(h)
    PROVE  OtpInv'
<1> DEFINE r(step) == [handler[h] EXCEPT !.step = step]
<1>1. OtpTypeOK /\ Handled /\ MaxGuesses \in Nat
    BY OtpTypes DEF OtpInv
<1>2. handler[h] \in VerifyOtp /\ InHand(handler[h])
    BY ServesKind DEF SetAttemptsTtl, TooManyGuesses, GuessAllowed, AccountRefused, AccountFound,
                      OtpInv, Handled
<1>3. ~Serves(h, "request", "ttl")
    BY <1>2 DEF VerifyOtp, Serves
<1>4. Quiet \in {Quiet} /\ InHand(Quiet) /\ ~Waits(Quiet)
    BY DEF Quiet, InHand, Waits
<1>5. CASE SetAttemptsTtl(h)
  <2>1. /\ handler[h].step = "ttl" /\ handler' = [handler EXCEPT ![h] = r("limit")]
        /\ attempts' = IF attempts.count = 0 THEN attempts ELSE [attempts EXCEPT !.ttl = TRUE]
        /\ UNCHANGED <<code, issued, requests, guesses, forgiven, sessions, raced, stranded>>
      BY <1>5 DEF SetAttemptsTtl, Serves, Step, otpHistory
  <2>2. /\ attempts' \in [count : Nat, ttl : BOOLEAN, older : BOOLEAN]
        /\ attempts'.count = attempts.count
      BY <1>1, <2>1 DEF OtpTypeOK
  <2>3. r("limit") \in VerifyOtp /\ InHand(r("limit")) /\ (Waits(r("limit")) => Waits(handler[h]))
      BY <1>2, <2>1 DEF VerifyOtp, InHand, Waits
  <2> HIDE DEF r
  <2>4. RequestsTimed'
      BY <1>3, <2>1, TimedStays
  <2> QED BY <1>1, <2>1, <2>2, <2>3, <2>4, HandlerGoesOn DEF OtpTypeOK
<1>6. CASE TooManyGuesses(h) \/ AccountRefused(h)
  <2>1. /\ handler' = [handler EXCEPT ![h] = Quiet] /\ code' \in {0, code}
        /\ UNCHANGED <<issued, attempts, requests, guesses, forgiven, sessions, raced, stranded>>
      BY <1>6 DEF TooManyGuesses, AccountRefused, Answer, otpHistory
  <2>2. RequestsTimed'
      BY <1>3, <2>1, TimedStays
  <2> QED BY <1>1, <1>4, <2>1, <2>2, HandlerGoesOn DEF OtpTypeOK
<1>7. CASE GuessAllowed(h)
  <2>1. /\ handler[h].step = "limit" /\ handler[h].count <= MaxGuesses
        /\ handler' = [handler EXCEPT ![h] = r("compare")]
        /\ UNCHANGED <<code, issued, attempts, requests, guesses, forgiven, sessions, raced,
                       stranded>>
      BY <1>1, <1>2, <1>7 DEF GuessAllowed, TooMany, Serves, Step, VerifyOtp, otpHistory
  <2>2. r("compare") \in VerifyOtp /\ InHand(r("compare"))
        /\ (Waits(r("compare")) => Waits(handler[h]))
      BY <1>2, <2>1 DEF VerifyOtp, InHand, Waits
  <2> HIDE DEF r
  <2>3. RequestsTimed'
      BY <1>3, <2>1, TimedStays
  <2> QED BY <1>1, <2>1, <2>2, <2>3, HandlerGoesOn DEF OtpTypeOK
<1>8. CASE AccountFound(h)
  <2>1. /\ handler[h].step = "account" /\ handler' = [handler EXCEPT ![h] = r("spend")]
        /\ UNCHANGED <<code, issued, attempts, requests, guesses, forgiven, sessions, raced,
                       stranded>>
      BY <1>8 DEF AccountFound, Serves, Step, otpHistory
  <2>2. r("spend") \in VerifyOtp /\ InHand(r("spend")) /\ ~Waits(r("spend"))
      BY <1>2, <2>1 DEF VerifyOtp, InHand, Waits
  <2> HIDE DEF r
  <2>3. RequestsTimed'
      BY <1>3, <2>1, TimedStays
  <2> QED BY <1>1, <2>1, <2>2, <2>3, HandlerGoesOn DEF OtpTypeOK
<1> QED BY <1>5, <1>6, <1>7, <1>8

LEMMA SetCodeKeeps ==
    ASSUME OtpInv, NEW h \in Handlers, SetCode(h)
    PROVE  OtpInv'
<1> DEFINE n == issued + 1
           r == [handler[h] EXCEPT !.step = "reset"]
<1>1. /\ Serves(h, "request", "set") /\ issued < MaxCodes
      /\ issued' = n /\ code' = n
      /\ attempts' = [attempts EXCEPT !.older = attempts.count > 0]
      /\ handler' = [handler EXCEPT ![h] = r]
      /\ UNCHANGED <<requests, guesses, forgiven, sessions, raced, stranded>>
    BY DEF SetCode, Step, otpHistory
<1>2. OtpTypeOK /\ Handled /\ MaxCodes \in Nat /\ MaxGuesses \in Nat
    BY OtpTypes DEF OtpInv
<1>3. r \in RequestOtp /\ InHand(r) /\ ~Waits(r) /\ ~Serves(h, "request", "ttl")
  <2>1. handler[h] \in RequestOtp
      BY <1>1, ServesKind
  <2> QED BY <1>1, <2>1 DEF RequestOtp, InHand, Waits, Serves
<1> HIDE DEF r
<1>4. n \in Codes /\ n \in Nat /\ n > issued /\ n # 0 /\ n # code
  <2>1. issued \in Nat /\ code \in Nat /\ code <= issued
      BY <1>2, OtpTypes DEF OtpInv, Counted
  <2> QED BY <1>1, <1>2, <2>1 DEF Codes
<1>5. /\ handler' \in [Handlers -> RequestOtp \cup VerifyOtp \cup {Quiet}]
      /\ Handled' /\ Waiting' = Waiting \ {h}
    BY <1>1, <1>2, <1>3, OneHandler
<1>6. RequestsTimed'
    BY <1>1, <1>3, TimedStays
<1>7. attempts' \in [count : Nat, ttl : BOOLEAN, older : BOOLEAN] /\ attempts'.count = attempts.count
  <2>1. attempts \in [count : Nat, ttl : BOOLEAN, older : BOOLEAN]
      BY <1>2 DEF OtpTypeOK
  <2>2. (attempts.count > 0) \in BOOLEAN
      OBVIOUS
  <2> DEFINE b == attempts.count > 0
  <2> HIDE DEF b
  <2>3. attempts' = [attempts EXCEPT !.older = b] /\ b \in BOOLEAN
      BY <1>1, <2>2 DEF b
  <2> QED BY <2>1, <2>3
<1>8. OtpTypeOK'
    BY <1>1, <1>2, <1>4, <1>5, <1>7 DEF OtpTypeOK
<1>9. guesses[n] = 0 /\ forgiven[n] = 0 /\ sessions[n] <= raced[n]
    BY <1>2, <1>4 DEF OtpInv, Counted, OtpTypeOK
<1>10. Used' = 0
  <2>1. Used' = guesses'[n] - forgiven'[n]
      BY <1>1, <1>4 DEF Used
  <2> QED BY <1>1, <1>9, <2>1
<1>11. Cardinality(Waiting') <= Cardinality(Waiting) /\ Cardinality(Waiting') \in Nat
  <2>1. IsFiniteSet(Waiting) /\ Waiting' \subseteq Waiting
      BY <1>2, <1>5, OtpTypes
  <2> QED BY <2>1, FS_Subset, FS_CardinalityType
<1>12. 0 <= Used
  <2>1. CASE code = 0
      BY <2>1 DEF Used
  <2>2. CASE code # 0
    <3>1. code \in Codes
        BY <1>2, <2>2 DEF OtpTypeOK
    <3>2. forgiven[code] <= guesses[code] /\ forgiven[code] \in Nat /\ guesses[code] \in Nat
        BY <1>2, <3>1 DEF OtpInv, Counted, OtpTypeOK
    <3> QED BY <2>2, <3>2 DEF Used
  <2> QED BY <2>1, <2>2
<1>13. /\ Used' + Cardinality(Waiting') <= attempts'.count
       /\ Used' + Cardinality(Waiting') <= MaxGuesses
  <2>1. /\ Used + Cardinality(Waiting) <= attempts.count
        /\ Used + Cardinality(Waiting) <= MaxGuesses
        /\ Used \in Int /\ Cardinality(Waiting) \in Nat /\ attempts.count \in Nat
      BY <1>2, OtpTypes DEF OtpInv, Counted, OtpTypeOK
  <2> QED BY <1>2, <1>7, <1>10, <1>11, <1>12, <2>1
<1>14. ASSUME NEW c \in Codes
       PROVE  /\ forgiven'[c] <= guesses'[c]
              /\ guesses'[c] <= MaxGuesses + forgiven'[c]
              /\ c > issued' => guesses'[c] = 0 /\ sessions'[c] <= raced'[c]
              /\ sessions'[c] <= raced'[c] + (IF c = code' THEN 0 ELSE 1)
  <2>1. /\ forgiven[c] <= guesses[c] /\ guesses[c] <= MaxGuesses + forgiven[c]
        /\ c > issued => guesses[c] = 0 /\ sessions[c] <= raced[c]
        /\ sessions[c] <= raced[c] + (IF c = code THEN 0 ELSE 1)
        /\ sessions[c] \in Nat /\ raced[c] \in Nat /\ c \in Nat /\ issued \in Nat
      BY <1>2, OtpTypes, SMTT(40) DEF OtpInv, Counted, OtpTypeOK, Codes
  <2>2. CASE c = n
      BY <1>1, <1>9, <2>1, <2>2
  <2>3. CASE c # n
      BY <1>1, <2>1, <2>3
  <2> QED BY <2>2, <2>3
<1>15. code' <= issued'
    BY <1>1, <1>4
<1> QED BY <1>5, <1>6, <1>8, <1>13, <1>14, <1>15 DEF OtpInv, Counted

LEMMA CountGuessKeeps ==
    ASSUME OtpInv, NEW h \in Handlers, CountGuess(h)
    PROVE  OtpInv'
<1> DEFINE n == attempts.count + 1
           r(guess) == [op |-> "verify", step |-> AfterIncr(n, "limit"), count |-> n,
                        guess |-> guess, free |-> FALSE]
<1>1. /\ handler[h] = Quiet
      /\ attempts' = [attempts EXCEPT !.count = @ + 1]
      /\ UNCHANGED <<code, issued, requests, guesses, forgiven, sessions, raced, stranded>>
    BY DEF CountGuess, otpHistory
<1>2. PICK guess \in 0 .. issued : handler' = [handler EXCEPT ![h] = r(guess)]
    BY DEF CountGuess
<1>3. OtpTypeOK /\ Handled /\ MaxGuesses \in Nat /\ MaxCodes \in Nat
    BY OtpTypes DEF OtpInv
<1>4. n \in Nat /\ attempts' \in [count : Nat, ttl : BOOLEAN, older : BOOLEAN] /\ attempts'.count = n
    BY <1>1, <1>3 DEF OtpTypeOK
<1>5. guess \in {0} \cup Codes
    BY <1>2, <1>3 DEF OtpTypeOK, Codes
<1>6. r(guess) \in VerifyOtp /\ InHand(r(guess)) /\ (Waits(r(guess)) <=> n <= MaxGuesses)
    BY <1>4, <1>5 DEF VerifyOtp, AfterIncr, InHand, Waits
<1>7. ~Serves(h, "request", "ttl") /\ h \notin Waiting
    BY <1>1 DEF Serves, Quiet, Waiting, Waits
<1> HIDE DEF r, n
<1>8. /\ handler' \in [Handlers -> RequestOtp \cup VerifyOtp \cup {Quiet}]
      /\ Handled' /\ Waiting' = IF Waits(r(guess)) THEN Waiting \cup {h} ELSE Waiting \ {h}
    BY <1>2, <1>3, <1>6, OneHandler
<1>9. RequestsTimed'
    BY <1>1, <1>2, <1>7, TimedStays
<1>10. OtpTypeOK'
    BY <1>1, <1>3, <1>4, <1>8 DEF OtpTypeOK
<1>11. /\ IsFiniteSet(Waiting) /\ Cardinality(Waiting) \in Nat /\ Used \in Int
       /\ Used + Cardinality(Waiting) <= attempts.count
       /\ Used + Cardinality(Waiting) <= MaxGuesses
       /\ attempts.count \in Nat
    BY <1>3, OtpTypes DEF OtpInv, Counted, OtpTypeOK
<1>12. Used' = Used
    BY <1>1 DEF Used
<1>13. /\ Used' + Cardinality(Waiting') <= attempts'.count
       /\ Used' + Cardinality(Waiting') <= MaxGuesses
  <2>1. CASE n <= MaxGuesses
    <3>1. Waiting' = Waiting \cup {h}
        BY <1>6, <1>8, <2>1
    <3>2. Cardinality(Waiting \cup {h}) = Cardinality(Waiting) + 1
        BY <1>7, <1>11, FS_AddElement
    <3>3. Cardinality(Waiting') = Cardinality(Waiting) + 1
        BY <3>1, <3>2
    <3> QED BY <1>3, <1>4, <1>11, <1>12, <2>1, <3>3 DEF n
  <2>2. CASE ~(n <= MaxGuesses)
    <3>1. Waiting' = Waiting
        BY <1>6, <1>7, <1>8, <2>2
    <3>2. Cardinality(Waiting') = Cardinality(Waiting)
        BY <3>1
    <3> QED BY <1>3, <1>4, <1>11, <1>12, <3>2 DEF n
  <2> QED BY <2>1, <2>2
<1> QED BY <1>1, <1>8, <1>9, <1>10, <1>13 DEF OtpInv, Counted

LEMMA CompareKeeps ==
    ASSUME OtpInv, NEW h \in Handlers, Compare(h)
    PROVE  OtpInv'
<1> DEFINE o == handler[h]
           r == IF code # 0 /\ o.guess = code THEN [o EXCEPT !.step = "account"] ELSE Quiet
<1>1. /\ Serves(h, "verify", "compare") /\ handler' = [handler EXCEPT ![h] = r]
      /\ guesses' = [c \in Codes |-> IF c = code THEN guesses[c] + 1 ELSE guesses[c]]
      /\ forgiven' = [c \in Codes |->
             IF c = code /\ o.free THEN forgiven[c] + 1 ELSE forgiven[c]]
      /\ UNCHANGED <<code, issued, attempts, requests, sessions, raced, stranded>>
    BY DEF Compare
<1>2. OtpTypeOK /\ Handled /\ MaxGuesses \in Nat
    BY OtpTypes DEF OtpInv
<1>3. o \in VerifyOtp /\ InHand(o) /\ o.step = "compare" /\ o.op = "verify"
    BY <1>1, ServesKind DEF OtpInv, Handled, Serves
<1>4. r \in VerifyOtp \cup {Quiet} /\ InHand(r) /\ ~Waits(r) /\ ~Serves(h, "request", "ttl")
  <2>1. ~Serves(h, "request", "ttl")
      BY <1>3 DEF Serves
  <2>2. CASE code # 0 /\ o.guess = code
      BY <1>2, <1>3, <2>1, <2>2 DEF VerifyOtp, InHand, Waits, OtpTypeOK
  <2>3. CASE ~(code # 0 /\ o.guess = code)
      BY <2>1, <2>3 DEF InHand, Waits, Quiet
  <2> QED BY <2>2, <2>3
<1>5. h \in Waiting <=> ~o.free
    BY <1>3 DEF Waiting, Waits, InHand
<1> HIDE DEF r, o
<1>6. /\ handler' \in [Handlers -> RequestOtp \cup VerifyOtp \cup {Quiet}]
      /\ Handled' /\ Waiting' = Waiting \ {h}
    BY <1>1, <1>2, <1>4, OneHandler
<1>7. RequestsTimed'
    BY <1>1, <1>4, TimedStays
<1>8. guesses' \in [Codes -> Nat] /\ forgiven' \in [Codes -> Nat]
    BY <1>1, <1>2 DEF OtpTypeOK
<1>9. OtpTypeOK'
    BY <1>1, <1>2, <1>6, <1>8 DEF OtpTypeOK
<1>10. /\ IsFiniteSet(Waiting) /\ Cardinality(Waiting) \in Nat /\ Used \in Int
       /\ Used + Cardinality(Waiting) <= attempts.count
       /\ Used + Cardinality(Waiting) <= MaxGuesses
       /\ attempts.count \in Nat
    BY <1>2, OtpTypes DEF OtpInv, Counted, OtpTypeOK
<1>11. Cardinality(Waiting') = IF o.free THEN Cardinality(Waiting) ELSE Cardinality(Waiting) - 1
  <2>1. Cardinality(Waiting \ {h}) = IF h \in Waiting THEN Cardinality(Waiting) - 1
                                     ELSE Cardinality(Waiting)
      BY <1>10, FS_RemoveElement
  <2> QED BY <1>5, <1>6, <2>1
<1>12. /\ Used' \in Int
       /\ Used' <= IF o.free THEN Used ELSE Used + 1
  <2>1. CASE code = 0
    <3>1. Used' = 0 /\ Used = 0
        BY <1>1, <2>1 DEF Used
    <3> QED BY <3>1
  <2>2. CASE code # 0
    <3>1. code \in Codes
        BY <1>2, <2>2 DEF OtpTypeOK
    <3>2. Used = guesses[code] - forgiven[code] /\ guesses[code] \in Nat /\ forgiven[code] \in Nat
        BY <1>2, <2>2, <3>1 DEF Used, OtpTypeOK
    <3>3. Used' = guesses'[code] - forgiven'[code]
        BY <1>1, <2>2 DEF Used
    <3>4. /\ guesses'[code] = guesses[code] + 1
          /\ forgiven'[code] = IF o.free THEN forgiven[code] + 1 ELSE forgiven[code]
        BY <1>1, <3>1
    <3> QED BY <3>2, <3>3, <3>4
  <2> QED BY <2>1, <2>2
<1>13. /\ Used' + Cardinality(Waiting') <= attempts'.count
       /\ Used' + Cardinality(Waiting') <= MaxGuesses
    BY <1>1, <1>2, <1>10, <1>11, <1>12
<1>14. ASSUME NEW c \in Codes
       PROVE  /\ forgiven'[c] <= guesses'[c]
              /\ guesses'[c] <= MaxGuesses + forgiven'[c]
              /\ c > issued' => guesses'[c] = 0 /\ sessions'[c] <= raced'[c]
              /\ sessions'[c] <= raced'[c] + (IF c = code' THEN 0 ELSE 1)
  <2>1. /\ forgiven[c] <= guesses[c] /\ guesses[c] <= MaxGuesses + forgiven[c]
        /\ c > issued => guesses[c] = 0 /\ sessions[c] <= raced[c]
        /\ sessions[c] <= raced[c] + (IF c = code THEN 0 ELSE 1)
        /\ guesses[c] \in Nat /\ forgiven[c] \in Nat
        /\ c \in Nat /\ c # 0 /\ issued \in Nat /\ code <= issued /\ code \in Nat
      BY <1>2, OtpTypes DEF OtpInv, Counted, OtpTypeOK, Codes
  <2>2. CASE c # code
    <3>1. guesses'[c] = guesses[c] /\ forgiven'[c] = forgiven[c]
        BY <1>1, <2>2
    <3> QED BY <1>1, <2>1, <3>1
  <2>3. CASE c = code
    <3>1. /\ guesses'[c] = guesses[c] + 1
          /\ forgiven'[c] = IF o.free THEN forgiven[c] + 1 ELSE forgiven[c]
        BY <1>1, <2>3
    <3>2. guesses'[c] <= MaxGuesses + forgiven'[c]
      <4>1. Used' = guesses'[c] - forgiven'[c]
          BY <1>1, <2>1, <2>3 DEF Used
      <4>2. Cardinality(Waiting') \in Nat
          BY <1>10, <1>11, <1>5, <1>6, FS_RemoveElement, FS_CardinalityType
      <4>3. guesses'[c] \in Nat /\ forgiven'[c] \in Nat
          BY <1>8
      <4> QED BY <1>2, <1>13, <4>1, <4>2, <4>3
    <3>3. forgiven'[c] <= guesses'[c]
        BY <2>1, <3>1
    <3>4. ~(c > issued)
        BY <2>1, <2>3
    <3> QED BY <1>1, <2>1, <3>2, <3>3, <3>4
  <2> QED BY <2>2, <2>3
<1>15. code' <= issued'
    BY <1>1 DEF OtpInv, Counted
<1> QED BY <1>6, <1>7, <1>9, <1>13, <1>14, <1>15 DEF OtpInv, Counted

\* What a reset of the counter of guesses leaves.
LEMMA ResetSets ==
    ASSUME OtpInv, NEW handlers \in [Handlers -> RequestOtp \cup VerifyOtp \cup {Quiet}],
           \A h \in Handlers : InHand(handlers[h]), ResetAttempts(handlers)
    PROVE  /\ handler' \in [Handlers -> RequestOtp \cup VerifyOtp \cup {Quiet}]
           /\ \A h \in Handlers : handlers[h].op = "request" => handler'[h] = handlers[h]
           /\ Handled' /\ Waiting' = {}
           /\ attempts' \in [count : Nat, ttl : BOOLEAN, older : BOOLEAN] /\ attempts'.count = 0
           /\ forgiven' \in [Codes -> Nat]
           /\ \A c \in Codes : forgiven'[c] = IF c = code THEN guesses[c] ELSE forgiven[c]
<1>1. /\ attempts' = NoAttempts
      /\ handler' = [h \in Handlers |->
             IF handlers[h].op = "verify" THEN [handlers[h] EXCEPT !.free = TRUE]
             ELSE handlers[h]]
      /\ forgiven' = [c \in Codes |-> IF c = code THEN guesses[c] ELSE forgiven[c]]
    BY DEF ResetAttempts
<1>2. ASSUME NEW h \in Handlers
      PROVE  /\ handler'[h] \in RequestOtp \cup VerifyOtp \cup {Quiet}
             /\ handlers[h].op = "request" => handler'[h] = handlers[h]
             /\ InHand(handler'[h]) /\ ~Waits(handler'[h])
  <2>1. handlers[h] \in RequestOtp \cup VerifyOtp \cup {Quiet} /\ InHand(handlers[h])
      OBVIOUS
  <2>2. CASE handlers[h] \in VerifyOtp
    <3>1. handlers[h].op = "verify"
        BY <2>2 DEF VerifyOtp
    <3>2. handler'[h] = [handlers[h] EXCEPT !.free = TRUE]
        BY <1>1, <3>1
    <3> QED BY <2>1, <2>2, <3>2 DEF VerifyOtp, InHand, Waits
  <2>3. CASE handlers[h] \in RequestOtp \cup {Quiet}
    <3>1. handlers[h].op # "verify"
        BY <2>3 DEF RequestOtp, Quiet
    <3> QED BY <1>1, <2>1, <2>3, <3>1 DEF Waits
  <2> QED BY <2>1, <2>2, <2>3
<1>3. handler' \in [Handlers -> RequestOtp \cup VerifyOtp \cup {Quiet}]
  <2>1. DOMAIN handler' = Handlers /\ handler' = [h \in Handlers |-> handler'[h]]
      BY <1>1
  <2> QED BY <1>2, <2>1
<1>4. Handled' /\ Waiting' = {}
  <2>1. \A h \in Handlers : InHand(handler[h])' /\ ~Waits(handler[h])'
      BY <1>2 DEF InHand, Waits
  <2> QED BY <2>1 DEF Handled, Waiting
<1>5. attempts' \in [count : Nat, ttl : BOOLEAN, older : BOOLEAN] /\ attempts'.count = 0
    BY <1>1 DEF NoAttempts
<1>6. /\ forgiven' \in [Codes -> Nat]
      /\ \A c \in Codes : forgiven'[c] = IF c = code THEN guesses[c] ELSE forgiven[c]
    BY <1>1 DEF OtpInv, OtpTypeOK
<1> QED BY <1>2, <1>3, <1>4, <1>5, <1>6

\* A reset forgives every guess at the code in force.
LEMMA ResetCounts ==
    ASSUME OtpInv, Waiting' = {}, attempts'.count = 0, code' \in {0, code},
           \A c \in Codes : forgiven'[c] = IF c = code THEN guesses[c] ELSE forgiven[c],
           \A c \in Codes : sessions'[c] <= raced'[c] + (IF c = code' THEN 0 ELSE 1),
           \A c \in Codes : c > issued => sessions'[c] <= raced'[c],
           UNCHANGED <<issued, guesses>>
    PROVE  Counted'
<1>1. MaxGuesses \in Nat /\ OtpTypeOK /\ issued \in Nat /\ code \in Nat
    BY OtpTypes DEF OtpInv
<1>2. Used' = 0
  <2>1. CASE code' = 0
      BY <2>1 DEF Used
  <2>2. CASE code' # 0
    <3>1. code' = code /\ code \in Codes
        BY <1>1, <2>2 DEF OtpTypeOK
    <3>2. guesses[code] \in Nat /\ forgiven'[code] = guesses[code]
        BY <1>1, <3>1 DEF OtpTypeOK
    <3>3. Used' = guesses'[code] - forgiven'[code]
        BY <2>2, <3>1 DEF Used
    <3> QED BY <3>2, <3>3
  <2> QED BY <2>1, <2>2
<1>3. Cardinality(Waiting') = 0
    BY FS_EmptySet
<1>4. ASSUME NEW c \in Codes
      PROVE  /\ forgiven'[c] <= guesses'[c] /\ guesses'[c] <= MaxGuesses + forgiven'[c]
             /\ c > issued' => guesses'[c] = 0
  <2>1. /\ forgiven[c] <= guesses[c] /\ guesses[c] <= MaxGuesses + forgiven[c]
        /\ c > issued => guesses[c] = 0
        /\ guesses[c] \in Nat /\ forgiven[c] \in Nat
      BY <1>1 DEF OtpInv, Counted, OtpTypeOK
  <2>2. forgiven'[c] = IF c = code THEN guesses[c] ELSE forgiven[c]
      OBVIOUS
  <2> QED BY <1>1, <2>1, <2>2
<1>5. code' <= issued'
    BY <1>1 DEF OtpInv, Counted
<1> QED BY <1>1, <1>2, <1>3, <1>4, <1>5 DEF Counted

\* A handler that resets the counter is done.
LEMMA DoneAndReset ==
    ASSUME OtpInv, NEW h \in Handlers, ~Serves(h, "request", "ttl"),
           ResetAttempts([handler EXCEPT ![h] = Quiet]), UNCHANGED <<requests, stranded>>
    PROVE  /\ handler' \in [Handlers -> RequestOtp \cup VerifyOtp \cup {Quiet}]
           /\ Handled' /\ Waiting' = {} /\ RequestsTimed'
           /\ attempts' \in [count : Nat, ttl : BOOLEAN, older : BOOLEAN] /\ attempts'.count = 0
           /\ forgiven' \in [Codes -> Nat]
           /\ \A c \in Codes : forgiven'[c] = IF c = code THEN guesses[c] ELSE forgiven[c]
<1> DEFINE handlers == [handler EXCEPT ![h] = Quiet]
<1>1. /\ handlers \in [Handlers -> RequestOtp \cup VerifyOtp \cup {Quiet}]
      /\ handlers[h] = Quiet /\ \A j \in Handlers \ {h} : handlers[j] = handler[j]
    BY DEF OtpInv, OtpTypeOK
<1>2. InHand(Quiet)
    BY DEF InHand, Quiet
<1> HIDE DEF handlers
<1>3. \A j \in Handlers : InHand(handlers[j])
    BY <1>1, <1>2 DEF OtpInv, Handled
<1>4. ResetAttempts(handlers)
    BY DEF handlers
<1>5. /\ handler' \in [Handlers -> RequestOtp \cup VerifyOtp \cup {Quiet}]
      /\ \A j \in Handlers : handlers[j].op = "request" => handler'[j] = handlers[j]
      /\ Handled' /\ Waiting' = {}
      /\ attempts' \in [count : Nat, ttl : BOOLEAN, older : BOOLEAN] /\ attempts'.count = 0
      /\ forgiven' \in [Codes -> Nat]
      /\ \A c \in Codes : forgiven'[c] = IF c = code THEN guesses[c] ELSE forgiven[c]
    BY <1>1, <1>3, <1>4, ResetSets
<1>6. RequestsTimed'
  <2> SUFFICES ASSUME requests.count > 0, ~requests.ttl, ~stranded
               PROVE  \E j \in Handlers : Serves(j, "request", "ttl")'
      BY DEF RequestsTimed
  <2>1. PICK j \in Handlers : Serves(j, "request", "ttl")
      BY DEF OtpInv, RequestsTimed
  <2>2. handler'[j] = handler[j]
      BY <1>1, <1>5, <2>1 DEF Serves
  <2> QED BY <2>1, <2>2 DEF Serves
<1> QED BY <1>5, <1>6

LEMMA ResetAfterCodeKeeps ==
    ASSUME OtpInv, NEW h \in Handlers, ResetAfterCode(h)
    PROVE  OtpInv'
<1>1. /\ ~Serves(h, "request", "ttl") /\ ResetAttempts([handler EXCEPT ![h] = Quiet])
      /\ UNCHANGED <<code, issued, requests, guesses, sessions, raced, stranded>>
    BY DEF ResetAfterCode, Serves
<1>2. /\ handler' \in [Handlers -> RequestOtp \cup VerifyOtp \cup {Quiet}]
      /\ Handled' /\ Waiting' = {} /\ RequestsTimed'
      /\ attempts' \in [count : Nat, ttl : BOOLEAN, older : BOOLEAN] /\ attempts'.count = 0
      /\ forgiven' \in [Codes -> Nat]
      /\ \A c \in Codes : forgiven'[c] = IF c = code THEN guesses[c] ELSE forgiven[c]
    BY <1>1, DoneAndReset
<1>3. OtpTypeOK'
    BY <1>1, <1>2 DEF OtpInv, OtpTypeOK
<1>4. /\ \A c \in Codes : sessions'[c] <= raced'[c] + (IF c = code' THEN 0 ELSE 1)
      /\ \A c \in Codes : c > issued => sessions'[c] <= raced'[c]
    BY <1>1 DEF OtpInv, Counted
<1>5. Counted'
    BY <1>1, <1>2, <1>4, ResetCounts
<1> QED BY <1>2, <1>3, <1>5 DEF OtpInv

\* The second of two verifications that spend a code is one that found it gone.
LEMMA SpendCodeKeeps ==
    ASSUME OtpInv, NEW h \in Handlers, SpendCode(h)
    PROVE  OtpInv'
<1> DEFINE d == handler[h].guess
<1>1. /\ Serves(h, "verify", "spend")
      /\ sessions' = [sessions EXCEPT ![d] = @ + 1]
      /\ raced' = IF code # d THEN [raced EXCEPT ![d] = @ + 1] ELSE raced
      /\ code' = 0
      /\ ResetAttempts([handler EXCEPT ![h] = Quiet])
      /\ UNCHANGED <<issued, requests, guesses, stranded>>
    BY DEF SpendCode, Spent
<1>2. OtpTypeOK
    BY DEF OtpInv
<1>3. d \in Codes /\ ~Serves(h, "request", "ttl")
    BY <1>1 DEF OtpInv, Handled, InHand, Serves
<1> HIDE DEF d
<1>4. /\ handler' \in [Handlers -> RequestOtp \cup VerifyOtp \cup {Quiet}]
      /\ Handled' /\ Waiting' = {} /\ RequestsTimed'
      /\ attempts' \in [count : Nat, ttl : BOOLEAN, older : BOOLEAN] /\ attempts'.count = 0
      /\ forgiven' \in [Codes -> Nat]
      /\ \A c \in Codes : forgiven'[c] = IF c = code THEN guesses[c] ELSE forgiven[c]
    BY <1>1, <1>3, DoneAndReset
<1>5. sessions' \in [Codes -> Nat] /\ raced' \in [Codes -> Nat]
    BY <1>1, <1>2, <1>3 DEF OtpTypeOK
<1>6. OtpTypeOK'
    BY <1>1, <1>2, <1>4, <1>5 DEF OtpTypeOK
<1>7. ASSUME NEW c \in Codes
      PROVE  /\ sessions'[c] <= raced'[c] + (IF c = code' THEN 0 ELSE 1)
             /\ c > issued => sessions'[c] <= raced'[c]
  <2>1. /\ sessions[c] <= raced[c] + (IF c = code THEN 0 ELSE 1)
        /\ c > issued => sessions[c] <= raced[c]
        /\ sessions[c] \in Nat /\ raced[c] \in Nat
        /\ c \in Nat /\ c # 0 /\ issued \in Nat /\ code <= issued /\ code \in Nat
      BY <1>2, OtpTypes, SMTT(40) DEF OtpInv, Counted, OtpTypeOK, Codes
  <2>2. CASE c # d
    <3>1. sessions'[c] = sessions[c] /\ raced'[c] = raced[c]
        BY <1>1, <1>2, <2>2 DEF OtpTypeOK
    <3> QED BY <1>1, <2>1, <3>1
  <2>3. CASE c = d
    <3>1. sessions'[c] = sessions[c] + 1
        BY <1>1, <1>2, <2>3 DEF OtpTypeOK
    <3>2. raced'[c] = IF code # c THEN raced[c] + 1 ELSE raced[c]
        BY <1>1, <1>2, <2>3 DEF OtpTypeOK
    <3> QED BY <1>1, <2>1, <3>1, <3>2
  <2> QED BY <2>2, <2>3
<1>8. Counted'
    BY <1>1, <1>4, <1>7, ResetCounts
<1> QED BY <1>4, <1>6, <1>8 DEF OtpInv

LEMMA TimeKeeps ==
    ASSUME OtpInv, CodeExpires \/ AttemptsExpire \/ RequestsExpire \/ UNCHANGED otpVars
    PROVE  OtpInv'
<1>1. OtpTypeOK /\ Handled /\ RequestsTimed
    BY DEF OtpInv
<1>2. CASE AttemptsExpire
  <2>1. ResetAttempts(handler)
        /\ UNCHANGED <<code, issued, requests, guesses, sessions, raced, stranded>>
      BY <1>2 DEF AttemptsExpire
  <2>2. handler \in [Handlers -> RequestOtp \cup VerifyOtp \cup {Quiet}]
      BY <1>1 DEF OtpTypeOK
  <2>3. \A j \in Handlers : InHand(handler[j])
      BY <1>1 DEF Handled
  <2>4. /\ handler' \in [Handlers -> RequestOtp \cup VerifyOtp \cup {Quiet}]
        /\ \A j \in Handlers : handler[j].op = "request" => handler'[j] = handler[j]
        /\ Handled' /\ Waiting' = {}
        /\ attempts' \in [count : Nat, ttl : BOOLEAN, older : BOOLEAN] /\ attempts'.count = 0
        /\ forgiven' \in [Codes -> Nat]
        /\ \A c \in Codes : forgiven'[c] = IF c = code THEN guesses[c] ELSE forgiven[c]
      BY <2>1, <2>2, <2>3, ResetSets
  <2>5. RequestsTimed'
      BY <1>1, <2>1, <2>4 DEF RequestsTimed, Serves
  <2>6. OtpTypeOK'
      BY <1>1, <2>1, <2>4 DEF OtpTypeOK
  <2>7. /\ \A c \in Codes : sessions'[c] <= raced'[c] + (IF c = code' THEN 0 ELSE 1)
        /\ \A c \in Codes : c > issued => sessions'[c] <= raced'[c]
      BY <2>1 DEF OtpInv, Counted
  <2>8. Counted'
      BY <2>1, <2>4, <2>7, ResetCounts
  <2> QED BY <2>4, <2>5, <2>6, <2>8 DEF OtpInv
<1>3. CASE CodeExpires \/ RequestsExpire \/ UNCHANGED otpVars
  <2>1. /\ code' \in {0, code} /\ requests' \in {requests, NoRequests}
        /\ UNCHANGED <<issued, attempts, handler, guesses, forgiven, sessions, raced, stranded>>
      BY <1>3 DEF CodeExpires, RequestsExpire, otpVars, otpHistory
  <2>2. OtpTypeOK'
    <3>1. code' \in Codes \cup {0}
        BY <1>1, <2>1 DEF OtpTypeOK
    <3>2. requests' \in [count : Nat, ttl : BOOLEAN]
      <4>1. requests \in [count : Nat, ttl : BOOLEAN]
          BY <1>1 DEF OtpTypeOK
      <4>2. NoRequests \in [count : Nat, ttl : BOOLEAN]
          BY DEF NoRequests
      <4> QED BY <2>1, <4>1, <4>2
    <3> QED BY <1>1, <2>1, <3>1, <3>2 DEF OtpTypeOK
  <2>3. Handled' /\ RequestsTimed'
      BY <1>1, <2>1 DEF Handled, InHand, RequestsTimed, Serves, NoRequests
  <2>4. Waiting' = Waiting
      BY <2>1 DEF Waiting, Waits
  <2> QED BY <2>1, <2>2, <2>3, <2>4, LessWaiting
<1> QED BY <1>2, <1>3

LEMMA HandlerDiesKeeps ==
    ASSUME OtpInv, NEW h \in Handlers, HandlerDies(h)
    PROVE  OtpInv'
<1>1. /\ handler' = [handler EXCEPT ![h] = Quiet]
      /\ stranded' = (stranded \/ Serves(h, "request", "ttl"))
      /\ UNCHANGED <<code, issued, attempts, requests, guesses, forgiven, sessions, raced>>
    BY DEF HandlerDies, Answer
<1>2. OtpTypeOK
    BY DEF OtpInv
<1>3. Quiet \in {Quiet} /\ InHand(Quiet) /\ ~Waits(Quiet)
    BY DEF Quiet, InHand, Waits
<1>4. stranded' \in BOOLEAN /\ (stranded' <=> stranded \/ Serves(h, "request", "ttl"))
    BY <1>1, <1>2, Zenon DEF Serves, OtpTypeOK
<1>5. RequestsTimed'
  <2> SUFFICES ASSUME requests.count > 0, ~requests.ttl, ~stranded, ~Serves(h, "request", "ttl")
               PROVE  \E j \in Handlers : Serves(j, "request", "ttl")'
      BY <1>1, <1>4 DEF RequestsTimed
  <2>1. PICK j \in Handlers : Serves(j, "request", "ttl")
      BY DEF OtpInv, RequestsTimed
  <2>2. handler'[j] = handler[j]
      BY <1>1, <1>2, <2>1 DEF OtpTypeOK
  <2> QED BY <2>1, <2>2 DEF Serves
<1> QED BY <1>1, <1>2, <1>3, <1>4, <1>5, HandlerGoesOn DEF OtpTypeOK

LEMMA OtpInitInv ==
    ASSUME OtpInit
    PROVE  OtpInv
<1>1. OtpTypeOK
  <2>1. issued \in 0 .. MaxCodes
      BY OtpAssumption DEF OtpInit
  <2> QED BY <2>1 DEF OtpInit, OtpTypeOK, NoAttempts, NoRequests, Codes
<1>2. Handled
    BY DEF OtpInit, Handled, InHand, Quiet
<1>3. Counted
  <2>1. Waiting = {} /\ Used = 0
      BY DEF OtpInit, Waiting, Waits, Quiet, Used
  <2>2. Cardinality(Waiting) = 0
      BY <2>1, FS_EmptySet
  <2>3. MaxGuesses \in Nat
      BY OtpAssumption
  <2> QED BY <2>1, <2>2, <2>3 DEF OtpInit, Counted, NoAttempts
<1>4. RequestsTimed
    BY DEF OtpInit, RequestsTimed, NoRequests
<1> QED BY <1>1, <1>2, <1>3, <1>4 DEF OtpInv

\* The types of Otp, and the invariant the other theorems rest on.
THEOREM OtpInvariant == OtpSpec => [](OtpTypeOK /\ OtpInv)
<1>1. OtpInit => OtpInv
    BY OtpInitInv
<1>2. OtpInv /\ [OtpNext]_otpVars => OtpInv'
  <2> SUFFICES ASSUME OtpInv, [OtpNext]_otpVars PROVE OtpInv'
      OBVIOUS
  <2>1. ASSUME NEW h \in Handlers,
               \/ CountRequest(h) \/ SetRequestsTtl(h) \/ RequestEndsEarly(h)
               \/ RequestAllowed(h) \/ SetCode(h) \/ ResetAfterCode(h)
               \/ CountGuess(h) \/ SetAttemptsTtl(h) \/ TooManyGuesses(h)
               \/ GuessAllowed(h) \/ Compare(h) \/ AccountRefused(h) \/ AccountFound(h)
               \/ SpendCode(h) \/ HandlerDies(h)
        PROVE  OtpInv'
      BY <2>1, CountRequestKeeps, RequestGoesOn, SetCodeKeeps, ResetAfterCodeKeeps, CountGuessKeeps,
         VerificationGoesOn, CompareKeeps, SpendCodeKeeps, HandlerDiesKeeps
  <2> QED BY <2>1, TimeKeeps DEF OtpNext
<1>3. OtpInv => OtpTypeOK
    BY DEF OtpInv
<1> QED BY <1>1, <1>2, <1>3, PTL DEF OtpSpec

\* verifyOtp (otp.service.ts): a code meets MaxGuesses guesses at most, but for
\* those a reset of the counter forgave, and opens one session, but for
\* verifications that found it gone when they came to spend it.
THEOREM CodesHoldAlways == OtpSpec => []CodesHold
<1>1. OtpInv => CodesHold
  <2> SUFFICES ASSUME OtpInv, NEW c \in Codes
               PROVE  guesses[c] <= MaxGuesses + forgiven[c] /\ sessions[c] <= 1 + raced[c]
      BY DEF CodesHold
  <2>1. /\ guesses[c] <= MaxGuesses + forgiven[c]
        /\ sessions[c] <= raced[c] + (IF c = code THEN 0 ELSE 1)
      BY DEF OtpInv, Counted
  <2>2. sessions[c] \in Nat /\ raced[c] \in Nat
      BY DEF OtpInv, OtpTypeOK
  <2> QED BY <2>1, <2>2
<1> QED BY <1>1, OtpInvariant, PTL

\* requestOtp's incr and expire: with nobody at work, a counter of requests has
\* its TTL, unless a handler died between the two commands.
THEOREM LockoutsEnd == OtpSpec => []LockoutEnds
<1>1. OtpInv => LockoutEnds
    BY DEF OtpInv, RequestsTimed, LockoutEnds, Serves, Quiet
<1> QED BY <1>1, OtpInvariant, PTL
================================================================================
