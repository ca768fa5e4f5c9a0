---------------------- MODULE RegistrationTokensProofs ----------------------
(***************************************************************************)
(* For any number of tokens, calls, names and addresses: a token registers *)
(* one endpoint at most, a reservation belongs to one running call, and    *)
(* the store respects its cap.                                             *)
(***************************************************************************)
EXTENDS RegistrationTokens, FiniteSetTheorems, TLAPS

\* What a call in progress knows of its token.
CallsOK ==
    \A p \in Calls :
        /\ calls[p].pc = "issue" => calls[p].name \in Names
        /\ calls[p].pc \in Running \cup {"use"} => calls[p].token \in issued
        /\ calls[p].pc \in Running \cup {"use"} => calls[p].url \in Urls
        /\ calls[p].pc \in Running => calls[p].name \in Names

\* Two calls never run on one token, even if it was purged meanwhile: it is
\* not issued again.
OneRunner ==
    \A p, q \in Calls, t \in Tokens :
        UsesToken(p, t) /\ UsesToken(q, t) => p = q

StoreOK ==
    /\ DOMAIN tokens \subseteq issued
    /\ \A t \in DOMAIN tokens :
          tokens[t].inUse <=> \E p \in Calls : UsesToken(p, t)

\* A token that has registered an endpoint is run by no call but the one
\* that has just done so, and is in the store only because of that call.
SpentOK ==
    \A t \in Tokens :
        /\ spent[t] \in {0, 1}
        /\ spent[t] = 1 =>
              /\ t \in issued
              /\ t \in DOMAIN tokens => tokens[t].inUse
              /\ \A p \in Calls : UsesToken(p, t) => calls[p].pc = "ok"
        /\ spent[t] = 0 =>
              \A p \in Calls : UsesToken(p, t) => calls[p].pc # "ok"

CapOK == IsFiniteSet(DOMAIN tokens) /\ WithinCap

IInv == TypeOK /\ CallsOK /\ OneRunner /\ StoreOK /\ SpentOK

-----------------------------------------------------------------------------
LEMMA IdleType == Idle \in Call
BY DEF Idle, Call

LEMMA InitIInv == Init => IInv
<1> SUFFICES ASSUME Init PROVE IInv
  OBVIOUS
<1>1. TypeOK
  BY IdleType DEF Init, TypeOK
<1>2. \A p \in Calls : calls[p].pc = "idle"
  BY DEF Init, Idle
<1>3. CallsOK /\ OneRunner
  BY <1>2 DEF CallsOK, OneRunner, UsesToken, Running
<1>4. StoreOK /\ SpentOK
  BY <1>2 DEF Init, StoreOK, SpentOK, UsesToken, Running
<1>5. QED  BY <1>1, <1>3, <1>4 DEF IInv

\* A purge only removes entries.
LEMMA PurgedFacts ==
    ASSUME NEW time
    PROVE  /\ DOMAIN Purged(time) \subseteq DOMAIN tokens
           /\ \A t \in DOMAIN Purged(time) : Purged(time)[t] = tokens[t]
BY DEF Purged, Unexpired

\* What a step of a call that neither runs nor starts to run on a token does.
Outside(p, call) ==
    /\ call \in Call /\ calls' = [calls EXCEPT ![p] = call]
    /\ calls[p].pc \notin Running /\ call.pc \notin Running
    /\ call.pc = "use" => call.token \in issued /\ call.url \in Urls
    /\ call.pc = "issue" => call.name \in Names
    /\ issued \subseteq issued' /\ issued' \subseteq Tokens
    /\ DOMAIN tokens' \subseteq issued'
    /\ \A t \in DOMAIN tokens' :
          /\ tokens'[t] \in Entry
          /\ \/ t \in DOMAIN tokens /\ tokens'[t] = tokens[t]
             \/ t \notin issued /\ ~tokens'[t].inUse
    /\ now' = now /\ endpoints' = endpoints /\ spent' = spent

LEMMA Outsider ==
    ASSUME IInv, NEW p \in Calls, NEW call, Outside(p, call)
    PROVE  IInv'
<1> USE DEF Outside
<1>1. /\ calls' \in [Calls -> Call] /\ calls'[p] = call
      /\ \A q \in Calls : q # p => calls'[q] = calls[q]
  BY DEF IInv, TypeOK
<1>2. TypeOK'
  BY <1>1 DEF IInv, TypeOK
<1>3. \A q \in Calls, t \in Tokens : UsesToken(q, t)' <=> UsesToken(q, t)
  BY <1>1 DEF UsesToken
<1>4. CallsOK'
  BY <1>1 DEF IInv, CallsOK, Running
<1>5. OneRunner'
  BY <1>3 DEF IInv, OneRunner
<1>6. StoreOK'
  <2>1. ASSUME NEW t \in DOMAIN tokens'
        PROVE  tokens'[t].inUse <=> \E q \in Calls : UsesToken(q, t)'
    <3>1. t \in Tokens
      BY <2>1
    <3>2. CASE t \in DOMAIN tokens /\ tokens'[t] = tokens[t]
      BY <1>3, <3>1, <3>2 DEF IInv, StoreOK
    <3>3. CASE t \notin issued /\ ~tokens'[t].inUse
      BY <1>3, <3>1, <3>3 DEF IInv, CallsOK, UsesToken
    <3>4. QED  BY <3>2, <3>3, <2>1
  <2>2. QED  BY <2>1 DEF StoreOK
<1>7. SpentOK'
  <2>1. ASSUME NEW t \in Tokens, spent[t] = 1
        PROVE  /\ t \in issued'
               /\ t \in DOMAIN tokens' => tokens'[t].inUse
               /\ \A q \in Calls : UsesToken(q, t)' => calls'[q].pc = "ok"
    <3>1. /\ t \in issued
          /\ t \in DOMAIN tokens => tokens[t].inUse
          /\ \A q \in Calls : UsesToken(q, t) => calls[q].pc = "ok"
      BY <2>1 DEF IInv, SpentOK
    <3>2. QED  BY <1>1, <1>3, <3>1 DEF UsesToken
  <2>2. ASSUME NEW t \in Tokens, spent[t] = 0
        PROVE  \A q \in Calls : UsesToken(q, t)' => calls'[q].pc # "ok"
    BY <1>1, <1>3, <2>2 DEF IInv, SpentOK, UsesToken
  <2>3. QED  BY <2>1, <2>2 DEF IInv, SpentOK
<1>8. QED  BY <1>2, <1>4, <1>5, <1>6, <1>7 DEF IInv

LEMMA IssueInv ==
    ASSUME IInv, NEW p \in Calls, IssueStore(p)
    PROVE  IInv'
<1> DEFINE live == Purged(calls[p].read)
<1>1. /\ calls[p] \in Call /\ calls[p].pc = "issue" /\ Become(p, Idle)
      /\ UNCHANGED <<now, endpoints, spent>>
      /\ calls[p].name \in Names /\ calls[p].read + TTL \in Nat
  BY TokenAssumption DEF IssueStore, IInv, TypeOK, CallsOK, Call
<1>2. calls[p].pc \notin Running /\ Idle.pc = "idle" /\ Idle.pc \notin Running
  BY <1>1 DEF Running, Idle
<1>3. /\ DOMAIN live \subseteq DOMAIN tokens
      /\ \A t \in DOMAIN live : live[t] = tokens[t] /\ live[t] \in Entry
  BY PurgedFacts DEF IInv, TypeOK
<1>4. /\ DOMAIN tokens \subseteq issued /\ issued \subseteq Tokens
  BY DEF IInv, StoreOK, TypeOK
<1>5. CASE tokens' = live /\ UNCHANGED issued
  <2> HIDE DEF live
  <2>1. \A u \in DOMAIN tokens' :
          /\ tokens'[u] \in Entry
          /\ u \in DOMAIN tokens /\ tokens'[u] = tokens[u]
    BY <1>3, <1>5
  <2>2. /\ DOMAIN tokens' \subseteq issued' /\ issued \subseteq issued'
        /\ issued' \subseteq Tokens
    BY <1>3, <1>4, <1>5
  <2>3. Outside(p, Idle)
    BY <1>1, <1>2, <2>1, <2>2, IdleType DEF Outside, Become
  <2>4. QED  BY <2>3, Outsider
<1>6. ASSUME NEW t \in Tokens \ issued,
             tokens' = [u \in DOMAIN live \cup {t} |->
                          IF u = t THEN [name |-> calls[p].name, inUse |-> FALSE,
                                         expires |-> calls[p].read + TTL]
                          ELSE live[u]],
             issued' = issued \cup {t}
      PROVE  IInv'
  <2> HIDE DEF live
  <2>1. [name |-> calls[p].name, inUse |-> FALSE,
         expires |-> calls[p].read + TTL] \in Entry
    BY <1>1 DEF Entry
  <2>2. \A u \in DOMAIN tokens' :
          /\ tokens'[u] \in Entry
          /\ \/ u \in DOMAIN tokens /\ tokens'[u] = tokens[u]
             \/ u \notin issued /\ ~tokens'[u].inUse
    BY <1>3, <1>6, <2>1
  <2>3. /\ DOMAIN tokens' \subseteq issued' /\ issued \subseteq issued'
        /\ issued' \subseteq Tokens
    BY <1>3, <1>4, <1>6
  <2>4. Outside(p, Idle)
    BY <1>1, <1>2, <2>2, <2>3, IdleType DEF Outside, Become
  <2>5. QED  BY <2>4, Outsider
<1>7. QED  BY <1>5, <1>6 DEF IssueStore

LEMMA ArriveInv ==
    ASSUME IInv, NEW p \in Calls,
           \/ \E n \in Names : IssueArrive(p, n)
           \/ \E t \in Tokens, u \in Urls : UseArrive(p, t, u)
    PROVE  IInv'
<1>1. /\ DOMAIN tokens \subseteq issued /\ issued \subseteq Tokens
      /\ \A t \in DOMAIN tokens : tokens[t] \in Entry
  BY DEF IInv, TypeOK, StoreOK
<1>2. ASSUME NEW n \in Names, IssueArrive(p, n)
      PROVE  IInv'
  <2>1. PICK call :
          call = [Idle EXCEPT !.pc = "issue", !.read = now, !.name = n]
    OBVIOUS
  <2>2. call \in Call /\ call.pc = "issue" /\ call.name = n
    BY <2>1 DEF Idle, Call, IInv, TypeOK
  <2>3. Outside(p, call)
    BY <1>1, <1>2, <2>1, <2>2 DEF Outside, Become, IssueArrive, Running
  <2>4. QED  BY <2>3, Outsider
<1>3. ASSUME NEW t \in Tokens, NEW u \in Urls, UseArrive(p, t, u)
      PROVE  IInv'
  <2>1. PICK call :
          call = [Idle EXCEPT !.pc = "use", !.read = now, !.token = t, !.url = u]
    OBVIOUS
  <2>2. /\ call \in Call /\ call.pc = "use" /\ call.token = t /\ call.url = u
    BY <2>1 DEF Idle, Call, IInv, TypeOK
  <2>3. Outside(p, call)
    BY <1>1, <1>3, <2>1, <2>2 DEF Outside, Become, UseArrive, Running
  <2>4. QED  BY <2>3, Outsider
<1>4. QED  BY <1>2, <1>3

LEMMA ReserveInv ==
    ASSUME IInv, NEW p \in Calls, UseReserve(p)
    PROVE  IInv'
<1> DEFINE live == Purged(calls[p].read)
<1>0. PICK t \in Tokens : t = calls[p].token /\ t \in issued
  BY DEF UseReserve, IInv, TypeOK, CallsOK
<1>1. /\ calls[p] \in Call /\ calls[p].pc = "use" /\ t = calls[p].token
      /\ UNCHANGED <<now, issued, endpoints, spent>> /\ t \in issued
      /\ calls[p].url \in Urls
  BY <1>0 DEF UseReserve, IInv, TypeOK, CallsOK
<1>2. /\ DOMAIN live \subseteq DOMAIN tokens
      /\ \A u \in DOMAIN live : live[u] = tokens[u] /\ live[u] \in Entry
      /\ live = [u \in DOMAIN live |-> live[u]]
  BY PurgedFacts DEF IInv, TypeOK, Purged
<1>3. /\ DOMAIN tokens \subseteq issued /\ issued \subseteq Tokens
  BY DEF IInv, StoreOK, TypeOK
<1>4. CASE tokens' = live /\ Become(p, Idle)
  <2>1. \A u \in DOMAIN tokens' :
          /\ tokens'[u] \in Entry
          /\ u \in DOMAIN tokens /\ tokens'[u] = tokens[u]
    BY <1>2, <1>4
  <2>2. /\ DOMAIN tokens' \subseteq issued' /\ issued \subseteq issued'
        /\ issued' \subseteq Tokens
    BY <1>1, <1>2, <1>3, <1>4
  <2>3. calls[p].pc \notin Running /\ Idle.pc = "idle" /\ Idle.pc \notin Running
    BY <1>1 DEF Running, Idle
  <2>4. Outside(p, Idle)
    BY <1>1, <1>4, <2>1, <2>2, <2>3, IdleType DEF Outside, Become
  <2>5. QED  BY <2>4, Outsider
<1>5. CASE /\ t \in DOMAIN live /\ ~live[t].inUse
           /\ tokens' = [live EXCEPT ![t].inUse = TRUE]
           /\ Become(p, [calls[p] EXCEPT !.pc = "check", !.name = live[t].name])
  <2>0. PICK call : call = [calls[p] EXCEPT !.pc = "check", !.name = live[t].name]
    OBVIOUS
  <2>1. live[t].name \in Names
    BY <1>2, <1>5 DEF Entry
  <2>2. /\ call \in Call /\ call.pc = "check" /\ call.token = t
        /\ call.name \in Names /\ call.url = calls[p].url
    BY <1>1, <2>0, <2>1 DEF Call, Running
  <2>3. /\ calls' \in [Calls -> Call] /\ calls'[p] = call
        /\ \A q \in Calls : q # p => calls'[q] = calls[q]
    BY <1>5, <2>0, <2>2 DEF Become, IInv, TypeOK
  <2>4. /\ DOMAIN tokens' = DOMAIN live
        /\ \A u \in DOMAIN live : tokens'[u] \in Entry
        /\ tokens'[t].inUse
        /\ \A u \in DOMAIN live : u # t => tokens'[u] = tokens[u]
    BY <1>2, <1>5 DEF Entry
  <2>5. \A q \in Calls : ~UsesToken(q, t)
    BY <1>1, <1>2, <1>5 DEF IInv, StoreOK
  <2>6. \A q \in Calls, u \in Tokens :
            UsesToken(q, u)' <=> UsesToken(q, u) \/ (q = p /\ u = t)
    <3>1. UsesToken(p, t)'
      BY <2>2, <2>3 DEF UsesToken, Running
    <3>2. \A u \in Tokens : u # t => ~UsesToken(p, u)' /\ ~UsesToken(p, u)
      BY <1>1, <2>2, <2>3 DEF UsesToken
    <3>3. \A q \in Calls, u \in Tokens : q # p => UsesToken(q, u)' = UsesToken(q, u)
      BY <2>3 DEF UsesToken
    <3>4. QED  BY <3>1, <3>2, <3>3 DEF UsesToken
  <2>7. TypeOK'
    BY <1>1, <1>2, <2>3, <2>4 DEF IInv, TypeOK
  <2>8. CallsOK'
    BY <1>1, <2>2, <2>3 DEF IInv, CallsOK
  <2>9. OneRunner'
    BY <2>5, <2>6 DEF IInv, OneRunner
  <2>10. StoreOK'
    <3>1. ASSUME NEW u \in DOMAIN tokens'
          PROVE  tokens'[u].inUse <=> \E q \in Calls : UsesToken(q, u)'
      <4>1. u \in Tokens /\ u \in DOMAIN tokens
        BY <1>2, <1>3, <2>4
      <4>2. CASE u = t
        BY <2>4, <2>6, <4>1, <4>2
      <4>3. CASE u # t
        BY <2>4, <2>6, <4>1, <4>3 DEF IInv, StoreOK
      <4>4. QED  BY <4>2, <4>3
    <3>2. QED  BY <1>1, <1>2, <1>3, <2>4, <3>1 DEF StoreOK
  <2>11. SpentOK'
    <3>1. spent[t] = 0
      BY <1>1, <1>2, <1>5 DEF IInv, SpentOK
    <3>2. ASSUME NEW u \in Tokens
          PROVE  /\ spent[u] \in {0, 1}
                 /\ spent[u] = 1 =>
                       /\ u \in issued
                       /\ u \in DOMAIN tokens' => tokens'[u].inUse
                       /\ \A q \in Calls : UsesToken(q, u)' => calls'[q].pc = "ok"
                 /\ spent[u] = 0 =>
                       \A q \in Calls : UsesToken(q, u)' => calls'[q].pc # "ok"
      <4>1. CASE u = t
        BY <2>2, <2>3, <2>5, <2>6, <3>1, <4>1
      <4>2. CASE u # t
        <5>1. \A q \in Calls : UsesToken(q, u)' => UsesToken(q, u) /\ q # p
          BY <1>1, <2>6, <4>2 DEF UsesToken, Running
        <5>2. QED
          BY <1>2, <2>3, <2>4, <4>2, <5>1 DEF IInv, SpentOK
      <4>3. QED  BY <4>1, <4>2
    <3>3. QED  BY <1>1, <3>2 DEF SpentOK
  <2>12. QED  BY <2>7, <2>8, <2>9, <2>10, <2>11 DEF IInv
<1>6. QED  BY <1>0, <1>4, <1>5 DEF UseReserve

\* The callback's two steps: only a successful insert spends the token.
LEMMA CallbackInv ==
    ASSUME IInv, NEW p \in Calls, CreateCheck(p) \/ CreateInsert(p)
    PROVE  IInv'
<1>0. PICK t \in Tokens : t = calls[p].token /\ UsesToken(p, t) /\ t \in issued
  BY DEF CreateCheck, CreateInsert, IInv, TypeOK, CallsOK, UsesToken, Running
<1>1. PICK pc \in {"insert", "ok", "fail"} :
         /\ Step(p, pc)
         /\ \/ UNCHANGED <<endpoints, spent>> /\ pc # "ok"
            \/ /\ endpoints' = endpoints \cup
                     {[name |-> calls[p].name, url |-> calls[p].url]}
               /\ spent' = [spent EXCEPT ![t] = @ + 1] /\ pc = "ok"
  BY <1>0 DEF CreateCheck, CreateInsert
<1>2. /\ calls' = [calls EXCEPT ![p].pc = pc] /\ calls[p] \in Call
      /\ UNCHANGED <<now, tokens, issued>> /\ calls[p].pc \in {"check", "insert"}
  BY <1>1 DEF CreateCheck, CreateInsert, Step, IInv, TypeOK
<1>3. /\ calls' \in [Calls -> Call] /\ calls'[p].pc = pc
      /\ \A q \in Calls : /\ calls'[q].token = calls[q].token
                          /\ calls'[q].name = calls[q].name
                          /\ calls'[q].url = calls[q].url
      /\ \A q \in Calls : q # p => calls'[q] = calls[q]
  BY <1>1, <1>2 DEF Call, Running, IInv, TypeOK
<1>4. \A q \in Calls, u \in Tokens : UsesToken(q, u)' <=> UsesToken(q, u)
  <2>1. \A q \in Calls, u \in Tokens : q # p => (UsesToken(q, u)' <=> UsesToken(q, u))
    BY <1>3 DEF UsesToken
  <2>2. \A u \in Tokens : UsesToken(p, u)' <=> UsesToken(p, u)
    BY <1>1, <1>2, <1>3 DEF UsesToken, Running
  <2>3. QED  BY <2>1, <2>2
<1>5. CallsOK'
  BY <1>1, <1>2, <1>3 DEF IInv, CallsOK, Running
<1>6. OneRunner'
  BY <1>4 DEF IInv, OneRunner
<1>7. StoreOK'
  <2>1. /\ tokens' = tokens /\ issued' = issued /\ StoreOK /\ DOMAIN tokens \subseteq Tokens
    BY <1>2 DEF IInv, TypeOK
  <2>2. ASSUME NEW u \in DOMAIN tokens
        PROVE  tokens[u].inUse <=> \E q \in Calls : UsesToken(q, u)'
    BY <1>4, <2>1, <2>2 DEF StoreOK
  <2>3. QED  BY <2>1, <2>2 DEF StoreOK
<1>8. \A q \in Calls : UsesToken(q, t) => q = p
  BY <1>0 DEF IInv, OneRunner
<1>9. calls[p].pc # "ok" /\ spent[t] = 0
  BY <1>0, <1>2 DEF IInv, SpentOK
<1>10. CASE UNCHANGED <<endpoints, spent>> /\ pc # "ok"
  <2>1. TypeOK'
    BY <1>2, <1>3, <1>10 DEF IInv, TypeOK
  <2>2. ASSUME NEW u \in Tokens
        PROVE  /\ spent[u] \in {0, 1}
               /\ spent[u] = 1 =>
                     /\ u \in issued
                     /\ u \in DOMAIN tokens => tokens[u].inUse
                     /\ \A q \in Calls : UsesToken(q, u)' => calls'[q].pc = "ok"
               /\ spent[u] = 0 =>
                     \A q \in Calls : UsesToken(q, u)' => calls'[q].pc # "ok"
    <3>1. CASE u = t
      BY <1>3, <1>4, <1>8, <1>9, <1>10, <3>1
    <3>2. CASE u # t
      <4>1. \A q \in Calls : UsesToken(q, u)' => UsesToken(q, u) /\ calls'[q] = calls[q]
        BY <1>0, <1>3, <1>4, <3>2 DEF UsesToken
      <4>2. QED  BY <4>1 DEF IInv, SpentOK
    <3>3. QED  BY <3>1, <3>2
  <2>3. SpentOK'
    BY <1>2, <1>10, <2>2 DEF SpentOK
  <2>4. QED  BY <1>5, <1>6, <1>7, <2>1, <2>3 DEF IInv
<1>11. CASE /\ endpoints' = endpoints \cup
                  {[name |-> calls[p].name, url |-> calls[p].url]}
            /\ spent' = [spent EXCEPT ![t] = @ + 1] /\ pc = "ok"
  <2>1. calls[p].name \in Names /\ calls[p].url \in Urls
    BY <1>2 DEF IInv, CallsOK, Running
  <2>2. /\ spent' \in [Tokens -> Nat] /\ spent'[t] = 1
        /\ \A u \in Tokens : u # t => spent'[u] = spent[u]
    BY <1>9, <1>11 DEF IInv, TypeOK
  <2>3. TypeOK'
    BY <1>2, <1>3, <1>11, <2>1, <2>2 DEF IInv, TypeOK, Row
  <2>4. t \in DOMAIN tokens => tokens[t].inUse
    BY <1>0 DEF IInv, StoreOK
  <2>5. ASSUME NEW u \in Tokens
        PROVE  /\ spent'[u] \in {0, 1}
               /\ spent'[u] = 1 =>
                     /\ u \in issued
                     /\ u \in DOMAIN tokens => tokens[u].inUse
                     /\ \A q \in Calls : UsesToken(q, u)' => calls'[q].pc = "ok"
               /\ spent'[u] = 0 =>
                     \A q \in Calls : UsesToken(q, u)' => calls'[q].pc # "ok"
    <3>1. CASE u = t
      BY <1>0, <1>3, <1>4, <1>8, <1>11, <2>2, <2>4, <3>1
    <3>2. CASE u # t
      <4>1. \A q \in Calls : UsesToken(q, u)' => UsesToken(q, u) /\ calls'[q] = calls[q]
        BY <1>0, <1>3, <1>4, <3>2 DEF UsesToken
      <4>2. QED  BY <2>2, <3>2, <4>1 DEF IInv, SpentOK
    <3>3. QED  BY <3>1, <3>2
  <2>6. SpentOK'
    BY <1>2, <2>5 DEF SpentOK
  <2>7. QED  BY <1>5, <1>6, <1>7, <2>3, <2>6 DEF IInv
<1>12. QED  BY <1>1, <1>10, <1>11

\* Settling: the call leaves its callback and its reservation goes with it.
LEMMA FinishInv ==
    ASSUME IInv, NEW p \in Calls, UseFinish(p)
    PROVE  IInv'
<1>0. PICK t \in Tokens : t = calls[p].token /\ UsesToken(p, t) /\ t \in issued
  BY DEF UseFinish, IInv, TypeOK, CallsOK, UsesToken, Running
<1>1. /\ UNCHANGED <<now, issued, endpoints, spent>>
      /\ calls' = [calls EXCEPT ![p] = Idle] /\ calls[p].pc \in {"ok", "fail"}
      /\ tokens' = IF t \notin DOMAIN tokens THEN tokens
                   ELSE IF calls[p].pc = "ok" \/ now >= tokens[t].expires
                   THEN Without(t) ELSE [tokens EXCEPT ![t].inUse = FALSE]
  BY <1>0 DEF UseFinish, Become
<1>2. /\ calls' \in [Calls -> Call] /\ calls'[p].pc = "idle"
      /\ \A q \in Calls : q # p => calls'[q] = calls[q]
  BY <1>1, IdleType DEF Idle, IInv, TypeOK
<1>3. \A q \in Calls, u \in Tokens : UsesToken(q, u)' <=> UsesToken(q, u) /\ q # p
  BY <1>2 DEF UsesToken, Running
<1>4. \A q \in Calls : UsesToken(q, t) => q = p
  BY <1>0 DEF IInv, OneRunner
<1>5. /\ DOMAIN tokens' \subseteq DOMAIN tokens
      /\ \A u \in DOMAIN tokens' : u # t => tokens'[u] = tokens[u]
      /\ t \in DOMAIN tokens' =>
            /\ tokens'[t] \in Entry /\ ~tokens'[t].inUse
            /\ calls[p].pc = "fail"
  <2>1. CASE t \notin DOMAIN tokens
    BY <1>1, <2>1
  <2>2. CASE t \in DOMAIN tokens /\ (calls[p].pc = "ok" \/ now >= tokens[t].expires)
    <3>1. tokens' = [u \in DOMAIN tokens \ {t} |-> tokens[u]]
      BY <1>1, <2>2 DEF Without
    <3>2. QED  BY <3>1
  <2>3. CASE t \in DOMAIN tokens /\ ~(calls[p].pc = "ok" \/ now >= tokens[t].expires)
    <3>1. tokens' = [tokens EXCEPT ![t].inUse = FALSE] /\ calls[p].pc = "fail"
      BY <1>1, <2>3
    <3>2. /\ DOMAIN tokens' = DOMAIN tokens /\ tokens'[t] = [tokens[t] EXCEPT !.inUse = FALSE]
          /\ \A u \in DOMAIN tokens : u # t => tokens'[u] = tokens[u]
      BY <2>3, <3>1
    <3>3. tokens[t] \in Entry
      BY <2>3 DEF IInv, TypeOK
    <3>4. tokens'[t] \in Entry /\ ~tokens'[t].inUse
      BY <3>2, <3>3 DEF Entry
    <3>5. QED  BY <3>1, <3>2, <3>4
  <2>4. QED  BY <2>1, <2>2, <2>3
<1>6. TypeOK'
  <2>1. \A u \in DOMAIN tokens' : tokens'[u] \in Entry
    BY <1>5 DEF IInv, TypeOK
  <2>2. DOMAIN tokens' \subseteq Tokens
    BY <1>5 DEF IInv, TypeOK
  <2>3. QED  BY <1>1, <1>2, <2>1, <2>2 DEF IInv, TypeOK
<1>7. CallsOK'
  BY <1>1, <1>2 DEF IInv, CallsOK, Running
<1>8. OneRunner'
  BY <1>3 DEF IInv, OneRunner
<1>9. StoreOK'
  <2>1. ASSUME NEW u \in DOMAIN tokens'
        PROVE  tokens'[u].inUse <=> \E q \in Calls : UsesToken(q, u)'
    <3>1. u \in Tokens /\ u \in DOMAIN tokens
      BY <1>5, <2>1 DEF IInv, TypeOK
    <3>2. CASE u = t
      BY <1>3, <1>4, <1>5, <2>1, <3>2
    <3>3. CASE u # t
      <4>1. ~UsesToken(p, u)
        BY <1>0, <3>3 DEF UsesToken
      <4>2. tokens[u].inUse <=> \E q \in Calls : UsesToken(q, u)
        BY <3>1 DEF IInv, StoreOK
      <4>3. QED  BY <1>3, <1>5, <2>1, <3>1, <3>3, <4>1, <4>2
    <3>4. QED  BY <3>2, <3>3
  <2>2. DOMAIN tokens' \subseteq issued'
    BY <1>1, <1>5 DEF IInv, StoreOK
  <2>3. QED  BY <2>1, <2>2 DEF StoreOK
<1>10. SpentOK'
  <2>1. spent[t] = 1 => calls[p].pc = "ok"
    BY <1>0 DEF IInv, SpentOK
  <2>2. ASSUME NEW u \in Tokens
        PROVE  /\ spent[u] \in {0, 1}
               /\ spent[u] = 1 =>
                     /\ u \in issued
                     /\ u \in DOMAIN tokens' => tokens'[u].inUse
                     /\ \A q \in Calls : UsesToken(q, u)' => calls'[q].pc = "ok"
               /\ spent[u] = 0 =>
                     \A q \in Calls : UsesToken(q, u)' => calls'[q].pc # "ok"
    <3>1. \A q \in Calls : UsesToken(q, u)' => UsesToken(q, u) /\ calls'[q] = calls[q]
      BY <1>2, <1>3
    <3>2. spent[u] = 1 /\ u \in DOMAIN tokens' => tokens'[u].inUse
      <4>1. CASE u = t
        BY <1>5, <2>1, <4>1
      <4>2. CASE u # t
        BY <1>5, <4>2 DEF IInv, SpentOK
      <4>3. QED  BY <4>1, <4>2
    <3>3. QED  BY <3>1, <3>2 DEF IInv, SpentOK
  <2>3. QED  BY <1>1, <2>2 DEF SpentOK
<1>11. QED  BY <1>6, <1>7, <1>8, <1>9, <1>10 DEF IInv

LEMMA WorldInv ==
    ASSUME IInv, UserChanges \/ Tick \/ Restart \/ UNCHANGED vars
    PROVE  IInv'
<1>1. CASE UserChanges
  <2>1. UNCHANGED <<now, tokens, issued, calls, spent>> /\ endpoints' \subseteq Row
    BY <1>1 DEF UserChanges, IInv, TypeOK
  <2>2. QED  BY <2>1 DEF IInv, TypeOK, CallsOK, OneRunner, StoreOK, SpentOK, UsesToken
<1>2. CASE Tick
  <2>1. UNCHANGED <<tokens, issued, endpoints, calls, spent>> /\ now' \in Nat
    BY <1>2 DEF Tick, IInv, TypeOK
  <2>2. QED  BY <2>1 DEF IInv, TypeOK, CallsOK, OneRunner, StoreOK, SpentOK, UsesToken
<1>3. CASE Restart
  <2>1. /\ DOMAIN tokens' = {} /\ UNCHANGED <<now, issued, endpoints, spent>>
        /\ calls' \in [Calls -> Call] /\ \A q \in Calls : calls'[q].pc = "idle"
    BY <1>3, IdleType DEF Restart, Idle
  <2>2. TypeOK' /\ CallsOK'
    BY <2>1 DEF IInv, TypeOK, CallsOK, Running
  <2>3. \A q \in Calls, u \in Tokens : ~UsesToken(q, u)'
    BY <2>1 DEF UsesToken, Running
  <2>4. OneRunner' /\ StoreOK'
    BY <2>1, <2>3 DEF OneRunner, StoreOK
  <2>5. SpentOK'
    BY <2>1, <2>3 DEF IInv, SpentOK
  <2>6. QED  BY <2>2, <2>4, <2>5 DEF IInv
<1>4. CASE UNCHANGED vars
  BY <1>4 DEF vars, IInv, TypeOK, CallsOK, OneRunner, StoreOK, SpentOK, UsesToken
<1>5. QED  BY <1>1, <1>2, <1>3, <1>4

LEMMA NextIInv == IInv /\ [Next]_vars => IInv'
<1> SUFFICES ASSUME IInv, [Next]_vars PROVE IInv'
  OBVIOUS
<1>1. ASSUME NEW p \in Calls, CallStep(p) PROVE IInv'
  BY <1>1, IssueInv, ReserveInv, CallbackInv, FinishInv DEF CallStep
<1>2. ASSUME NEW p \in Calls,
             \/ \E n \in Names : IssueArrive(p, n)
             \/ \E t \in Tokens, u \in Urls : UseArrive(p, t, u)
      PROVE  IInv'
  BY <1>2, ArriveInv
<1>3. CASE UserChanges \/ Tick \/ Restart \/ UNCHANGED vars
  BY <1>3, WorldInv
<1>4. QED  BY <1>1, <1>2, <1>3 DEF Next

LEMMA AlwaysIInv == Spec => []IInv
<1>1. QED  BY InitIInv, NextIInv, PTL DEF Spec

-----------------------------------------------------------------------------
\* Type correctness of the token store and of the requests that use it.
THEOREM TypeCorrect == Spec => []TypeOK
<1>1. IInv => TypeOK
  BY DEF IInv
<1>2. QED  BY <1>1, AlwaysIInv, PTL

\* However calls, retries, expiry, purges and restarts interleave, a token
\* registers one endpoint at most (Use's reservation and consumption).
THEOREM OneEndpointPerToken == Spec => []SpentOnce
<1>1. IInv => SpentOnce
  BY DEF IInv, SpentOK, SpentOnce
<1>2. QED  BY <1>1, AlwaysIInv, PTL

\* A token in use has one running call, a token not in use has none.
THEOREM OneCallPerReservation == Spec => []ReservationHeld
<1>1. IInv => ReservationHeld
  <2> SUFFICES ASSUME IInv, NEW t \in DOMAIN tokens
      PROVE  IF tokens[t].inUse
             THEN \E p \in Calls : /\ UsesToken(p, t)
                                   /\ \A q \in Calls : UsesToken(q, t) => q = p
             ELSE \A p \in Calls : ~UsesToken(p, t)
    BY DEF ReservationHeld
  <2>1. t \in Tokens
    BY DEF IInv, TypeOK
  <2>2. tokens[t].inUse <=> \E p \in Calls : UsesToken(p, t)
    BY DEF IInv, StoreOK
  <2>3. \A p, q \in Calls : UsesToken(p, t) /\ UsesToken(q, t) => p = q
    BY <2>1 DEF IInv, OneRunner
  <2>4. QED  BY <2>2, <2>3
<1>2. QED  BY <1>1, AlwaysIInv, PTL

-----------------------------------------------------------------------------
\* A step that leaves the store no larger keeps the cap.
LEMMA CapShrinks ==
    ASSUME CapOK, DOMAIN tokens' \subseteq DOMAIN tokens,
           IsFiniteSet(DOMAIN tokens)
    PROVE  CapOK'
<1>1. /\ IsFiniteSet(DOMAIN tokens')
      /\ Cardinality(DOMAIN tokens') <= Cardinality(DOMAIN tokens)
  BY FS_Subset
<1>2. Cardinality(DOMAIN tokens') \in Nat /\ Cardinality(DOMAIN tokens) \in Nat
  BY <1>1, FS_CardinalityType
<1>3. QED  BY <1>1, <1>2, TokenAssumption DEF CapOK, WithinCap

LEMMA IssueCap ==
    ASSUME CapOK, NEW p \in Calls, IssueStore(p)
    PROVE  CapOK'
<1> DEFINE live == Purged(calls[p].read)
<1>1. DOMAIN live \subseteq DOMAIN tokens
  BY PurgedFacts
<1>2. IsFiniteSet(DOMAIN live)
  BY <1>1, FS_Subset DEF CapOK
<1>3. CASE tokens' = live
  BY <1>1, <1>3, CapShrinks DEF CapOK
<1>4. ASSUME NEW t \in Tokens, Cardinality(DOMAIN live) < MaxTokens,
             DOMAIN tokens' = DOMAIN live \cup {t}
      PROVE  CapOK'
  <2> HIDE DEF live
  <2>0. PICK S : S = DOMAIN live
    OBVIOUS
  <2>1. /\ IsFiniteSet(S \cup {t}) /\ Cardinality(S) \in Nat
        /\ Cardinality(S \cup {t}) <= Cardinality(S) + 1
        /\ Cardinality(S \cup {t}) \in Nat
    <3>1. IsFiniteSet(S)
      BY <1>2, <2>0
    <3>2. /\ IsFiniteSet(S \cup {t})
          /\ Cardinality(S \cup {t}) = IF t \in S THEN Cardinality(S)
                                       ELSE Cardinality(S) + 1
      BY <3>1, FS_AddElement
    <3>3. Cardinality(S) \in Nat
      BY <3>1, FS_CardinalityType
    <3>4. QED  BY <3>2, <3>3
  <2>2. QED  BY <1>4, <2>0, <2>1, TokenAssumption DEF CapOK, WithinCap
<1>5. QED  BY <1>3, <1>4 DEF IssueStore

LEMMA NextCap == CapOK /\ [Next]_vars => CapOK'
<1> SUFFICES ASSUME CapOK, [Next]_vars PROVE CapOK'
  OBVIOUS
<1>1. ASSUME NEW p \in Calls, UseReserve(p) PROVE CapOK'
  <2> DEFINE live == Purged(calls[p].read)
             t == calls[p].token
  <2>0. \/ tokens' = live
        \/ tokens' = [live EXCEPT ![t].inUse = TRUE]
    BY <1>1 DEF UseReserve
  <2> HIDE DEF live, t
  <2>1. DOMAIN tokens' = DOMAIN live
    BY <2>0
  <2>2. QED  BY <2>1, PurgedFacts, CapShrinks DEF CapOK, live
<1>2. ASSUME NEW p \in Calls, UseFinish(p) PROVE CapOK'
  <2>1. DOMAIN tokens' \subseteq DOMAIN tokens
    BY <1>2 DEF UseFinish, Without
  <2>2. QED  BY <2>1, CapShrinks DEF CapOK
<1>3. CASE Restart
  <2>1. DOMAIN tokens' = {}
    BY <1>3 DEF Restart
  <2>2. QED  BY <2>1, CapShrinks DEF CapOK
<1>4. CASE UNCHANGED tokens
  BY <1>4 DEF CapOK, WithinCap
<1>5. ASSUME NEW p \in Calls, CallStep(p) PROVE CapOK'
  BY <1>1, <1>2, <1>4, <1>5, IssueCap DEF CallStep, CreateCheck, CreateInsert
<1>6. QED
  BY <1>3, <1>4, <1>5 DEF Next, IssueArrive, UseArrive, UserChanges, Tick, vars

\* Issue never lets the store outgrow maxRegistrationTokens, whatever is
\* purged, consumed and issued at the same time.
THEOREM CapRespected == Spec => []WithinCap
<1>1. Init => CapOK
  BY FS_EmptySet, TokenAssumption DEF Init, CapOK, WithinCap
<1>2. CapOK => WithinCap
  BY DEF CapOK
<1>3. QED  BY <1>1, <1>2, NextCap, PTL DEF Spec
=============================================================================
