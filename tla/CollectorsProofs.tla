--------------------------- MODULE CollectorsProofs ----------------------------
(***************************************************************************)
(* Proofs about Collectors, for any number of requests, any life of a      *)
(* token of at least two skews and any number of faults: its types, that   *)
(* the skew covers a request, and what a SourceAuthError means.            *)
(***************************************************************************)
EXTENDS Collectors, TLAPS

-----------------------------------------------------------------------------
(* What has been taken for a request: a token with more than the skew left *)
(* when it is sent, after a 401 one that was just asked for; at most one   *)
(* tick later eBay looks at it.                                            *)
Taken ==
    /\ pc = "sent" => mem # NoToken /\ mem.left >= 2
    /\ pc = "late" => mem # NoToken /\ mem.left >= 1
    /\ retried /\ pc = "sent" => mem.left = Life
    /\ retried /\ pc = "late" => mem.left >= Life - 1
    /\ pc = "idle" => ~retried

CollectInv == TypeOK /\ Taken

LEMMA NewTokenFacts ==
    /\ NewToken \in Token /\ NewToken # NoToken
    /\ NewToken.left = Life /\ NewToken.good /\ Life >= 2
<1>1. Life \in Nat /\ Life >= 2
    BY CollectAssumption
<1>2. Life \in 0..Life
    BY <1>1
<1>3. NewToken \in Token
    BY <1>2, Zenon DEF Token, NewToken
<1>4. NewToken.left = Life /\ NewToken.good
    BY DEF NewToken
<1> QED BY <1>1, <1>3, <1>4, TokenAssumption

(* A tick takes one skew from a token that has any left.                   *)
LEMMA AgedFacts ==
    ASSUME NEW token \in Token \cup {NoToken}
    PROVE  /\ Aged(token) \in Token \cup {NoToken}
           /\ token # NoToken =>
                  Aged(token) # NoToken /\ Aged(token).left >= token.left - 1
<1>1. CASE token = NoToken \/ token.left = 0
    BY <1>1, CollectAssumption DEF Aged, Token
<1>2. CASE token # NoToken /\ token.left # 0
    <2>1. /\ token \in Token /\ token.left \in 1..Life
          /\ Aged(token) = [token EXCEPT !.left = @ - 1]
        BY <1>2, CollectAssumption DEF Aged, Token
    <2>2. Aged(token) \in Token /\ Aged(token).left = token.left - 1
        BY <2>1, CollectAssumption DEF Token
    <2> QED BY <2>1, <2>2, CollectAssumption, TokenAssumption
<1> QED BY <1>1, <1>2

LEMMA RevokedFacts ==
    ASSUME NEW token \in Token \cup {NoToken}
    PROVE  /\ Revoked(token) \in Token \cup {NoToken}
           /\ token # NoToken =>
                  Revoked(token) # NoToken /\ Revoked(token).left = token.left
<1>1. CASE token = NoToken BY <1>1 DEF Revoked
<1>2. CASE token # NoToken
    <2>1. token \in Token /\ Revoked(token) = [token EXCEPT !.good = FALSE]
        BY <1>2 DEF Revoked
    <2>2. Revoked(token) \in Token /\ Revoked(token).left = token.left
        BY <2>1 DEF Token
    <2> QED BY <2>1, <2>2, TokenAssumption
<1> QED BY <1>1, <1>2

(* The end of a call, and the end of the process.                          *)
LEMMA ReturnsKeeps ==
    ASSUME TypeOK, NEW end \in End \cup {NoEnd}, Returns(end)
    PROVE  /\ pc' = "idle" /\ job' = "fetch" /\ page' \in 1..Pages /\ retried' = FALSE
           /\ last' \in End \cup {NoEnd}
           /\ Taken'
BY CollectAssumption DEF Returns, Taken

LEMMA EndFacts ==
    ASSUME NEW source \in Sources, NEW how \in {"ok"} \cup SourceErrors
    PROVE  [source |-> source, how |-> how] \in End
BY DEF End

LEMMA RaiseKeeps ==
    ASSUME CollectInv, NEW how \in SourceErrors, Raise(how)
    PROVE  CollectInv'
<1>1. CASE job = "fetch" /\ Returns([source |-> "ebay", how |-> how]) /\ UNCHANGED tokens
    <2>1. [source |-> "ebay", how |-> how] \in End \cup {NoEnd}
        BY EndFacts DEF Sources
    <2> QED BY <1>1, <2>1, ReturnsKeeps DEF CollectInv, TypeOK, Raise, tokens
<1>2. CASE job = "hint" /\ UNCHANGED file /\ Restarts
    BY <1>2, ReturnsKeeps DEF CollectInv, TypeOK, Raise, Restarts
<1> QED BY <1>1, <1>2 DEF Raise

(* A request is sent with a fresh token, or waits for a new one.           *)
LEMMA BearerStepFacts ==
    ASSUME CollectInv
    PROVE  \/ BearerStep = "mint"
           \/ BearerStep = "sent" /\ mem # NoToken /\ mem.left >= 2
BY CollectAssumption DEF CollectInv, TypeOK, BearerStep, Fresh, Token

-----------------------------------------------------------------------------
LEMMA InitInv == Init => CollectInv
<1> SUFFICES ASSUME Init PROVE CollectInv
    OBVIOUS
<1>1. 1 \in 1..Pages /\ 0 \in 0..MaxFaults
    BY CollectAssumption
<1>2. TypeOK
    BY <1>1, Zenon DEF Init, TypeOK
<1>3. Taken
    BY DEF Init, Taken
<1> QED BY <1>2, <1>3 DEF CollectInv

LEMMA StepInv == CollectInv /\ [Next]_collectVars => CollectInv'
<1> SUFFICES ASSUME CollectInv, [Next]_collectVars PROVE CollectInv'
    OBVIOUS
<1> USE DEF CollectInv
<1>1. CASE FetchRecent \/ QuantityHint
    BY <1>1, BearerStepFacts DEF FetchRecent, QuantityHint, Starts, tokens, TypeOK, Taken
<1>2. CASE RedditFetch
    BY <1>2 DEF RedditFetch, Starts, tokens, TypeOK, Taken
<1>3. CASE LeboncoinFetch
    <2>1. last' \in End
        <3>1. PICK status \in {"none", "200", "403", "503"}, challenged \in BOOLEAN, form \in {"ads", "other"} :
                  last' = [source |-> "leboncoin", how |-> Scraped(status, challenged, form)]
            BY <1>3 DEF LeboncoinFetch
        <3>2. Scraped(status, challenged, form) \in {"ok"} \cup SourceErrors
            BY DEF Scraped, SourceErrors
        <3> QED BY <3>1, <3>2, EndFacts DEF Sources
    <2> QED BY <1>3, <2>1 DEF LeboncoinFetch, tokens, call, TypeOK, Taken
<1>4. CASE MintToken
    BY <1>4, NewTokenFacts DEF MintToken, call, TypeOK, Taken
<1>5. CASE MintRefused \/ MintDown \/ Fails
    <2>1. PICK how \in SourceErrors : Raise(how)
        BY <1>5 DEF MintRefused, MintDown, Fails, SourceErrors
    <2> QED BY <2>1, RaiseKeeps
<1>6. CASE Items
    <2>1. CASE page < Pages /\ page' = page + 1 /\ retried' = FALSE /\ pc' = BearerStep
               /\ UNCHANGED << job, last >>
        <3>1. page' \in 1..Pages
            BY <2>1, CollectAssumption DEF TypeOK
        <3> QED BY <1>6, <2>1, <3>1, BearerStepFacts DEF Items, tokens, TypeOK, Taken
    <2>2. CASE page = Pages /\ Returns([source |-> "ebay", how |-> "ok"])
        <3>1. [source |-> "ebay", how |-> "ok"] \in End \cup {NoEnd}
            BY EndFacts DEF Sources
        <3> QED BY <1>6, <2>2, <3>1, ReturnsKeeps DEF Items, tokens, TypeOK
    <2> QED BY <1>6, <2>1, <2>2 DEF Items
<1>7. CASE Unauthorized
    <2>1. CASE ~retried /\ retried' = TRUE /\ pc' = "mint"
               /\ UNCHANGED << tokens, job, page, last, creds, faults >>
        BY <2>1 DEF tokens, TypeOK, Taken
    <2>2. CASE Raise("auth")
        BY <2>2, RaiseKeeps DEF SourceErrors
    <2> QED BY <1>7, <2>1, <2>2 DEF Unauthorized
<1>8. CASE Hinted
    BY <1>8, ReturnsKeeps DEF Hinted, tokens, TypeOK
<1>9. CASE RedditToken
    BY <1>9, NewTokenFacts DEF RedditToken, call, TypeOK, Taken
<1>10. CASE RedditChildren
    <2>1. CASE page < Pages /\ page' = page + 1 /\ UNCHANGED << pc, job, retried, last >>
        <3>1. page' \in 1..Pages
            BY <2>1, CollectAssumption DEF TypeOK
        <3> QED BY <1>10, <2>1, <3>1 DEF RedditChildren, tokens, TypeOK, Taken
    <2>2. CASE page = Pages /\ Returns([source |-> "reddit", how |-> "ok"])
        <3>1. [source |-> "reddit", how |-> "ok"] \in End \cup {NoEnd}
            BY EndFacts DEF Sources
        <3> QED BY <1>10, <2>2, <3>1, ReturnsKeeps DEF RedditChildren, tokens, TypeOK
    <2> QED BY <1>10, <2>1, <2>2 DEF RedditChildren
<1>11. CASE RedditFails
    <2>1. PICK how \in SourceErrors : Returns([source |-> "reddit", how |-> how])
        BY <1>11 DEF RedditFails
    <2>2. [source |-> "reddit", how |-> how] \in End \cup {NoEnd}
        BY EndFacts DEF Sources
    <2> QED BY <1>11, <2>1, <2>2, ReturnsKeeps DEF RedditFails, tokens, TypeOK
<1>12. CASE Die
    <2>1. file' \in Token \cup {NoToken} /\ faults' \in 0..MaxFaults
        BY <1>12, CollectAssumption DEF Die, Fault, TypeOK
    <2> QED BY <1>12, <2>1, ReturnsKeeps DEF Die, Restarts, TypeOK
<1>13. CASE AnotherStores
    BY <1>13, NewTokenFacts DEF AnotherStores, call, TypeOK, Taken
<1>14. CASE Tick
    <2>1. /\ mem' \in Token \cup {NoToken} /\ file' \in Token \cup {NoToken}
          /\ bearer' \in Token \cup {NoToken}
        BY <1>14, AgedFacts DEF Tick, TypeOK
    <2>2. mem # NoToken => mem' # NoToken /\ mem'.left >= mem.left - 1
        BY <1>14, AgedFacts DEF Tick, TypeOK
    <2>3. /\ mem # NoToken => mem.left \in Nat
          /\ mem' # NoToken => mem'.left \in Nat
        BY <2>1 DEF TypeOK, Token
    <2>4. pc' = IF pc = "sent" THEN "late" ELSE pc
        BY <1>14 DEF Tick
    <2>5. pc # "late" /\ retried' = retried
        BY <1>14 DEF Tick, call
    <2>6. Taken'
        BY <2>2, <2>3, <2>4, <2>5, CollectAssumption DEF Taken
    <2> QED BY <1>14, <2>1, <2>4, <2>6 DEF Tick, call, TypeOK
<1>15. CASE Revoke
    <2>1. /\ mem' \in Token \cup {NoToken} /\ file' \in Token \cup {NoToken}
          /\ bearer' \in Token \cup {NoToken}
        BY <1>15, RevokedFacts DEF Revoke, TypeOK
    <2>2. mem # NoToken => mem' # NoToken /\ mem'.left = mem.left
        BY <1>15, RevokedFacts DEF Revoke, TypeOK
    <2>3. faults' \in 0..MaxFaults
        BY <1>15, CollectAssumption DEF Revoke, Fault, TypeOK
    <2> QED BY <1>15, <2>1, <2>2, <2>3 DEF Revoke, call, TypeOK, Taken
<1>16. CASE Withdraw \/ Restore
    <2>1. faults' \in 0..MaxFaults
        BY <1>16, CollectAssumption DEF Withdraw, Restore, Fault, TypeOK
    <2>2. creds' \in BOOLEAN
        BY <1>16 DEF Withdraw, Restore
    <2>3. UNCHANGED << mem, file, bearer, pc, job, page, retried, last >>
        BY <1>16 DEF Withdraw, Restore, tokens, call
    <2> QED BY <2>1, <2>2, <2>3 DEF TypeOK, Taken
<1>17. CASE UNCHANGED collectVars
    BY <1>17 DEF collectVars, tokens, call, TypeOK, Taken
<1> QED
    BY <1>1, <1>2, <1>3, <1>4, <1>5, <1>6, <1>7, <1>8, <1>9, <1>10, <1>11, <1>12, <1>13,
       <1>14, <1>15, <1>16, <1>17
    DEF Next, Answered, Environment

(* The inductive invariant: the types, and what is taken for a request.    *)
THEOREM CollectInvHolds == Spec => []CollectInv
BY InitInv, StepInv, PTL DEF Spec

-----------------------------------------------------------------------------
(* Tokens, places and counters stay what the code puts there.              *)
THEOREM CollectTypeOK == Spec => []TypeOK
<1>1. CollectInv => TypeOK BY DEF CollectInv
<1> QED BY <1>1, CollectInvHolds, PTL

(* No request reaches eBay with an expired token (_TOKEN_REFRESH_SKEW_S).  *)
THEOREM CollectSkew == Spec => []SkewCoversRequest
<1>1. CollectInv => SkewCoversRequest
    BY DEF CollectInv, TypeOK, Token, Taken, SkewCoversRequest, Waits
<1> QED BY <1>1, CollectInvHolds, PTL

(* A SourceAuthError of eBay is one of the credentials or of a token       *)
(* revoked since the retry asked for it (_get, _mint_token).               *)
THEOREM CollectAuthError == Spec => AuthErrorIsReal
<1> DEFINE Refused == [source |-> "ebay", how |-> "auth"]
           Real == ~creds \/ (Waits /\ mem.left >= Life - 1 /\ ~mem.good)
<1>1. ASSUME CollectInv, [Next]_collectVars, last' = Refused, last' # last
      PROVE  Real
    <2>1. NoEnd # Refused
        BY DEF NoEnd
    <2>2. CASE MintRefused
        BY <2>2 DEF MintRefused
    <2>3. CASE Unauthorized
        <3>1. Waits /\ ~Accepted(mem) /\ retried
            BY <1>1, <2>3 DEF Unauthorized
        <3>2. mem # NoToken /\ mem.left > 0 /\ mem.left >= Life - 1
            BY <1>1, <3>1, CollectAssumption DEF CollectInv, TypeOK, Token, Taken, Waits
        <3> QED BY <3>1, <3>2 DEF Accepted
    <2>4. CASE MintDown \/ Fails
        <3>1. PICK how \in SourceErrors \ {"auth"} : Raise(how)
            BY <2>4 DEF MintDown, Fails, SourceErrors
        <3>2. last' = [source |-> "ebay", how |-> how] \/ last' = NoEnd
            BY <3>1 DEF Raise, Restarts, Returns
        <3>3. last' # Refused
            BY <2>1, <3>1, <3>2
        <3> QED BY <1>1, <3>3
    <2>5. CASE Items \/ RedditChildren \/ RedditFails \/ LeboncoinFetch
        <3>1. \/ last' = last
              \/ last'.how = "ok"
              \/ last'.source \in {"reddit", "leboncoin"}
            BY <2>5 DEF Items, RedditChildren, RedditFails, LeboncoinFetch, Returns
        <3> QED BY <1>1, <3>1
    <2>6. CASE FetchRecent \/ QuantityHint \/ RedditFetch \/ Hinted \/ Die
        BY <1>1, <2>1, <2>6
        DEF FetchRecent, QuantityHint, RedditFetch, Starts, Hinted, Die, Restarts, Returns
    <2>7. CASE MintToken \/ RedditToken
        BY <1>1, <2>7 DEF MintToken, RedditToken
    <2>8. CASE AnotherStores \/ Tick \/ Revoke \/ Withdraw \/ Restore \/ UNCHANGED collectVars
        BY <1>1, <2>8 DEF AnotherStores, Tick, Revoke, Withdraw, Restore, collectVars
    <2> QED
        BY <1>1, <2>2, <2>3, <2>4, <2>5, <2>6, <2>7, <2>8 DEF Next, Answered, Environment
<1>2. CollectInv /\ [Next]_collectVars =>
          [last' = Refused /\ last' # last => Real]_collectVars
    BY <1>1
<1> QED BY <1>2, CollectInvHolds, PTL DEF Spec, AuthErrorIsReal
=============================================================================
