------------------------------ MODULE Collectors -------------------------------
(***************************************************************************)
(* The collectors of one process (collect/): the tokens they ask for, keep *)
(* and lose, and how the answers of a source end a fetch.                  *)
(*                                                                         *)
(* eBay: a token kept in memory and in a file that a restarted process     *)
(* reads and other processes write, renewed a skew before it expires and   *)
(* once on a 401.  Reddit: a bearer asked once and kept for the life of    *)
(* the process.  Leboncoin: no token.  A fetch is a sequence of requests,  *)
(* any of which can end it, and what it listed until then is dropped.      *)
(* quantity_hint is a request of its own, made while a cycle handles what  *)
(* a fetch returned.                                                       *)
(*                                                                         *)
(* Time passes in ticks of _TOKEN_REFRESH_SKEW_S (300 s); a request lasts  *)
(* at most one (its timeout is 20 s).                                      *)
(***************************************************************************)
EXTENDS Naturals

CONSTANTS
    NoToken,    \* no token, and no file or a damaged one
    Pages,      \* requests of a fetch: marketplaces and filters, subreddits
    Life,       \* ticks a token lasts
    MaxFaults   \* bound: revocations, credentials withdrawn, deaths

VARIABLES
    mem,        \* _token of EbayCollector
    file,       \* ebay_token.json
    bearer,     \* _bearer of RedditCollector
    pc,         \* what the process waits for
    job,        \* what an eBay request is for
    page,       \* the request of the fetch it is at
    retried,    \* the request is the one after a 401
    last,       \* how the last fetch ended
    creds,      \* the credentials are accepted
    faults      \* history: revocations, credentials withdrawn, deaths

tokens == << mem, file, bearer >>
call == << job, page, retried >>
collectVars == << tokens, pc, call, last, creds, faults >>

ASSUME CollectAssumption ==
    /\ Pages \in Nat \ {0} /\ Life \in Nat \ {0, 1} /\ MaxFaults \in Nat

Token == [left : 0..Life, good : BOOLEAN]
ASSUME TokenAssumption == NoToken \notin Token

Sources == {"ebay", "reddit", "leboncoin"}
SourceErrors == {"unavailable", "blocked", "auth", "schema"}
End == [source : Sources, how : {"ok"} \cup SourceErrors]
NoEnd == [source |-> "none", how |-> "none"]

NewToken == [left |-> Life, good |-> TRUE]
Accepted(token) == token # NoToken /\ token.left > 0 /\ token.good

(* Mutant: not expired yet.                                                *)
FreshUntilExpiry(token) == token # NoToken /\ token.left > 0

(* More than the skew is left.                                             *)
Fresh(token) == token # NoToken /\ token.left > 1

-----------------------------------------------------------------------------
Init ==
    /\ mem = NoToken /\ file = NoToken /\ bearer = NoToken
    /\ pc = "idle" /\ job = "fetch" /\ page = 1 /\ retried = FALSE
    /\ last = NoEnd /\ creds = TRUE /\ faults = 0

Starts(what, step) ==
    /\ pc = "idle" /\ pc' = step /\ job' = what /\ last' = NoEnd
    /\ UNCHANGED << page, retried >>

Returns(end) ==
    /\ pc' = "idle" /\ last' = end
    /\ job' = "fetch" /\ page' = 1 /\ retried' = FALSE

(* The process ends and its service starts it again: the token the file    *)
(* has, no bearer.                                                         *)
Restarts == mem' = file' /\ bearer' = NoToken /\ Returns(NoEnd)

Fault == faults < MaxFaults /\ faults' = faults + 1

(* _bearer: the token in memory if it is fresh, a new one otherwise.       *)
BearerStep == IF Fresh(mem) THEN "sent" ELSE "mint"
Waits == pc \in {"sent", "late"}

-----------------------------------------------------------------------------
(* eBay.                                                                   *)

FetchRecent == Starts("fetch", BearerStep) /\ UNCHANGED << tokens, creds, faults >>

QuantityHint == Starts("hint", BearerStep) /\ UNCHANGED << tokens, creds, faults >>

(* Mutant: the collector goes on with the token it had.                    *)
MintStoredOnly ==
    /\ pc = "mint" /\ creds
    /\ file' = NewToken /\ pc' = "sent"
    /\ UNCHANGED << mem, bearer, call, last, creds, faults >>

(* The token is written to the file, then kept in memory.                  *)
MintToken ==
    /\ pc = "mint" /\ creds
    /\ file' = NewToken /\ mem' = NewToken
    /\ pc' = "sent"
    /\ UNCHANGED << bearer, call, last, creds, faults >>

(* A SourceError: run_source takes the one of a fetch, nobody that of      *)
(* quantity_hint, which asks for the token outside of its try.             *)
Raise(how) ==
    /\ \/ job = "fetch" /\ Returns([source |-> "ebay", how |-> how]) /\ UNCHANGED tokens
       \/ job = "hint" /\ UNCHANGED file /\ Restarts
    /\ UNCHANGED << creds, faults >>

MintRefused == pc = "mint" /\ ~creds /\ Raise("auth")
MintDown == pc = "mint" /\ Raise("unavailable")

(* 200, a page of items.                                                   *)
Items ==
    /\ Waits /\ job = "fetch" /\ Accepted(mem)
    /\ \/ /\ page < Pages /\ page' = page + 1 /\ retried' = FALSE
          /\ pc' = BearerStep
          /\ UNCHANGED << job, last >>
       \/ page = Pages /\ Returns([source |-> "ebay", how |-> "ok"])
    /\ UNCHANGED << tokens, creds, faults >>

(* Mutant: a token that looks fresh is sent again.                         *)
UnauthorizedNotForced ==
    /\ Waits /\ job = "fetch" /\ ~Accepted(mem)
    /\ \/ /\ ~retried /\ retried' = TRUE /\ pc' = BearerStep
          /\ UNCHANGED << tokens, job, page, last, creds, faults >>
       \/ retried /\ Raise("auth")

(* 401: a new token and the same request, once.                            *)
Unauthorized ==
    /\ Waits /\ job = "fetch" /\ ~Accepted(mem)
    /\ \/ /\ ~retried /\ retried' = TRUE /\ pc' = "mint"
          /\ UNCHANGED << tokens, job, page, last, creds, faults >>
       \/ retried /\ Raise("auth")

(* 429, another status or no answer, or what is not of the known form.     *)
Fails ==
    /\ Waits /\ job = "fetch"
    /\ \E how \in SourceErrors \ {"auth"} : Raise(how)

(* Whatever the answer to quantity_hint, a 401 included, it says something *)
(* or None and keeps the token.                                            *)
Hinted ==
    /\ Waits /\ job = "hint" /\ Returns(NoEnd)
    /\ UNCHANGED << tokens, creds, faults >>

-----------------------------------------------------------------------------
(* Reddit.                                                                 *)

RedditFetch ==
    /\ Starts("fetch", IF bearer = NoToken THEN "ask" ELSE "listen")
    /\ UNCHANGED << tokens, creds, faults >>

(* Mutant: the token is not kept.                                          *)
RedditTokenForgotten ==
    /\ pc = "ask" /\ creds /\ pc' = "listen"
    /\ UNCHANGED << tokens, call, last, creds, faults >>

RedditToken ==
    /\ pc = "ask" /\ creds
    /\ bearer' = NewToken /\ pc' = "listen"
    /\ UNCHANGED << mem, file, call, last, creds, faults >>

RedditChildren ==
    /\ pc = "listen" /\ Accepted(bearer)
    /\ \/ page < Pages /\ page' = page + 1 /\ UNCHANGED << pc, job, retried, last >>
       \/ page = Pages /\ Returns([source |-> "reddit", how |-> "ok"])
    /\ UNCHANGED << tokens, creds, faults >>

(* Refused credentials, 429, an unknown form; a 401 is another status.     *)
RedditFails ==
    /\ \E how \in SourceErrors :
           /\ \/ pc = "ask" /\ (how = "unavailable" \/ (how = "auth" /\ ~creds))
              \/ pc = "listen" /\ how # "auth"
           /\ Returns([source |-> "reddit", how |-> how])
    /\ UNCHANGED << tokens, creds, faults >>

-----------------------------------------------------------------------------
(* Leboncoin: one request.  A challenge is looked for in every answer,     *)
(* before its status and its form.                                         *)
Scraped(status, challenged, form) ==
    CASE status = "none" -> "unavailable"
      [] status = "403" \/ (status # "none" /\ challenged) -> "blocked"
      [] status = "503" /\ ~challenged -> "unavailable"
      [] status = "200" /\ ~challenged -> IF form = "ads" THEN "ok" ELSE "schema"

LeboncoinFetch ==
    /\ pc = "idle"
    /\ \E status \in {"none", "200", "403", "503"}, challenged \in BOOLEAN, form \in {"ads", "other"} :
           last' = [source |-> "leboncoin", how |-> Scraped(status, challenged, form)]
    /\ UNCHANGED << tokens, pc, call, creds, faults >>

-----------------------------------------------------------------------------
(* A kill, a token reply without its fields, a listing the model refuses.  *)
(* One that dies while it writes the file leaves it damaged.               *)
Die ==
    /\ pc # "idle" /\ Fault
    /\ \/ UNCHANGED file
       \/ pc = "mint" /\ file' = NoToken
    /\ Restarts /\ UNCHANGED creds

(* A command-line run asks for a token of its own and stores it, or is     *)
(* found half-way through.                                                 *)
AnotherStores ==
    /\ \/ creds /\ file' = NewToken
       \/ file' = NoToken
    /\ UNCHANGED << mem, bearer, pc, call, last, creds, faults >>

Aged(token) ==
    IF token = NoToken \/ token.left = 0 THEN token ELSE [token EXCEPT !.left = @ - 1]

Tick ==
    /\ pc # "late" /\ pc' = IF pc = "sent" THEN "late" ELSE pc
    /\ mem' = Aged(mem) /\ file' = Aged(file) /\ bearer' = Aged(bearer)
    /\ UNCHANGED << call, last, creds, faults >>

Revoked(token) == IF token = NoToken THEN token ELSE [token EXCEPT !.good = FALSE]

Revoke ==
    /\ Fault
    /\ mem' = Revoked(mem) /\ file' = Revoked(file) /\ bearer' = Revoked(bearer)
    /\ UNCHANGED << pc, call, last, creds >>

Withdraw == creds /\ Fault /\ creds' = FALSE /\ UNCHANGED << tokens, pc, call, last >>
Restore == ~creds /\ creds' = TRUE /\ UNCHANGED << tokens, pc, call, last, faults >>

-----------------------------------------------------------------------------
Answered ==
    \/ MintToken \/ MintRefused \/ MintDown
    \/ Items \/ Unauthorized \/ Fails \/ Hinted
    \/ RedditToken \/ RedditChildren \/ RedditFails

Environment == Die \/ AnotherStores \/ Tick \/ Revoke \/ Withdraw \/ Restore

Next ==
    \/ FetchRecent \/ QuantityHint \/ RedditFetch \/ LeboncoinFetch
    \/ Answered \/ Environment

Spec == Init /\ [][Next]_collectVars

(* The loop comes back to every source, requests have timeouts, withdrawn  *)
(* credentials are seen to; and no one request of a fetch, for a token or  *)
(* for a page, goes for ever without an answer that looks at the token.    *)
FairSpec ==
    /\ Spec /\ WF_collectVars(Restore) /\ WF_collectVars(Answered)
    /\ SF_collectVars(FetchRecent) /\ SF_collectVars(RedditFetch)
    /\ SF_collectVars(RedditToken)
    /\ \A n \in 1..Pages :
           /\ SF_collectVars(job = "fetch" /\ page = n /\ MintToken)
           /\ SF_collectVars(page = n /\ (Items \/ Unauthorized))
           /\ SF_collectVars(page = n /\ RedditChildren)

-----------------------------------------------------------------------------
TypeOK ==
    /\ mem \in Token \cup {NoToken} /\ file \in Token \cup {NoToken}
    /\ bearer \in Token \cup {NoToken}
    /\ pc \in {"idle", "mint", "sent", "late", "ask", "listen"}
    /\ job \in {"fetch", "hint"} /\ page \in 1..Pages /\ retried \in BOOLEAN
    /\ last \in End \cup {NoEnd} /\ creds \in BOOLEAN /\ faults \in 0..MaxFaults

(* The skew covers a request: a token that was fresh when it was taken has *)
(* not expired when eBay looks at it, however it came into memory (asked   *)
(* for, renewed, or read from a file another process wrote).               *)
SkewCoversRequest == Waits => mem # NoToken /\ mem.left > 0

(* A fetch of eBay that ends with SourceAuthError is owed to credentials   *)
(* eBay refuses, or to the revocation of the very token the retry had      *)
(* asked for, at most a request ago: never to a token that was too old or  *)
(* refused before.                                                         *)
AuthErrorIsReal ==
    [][last' = [source |-> "ebay", how |-> "auth"] /\ last' # last =>
          ~creds \/ (Waits /\ mem.left >= Life - 1 /\ ~mem.good)]_collectVars

(* eBay's collector comes back by itself from expiry, revocation, a        *)
(* damaged file, a token another process stored, refused credentials.      *)
EbayRecovers == []<>(last = [source |-> "ebay", how |-> "ok"])

(* Reddit's too, unless its bearer is dead: nothing renews it before the   *)
(* process starts again.                                                   *)
RedditRecoversOrIsStuck ==
    \/ []<>(last = [source |-> "reddit", how |-> "ok"])
    \/ <>[](bearer # NoToken /\ ~Accepted(bearer))
=============================================================================
