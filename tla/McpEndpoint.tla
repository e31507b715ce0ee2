----------------------------- MODULE McpEndpoint -----------------------------
(***************************************************************************)
(* What a request to /mcp passes before a tool runs: the configuration the *)
(* server starts with, originGuard, the trusted loopback middleware, the   *)
(* locally signed bearer tokens, and serveHTTP of internal/mcpserver.      *)
(* Time is counted in Second-ths of a second; claims are whole seconds.    *)
(***************************************************************************)
EXTENDS Integers, FiniteSets, Sequences

CONSTANTS Second,    \* ticks of the clock in a second
          Ttls,      \* what tokens are minted for, in ticks
          Skews,     \* how far the clock of the minting machine may be off, in ticks
          Leeway,    \* the 60 seconds a token may seem to come from the future
          Asked,     \* the requests that come in, among McpRequests
          LastTick,  \* bound on the clock
          MaxMinted  \* bound on the tokens

ASSUME EndpointAssumption ==
    /\ Second \in Nat \ {0} /\ Leeway \in Nat /\ LastTick \in Nat
    /\ Ttls \subseteq Nat \ {0} /\ Skews \subseteq Int

VARIABLES
    config,  \* the configuration, or Down before the server has started
    ticks,
    minted,  \* the tokens in circulation
    reply    \* the answer just given, with what the request came with and when

endpointVars == <<config, ticks, minted, reply>>

Down == [listen |-> "none", trust |-> FALSE, subject |-> FALSE]
NoReply == [status |-> 0, auth |-> {}, from |-> "nobody", at |-> 0]

EndpointInit == config = Down /\ ticks = 0 /\ minted = {} /\ reply = NoReply

Configs == [listen : {"loopback", "any"}, trust : BOOLEAN, subject : BOOLEAN]

\* LoadServer: loopback trust needs a subject and an explicit loopback listener.
LoadServer(c) ==
    /\ config = Down
    /\ c.trust => c.subject /\ c.listen = "loopback"
    /\ config' = c
    /\ UNCHANGED <<ticks, minted, reply>>

Advance ==
    /\ ticks < LastTick
    /\ ticks' = ticks + 1 /\ reply' = NoReply
    /\ UNCHANGED <<config, minted>>

-----------------------------------------------------------------------------
(* HMACVerifier                                                            *)

Unix(t) == t \div Second

\* Mint, on a machine whose clock shows `local`.
Mint(local, ttl, scope) ==
    /\ Cardinality(minted) < MaxMinted
    /\ minted' = minted \cup {[at |-> local, ttl |-> ttl, tools |-> scope,
                               iat |-> Unix(local), exp |-> Unix(local + ttl)]}
    /\ reply' = NoReply
    /\ UNCHANGED <<config, ticks>>

VerifyLate(t) == t.exp >= Unix(ticks) /\ t.iat <= Unix(ticks) + Leeway

VerifyNoLeeway(t) == t.exp > Unix(ticks) /\ t.iat <= Unix(ticks) /\ t.exp > t.iat + 1

Verify(t) == t.exp > Unix(ticks) /\ t.iat <= Unix(ticks) + Leeway

-----------------------------------------------------------------------------
(* The request                                                             *)

\* flaw is what is wrong with a request, if anything, besides its token and its versions.
McpRequests ==
    [from : {"loopback", "elsewhere"},
     flaw : {"none", "origin", "method", "type", "large", "parse", "rpc", "names"},
     method : {"tools/call", "server/discover", "listed", "unlisted"},
     header : {"", "modern", "legacy", "unknown"}, meta : {"", "modern", "legacy"},
     id : BOOLEAN]

\* A token, something else, or no Authorization at all.
Other == [at |-> 0, ttl |-> 0, tools |-> FALSE, iat |-> 0, exp |-> 0]
Auths == {{t} : t \in minted} \cup {{Other}, {}}

\* Middleware gives the trusted bearer to a request from this host that has none.
Trusted(q, auth) == auth = {} /\ config.trust /\ q.from = "loopback"

Require(t) == Verify(t) /\ t.tools

Identified(q, auth) == Trusted(q, auth) \/ \E t \in auth : Require(t)

\* validateProtocolHeaders
VersionsOK(q) ==
    /\ q.header # "unknown"
    /\ q.method # "server/discover" /\ "modern" \in {q.header, q.meta} => q.header = q.meta

\* serveHTTP behind originGuard: the checks in their order, and the answer to each.
Stops(q, auth, check) ==
    CASE check = 1 -> q.flaw = "origin"
      [] check = 2 -> q.flaw = "method"
      [] check = 3 -> q.flaw = "type"
      [] check = 4 -> ~ Identified(q, auth)
      [] check = 5 -> q.flaw = "large"
      [] check = 6 -> q.flaw \in {"parse", "rpc"}
      [] check = 7 -> ~ VersionsOK(q) \/ q.flaw = "names"
      [] check = 8 -> ~ q.id
      [] check = 9 -> q.method = "unlisted"
      [] check = 10 -> TRUE

Status == <<403, 405, 415, 401, 413, 400, 400, 202, 404, 200>>

\* A request is answered by the first check that stops it; at 200 its method ran.
Serve(q, auth) ==
    /\ config # Down /\ reply = NoReply
    /\ config.listen = "loopback" => q.from = "loopback"
    /\ \E check \in 1..10 :
          /\ Stops(q, auth, check) /\ \A c \in 1..check - 1 : ~ Stops(q, auth, c)
          /\ reply' = [status |-> Status[check], auth |-> auth, from |-> q.from, at |-> ticks]
    /\ UNCHANGED <<config, ticks, minted>>

EndpointNext ==
    \/ Advance
    \/ \E c \in Configs : LoadServer(c)
    \/ \E skew \in Skews, ttl \in Ttls, scope \in BOOLEAN :
          ticks + skew >= 0 /\ Mint(ticks + skew, ttl, scope)
    \/ \E q \in Asked, auth \in Auths : Serve(q, auth)

EndpointSpec == EndpointInit /\ [][EndpointNext]_endpointVars

-----------------------------------------------------------------------------
\* Whoever gets more than a refusal at the door holds a token for the tools that, by the
\* clock it was minted with, has not outlived its ttl, or is on this host of a server
\* that trusts it and listens nowhere else: rounding to seconds prolongs no token, and
\* nothing of the body is looked at before.
AnswersAreDue ==
    reply.status \notin {0, 401, 403, 405, 415} =>
        \/ \E t \in reply.auth : t \in minted /\ t.tools /\ reply.at < t.at + t.ttl
        \/ reply.auth = {} /\ config.trust /\ config.listen = "loopback"

\* A token works until its last second: one minted by a clock that is less than the leeway
\* ahead is taken as long as a whole second of its ttl is left.
FreshTokenWorks ==
    \A t \in minted :
        t.at <= ticks + Leeway * Second /\ ticks + Second <= t.at + t.ttl => Verify(t)
=============================================================================
