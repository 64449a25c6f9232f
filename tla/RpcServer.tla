------------------------------ MODULE RpcServer ------------------------------
(***************************************************************************)
(* The JSON-RPC endpoint of the Gateway: Server.ServeHTTP (rpc/rpc.go)     *)
(* behind the limiter.  Which bucket a request is charged to depends on    *)
(* the address the server takes for the caller's; what a request says is   *)
(* read only once it is paid for.                                          *)
(***************************************************************************)
EXTENDS RateLimit, Sequences

CONSTANTS
    Conn,      \* the connections, each with one request at a time
    Trusted,   \* the addresses in TRUSTED_PROXY_CIDRS
    Garbled,   \* a header part that parses as no address
    NoHeader,  \* X-Real-IP missing, or given twice
    MaxHops,   \* the longest chain that is looked at
    Wires,     \* how requests come in: origin, peer, X-Forwarded-For, X-Real-IP
    Bodies     \* what they say

ASSUME ServerConstants ==
    /\ Trusted \subseteq Client /\ Garbled \notin Client /\ NoHeader \notin Client
    /\ MaxHops \in Nat

\* What is asked of the proxies in TRUSTED_PROXY_CIDRS: each appends who called
\* it to the chain it was given, or names it in X-Real-IP.
ASSUME WireConstants ==
    \A w \in Wires :
        /\ {w.origin, w.peer} \subseteq Client
        /\ w.chain \in Seq(Client \cup {Garbled})
        /\ w.real \in Client \cup {NoHeader, Garbled}
        /\ w.peer \in Trusted =>
             IF w.chain = <<>> THEN w.real \in {w.origin, NoHeader, Garbled}
             ELSE /\ w.origin \notin Trusted
                  /\ \E i \in DOMAIN w.chain :
                       /\ w.chain[i] = w.origin
                       /\ \A j \in DOMAIN w.chain : j > i => w.chain[j] \in Trusted

VARIABLES
    serving, \* serving[r]: how far the request on r has come, and how it was answered
    called,  \* called[r]: whether it names an id, once its method runs
    charged  \* history: charged[r]: who sent what came in on r, and who was charged

server   == <<serving, called, charged>>
rpcVars  == <<tick, limiter, server>>
-----------------------------------------------------------------------------
\* Mutant: the chain is walked from the left.
FirstForeign(chain) ==
    LET foreign == {i \in DOMAIN chain : chain[i] \notin Trusted}
    IN  IF foreign = {} THEN chain[1]
        ELSE chain[CHOOSE i \in foreign : \A j \in foreign : i <= j]

\* The last hop of a chain that is not one of our own proxies.
LastForeign(chain) ==
    LET foreign == {i \in DOMAIN chain : chain[i] \notin Trusted}
    IN  IF foreign = {} THEN chain[1]
        ELSE chain[CHOOSE i \in foreign : \A j \in foreign : j <= i]

\* Server.clientIP
clientIP(w) ==
    IF w.peer \notin Trusted THEN w.peer
    ELSE IF w.chain # <<>>
    THEN IF Len(w.chain) > MaxHops \/ \E i \in DOMAIN w.chain : w.chain[i] = Garbled
         THEN w.peer ELSE LastForeign(w.chain)
    ELSE IF w.real \in {NoHeader, Garbled} THEN w.peer ELSE w.real
-----------------------------------------------------------------------------
(* How a request ends: limited (-32001); refused, with no id to answer under *)
(* (-32700, -32600); rejected or served under its own id; silent (204).     *)
Ends == {"limited", "refused", "rejected", "served", "silent"}

\* decodeRequestEnvelope: each of the four members at most once, none other,
\* each of its type.
Envelope(b) == b.shape = "object" /\ b.twice = {} /\ b.strange = {} /\ b.misfit = {}

Notification(b) == b.id \in {"absent", "null"}

\* What ServeHTTP says to a body before it looks for a handler.  An id that the
\* caller left out is answered as null.
Refused(b)  == b.shape \in {"cut", "huge", "batch", "text", "scalar"} \/ ~Envelope(b)
Rejected(b) == ~Refused(b) /\ ~(b.version /\ b.method # "")

ServerInit ==
    /\ serving = [r \in Conn |-> "idle"]
    /\ called = [r \in Conn |-> FALSE]
    /\ charged = [r \in Conn |-> [key |-> Overflow, by |-> {Overflow}]]

Step(r, to) == serving' = [serving EXCEPT ![r] = to]

Charge(w) == [key |-> clientIP(w), by |-> {w.origin, w.peer}]

\* The limiter is asked before anything of the request is read.
Admit(r) ==
    /\ serving[r] \in Ends \cup {"idle"}
    /\ \E c \in {Charge(w) : w \in Wires} :
         Allow(c.key) /\ charged' = [charged EXCEPT ![r] = c]
    /\ Step(r, IF verdict'.allowed THEN "read" ELSE "limited")
    /\ UNCHANGED <<tick, called>>

\* The body is read and decoded, and the method looked up.
Route(r) ==
    /\ serving[r] = "read"
    /\ \E b \in Bodies :
         LET to == CASE Refused(b)         -> "refused"
                     [] Rejected(b)        -> IF b.id = "given" THEN "rejected" ELSE "refused"
                     [] b.method = "known" -> "run"
                     [] Notification(b)    -> "silent"
                     [] OTHER              -> "rejected"
         IN  /\ Step(r, to)
             /\ called' = [called EXCEPT ![r] = to = "run" /\ ~Notification(b)]
    /\ UNCHANGED <<tick, limiter, charged>>

\* The handler comes back with a result or an error, of itself or because the
\* budget of the request is over; a notification is not told.
Finish(r) ==
    /\ serving[r] = "run"
    /\ \E end \in IF called[r] THEN {"served", "rejected"} ELSE {"silent"} : Step(r, end)
    /\ called' = [called EXCEPT ![r] = FALSE]
    /\ UNCHANGED <<tick, limiter, charged>>

RpcInit == LimitInit /\ ServerInit

RpcNext ==
    \/ LimitTick /\ UNCHANGED server
    \/ \E r \in Conn : Admit(r) \/ Route(r) \/ Finish(r)

RpcSpec == RpcInit /\ [][RpcNext]_rpcVars
-----------------------------------------------------------------------------
(* Properties                                                               *)

\* Whatever a caller writes into its headers, it is charged as itself or as
\* the proxy it came through (rpc.go:369-420; README: "a client-supplied
\* leftmost value cannot choose a fresh bucket").
KeyIsSender == \A r \in Conn : charged[r].key \in charged[r].by
=============================================================================
