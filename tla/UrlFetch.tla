------------------------------ MODULE UrlFetch ------------------------------
(***************************************************************************)
(* The resolver of urls (sources/url.rs: fetch): a loop of requests, one a *)
(* redirect.  Each hop is checked like the first; the resolver of the HTTP *)
(* client refuses a host as soon as one of its addresses is not public,    *)
(* and what it let through is what the client connects to.  The names may  *)
(* resolve differently every time.                                         *)
(*                                                                         *)
(* Sizes are in units of one byte and one character alike.                 *)
(***************************************************************************)
EXTENDS AddressRules

CONSTANTS
    Callers,       \* tool calls, each on a blocking thread
    Urls,          \* [scheme, userinfo, domain, ip]; ip is <<>> for a domain
    Resolutions,   \* the sets of addresses a domain may resolve to
    Internal,      \* addresses that do not belong to the public Internet
    MaxRedirects,  \* [sources.url].max_redirects
    MaxBytes,      \* max_bytes of every resolver
    Sizes          \* sizes of bodies, files and minutes

ASSUME FetchLimits == MaxRedirects \in Nat /\ MaxBytes \in Nat /\ Sizes \subseteq Nat
ASSUME InternalIsReserved == \A ip \in Internal : Reserved(ip)

VARIABLES
    page,    \* the fetch of each caller
    since    \* ticks since the work of a caller was begun, while it is timed

\* What a resolver hands over.  "size" is that of the source it read, and
\* "right" is kept for the properties: it is the source that was asked for.
Outcome(what, body, told, size, right) ==
    [what |-> what, body |-> body, told |-> told, size |-> size, right |-> right]

Failed(what) == Outcome(what, 0, {}, 0, TRUE)

NoPage == [pc |-> "none"]

UrlInit == page = [c \in Callers |-> NoPage] /\ since = [c \in Callers |-> 0]

\* map_transport_error; "not_allowed" when the resolver of names refused.
TransportErrors == {"connection_failed", "timed_out"}

\* A hop is checked, called with the time that is left, connected, read.
Requesting == {"calling", "connected", "reading"}

Ended(c, outcome) == page' = [page EXCEPT ![c] = [pc |-> "done", outcome |-> outcome]]

BeginFetch(c, allow, timeout) ==
    /\ page[c] = NoPage
    /\ since' = [since EXCEPT ![c] = 0]
    /\ \/ \E url \in Urls :
              page' = [page EXCEPT ![c] = [pc |-> "checking", url |-> url, allow |-> allow,
                                           hops |-> 0, deadline |-> timeout]]
       \/ Ended(c, Failed("invalid_uri"))

Calling(c, due) ==
    page' = [page EXCEPT ![c] = [pc |-> "calling", url |-> page[c].url, hops |-> page[c].hops,
                                 allow |-> page[c].allow, deadline |-> page[c].deadline,
                                 due |-> due]]

CheckHop_FirstOnly(c) ==
    LET rule == IF page[c].hops = 0 THEN BrokenRule(page[c].url, page[c].allow) ELSE "none" IN
    /\ page[c].pc = "checking"
    /\ CASE rule # "none" -> Ended(c, Failed("not_allowed"))
         [] rule = "none" /\ since[c] >= page[c].deadline -> Ended(c, Failed("timed_out"))
         [] OTHER -> Calling(c, page[c].deadline)
    /\ UNCHANGED since

CheckHop_WholeTimeout(c) ==
    /\ page[c].pc = "checking"
    /\ CASE BrokenRule(page[c].url, page[c].allow) # "none" -> Ended(c, Failed("not_allowed"))
         [] OTHER -> Calling(c, since[c] + page[c].deadline)
    /\ UNCHANGED since

CheckHop(c) ==
    LET rule == BrokenRule(page[c].url, page[c].allow) IN
    /\ page[c].pc = "checking"
    /\ CASE rule # "none" -> Ended(c, Failed("not_allowed"))
         [] rule = "none" /\ since[c] >= page[c].deadline -> Ended(c, Failed("timed_out"))
         [] OTHER -> Calling(c, page[c].deadline)
    /\ UNCHANGED since

Connected(c, ip) ==
    page' = [page EXCEPT ![c] = [pc |-> "connected", url |-> page[c].url, hops |-> page[c].hops,
                                 allow |-> page[c].allow, deadline |-> page[c].deadline,
                                 due |-> page[c].due, ip |-> ip]]

\* GuardedResolver: the client takes any of the addresses.
Resolves(c, addresses) ==
    IF \A ip \in addresses : IpIsPublic(ip)
    THEN \E ip \in addresses : Connected(c, ip)
    ELSE Ended(c, Failed("not_allowed"))

\* Connecting has a time limit of its own, within that of the call.
Connect(c) ==
    /\ page[c].pc = "calling"
    /\ \/ IF page[c].url.ip = <<>> THEN \E addresses \in Resolutions : Resolves(c, addresses)
                                   ELSE Resolves(c, {page[c].url.ip})
       \/ \E what \in TransportErrors : Ended(c, Failed(what))
    /\ UNCHANGED since

\* The redirects that are followed; the others, and those without a place to
\* go to, are an answer of the server.
Redirect(c) ==
    /\ page[c].pc = "connected"
    /\ IF page[c].hops + 1 > MaxRedirects THEN Ended(c, Failed("not_allowed"))
       ELSE \/ \E url \in Urls :
                  page' = [page EXCEPT ![c] = [pc |-> "checking", url |-> url,
                               allow |-> page[c].allow, hops |-> page[c].hops + 1,
                               deadline |-> page[c].deadline]]
            \/ \E what \in {"upstream_status", "not_allowed"} : Ended(c, Failed(what))
    /\ UNCHANGED since

\* Another status, a media type or charset that is not taken, a length that
\* is too much; or a body, whatever length it was announced with.
Respond(c) ==
    /\ page[c].pc = "connected"
    /\ \/ \E what \in {"upstream_status", "unsupported", "too_large"}
                      \cup TransportErrors : Ended(c, Failed(what))
       \/ page' = [page EXCEPT ![c].pc = "reading"]
    /\ UNCHANGED since

Truncated_Untold(size) ==
    Outcome("resolved", IF size > MaxBytes THEN MaxBytes ELSE size, {}, size, TRUE)

\* One byte more than the limit is read, to know of the rest.
Truncated(size) ==
    IF size > MaxBytes THEN Outcome("resolved", MaxBytes, {"body_truncated"}, size, TRUE)
                       ELSE Outcome("resolved", size, {}, size, TRUE)

ReadBody(c) ==
    /\ page[c].pc = "reading"
    /\ \/ \E size \in Sizes : Ended(c, Truncated(size))
       \/ \E what \in {"read_failed", "timed_out"} : Ended(c, Failed(what))
    /\ UNCHANGED since

FetchStep(c) == CheckHop(c) \/ Connect(c) \/ Redirect(c) \/ Respond(c) \/ ReadBody(c)

-----------------------------------------------------------------------------
(* A connection goes to a host that the settings of this call allow, and   *)
(* to an address of the public Internet - after any number of redirects,   *)
(* whatever the names resolved to before and will resolve to.              *)
Hosts(allow) == {l \in {u.domain : u \in Urls} : \E a \in allow : IsSuffix(a, l)}

UrlReachesOnlyAllowed ==
    \A c \in Callers : page[c].pc \in {"connected", "reading"} =>
        /\ page[c].ip \notin Internal
        /\ page[c].url.scheme \in {"http", "https"} /\ ~page[c].url.userinfo
        /\ Everywhere \in page[c].allow \/ page[c].url.domain \in Hosts(page[c].allow)

(* The timeout of the settings covers the whole chain of redirects.        *)
UrlWithinBudget(c) == page[c].pc \in Requesting => since[c] <= page[c].deadline
=============================================================================
