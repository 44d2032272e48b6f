------------------------------- MODULE Fetch --------------------------------
(***************************************************************************)
(* Fetching a page with redirects, in kernel/core/kernel.c: c_curl,        *)
(* c_browser and abi_browser_fetch, over network_http_get or tls_https_get *)
(* (external: it answers or fails).  Of an address only its form matters,  *)
(* and of a page only whether "Location:" stands somewhere in it.  The     *)
(* three keep the page in one buffer, http_output.                         *)
(***************************************************************************)
EXTENDS Naturals, Sequences

CONSTANT Redirects      \* a fetch follows at most this many: 5

VARIABLES
    caller,             \* "curl", "browser", "abi", or "none" between fetches
    url, live, follow,  \* the address, as text; curl's -l and -L
    was_secure, redirects,
    fetched,            \* the schemes of the pages asked for in this call, in order, a run of one only once
    http_output,        \* what the buffer holds: a page, or nothing of this call yet
    outcome             \* how the last call ended

vars == <<caller, url, live, follow, was_secure, redirects, fetched, http_output, outcome>>

Urls == {"http", "https", "/path", "name"}      \* an absolute address, a path, anything else
Pages == Urls \cup {"page"}                     \* the address after Location:, or no such word

Ends(how) ==
    /\ caller' = "none" /\ outcome' = how /\ url' = "name" /\ live' = FALSE /\ follow' = FALSE
    /\ was_secure' = FALSE /\ redirects' = 0 /\ http_output' = "none"

Begins(who, u) ==
    /\ caller = "none" /\ caller' = who /\ url' = u
    /\ was_secure' = FALSE /\ redirects' = 0 /\ fetched' = <<>> /\ http_output' = "none" /\ outcome' = "none"

c_curl(u, l, f) ==
    /\ Begins("curl", IF l /\ u \notin {"http", "https"} THEN "http" ELSE u)
    /\ live' = l /\ follow' = f

\* c_browser and abi_browser_fetch put https:// before an address without a scheme.
c_browser(who, u) ==
    /\ Begins(who, IF u \in {"http", "https"} THEN u ELSE "https")
    /\ live' = FALSE /\ follow' = TRUE

-----------------------------------------------------------------------------
(* One turn of the loop                                                    *)

Secure == url = "https"

Asks == fetched' = IF fetched # <<>> /\ fetched[Len(fetched)] = url THEN fetched ELSE Append(fetched, url)

NextUrl(to) == IF to = "/path" /\ caller # "curl" THEN url ELSE to

\* Mutant: it is not noted that the page came over HTTPS.
LocationForgets(to) == url' = NextUrl(to) /\ redirects' = redirects + 1 /\ UNCHANGED was_secure

\* Mutant: the redirects are not counted.
LocationUncounted(to) == url' = NextUrl(to) /\ was_secure' = Secure /\ UNCHANGED redirects

\* The new address: curl takes it as it is, the others put the scheme and the host before a path.
redirect_location(to) ==
    url' = NextUrl(to) /\ was_secure' = Secure /\ redirects' = redirects + 1

\* parse_url refuses, the downgrade is refused, or there were too many redirects.
Refused ==
    /\ caller # "none" /\ http_output = "none"
    /\ \/ caller # "curl" /\ redirects > Redirects /\ Ends("too_many")
       \/ (caller # "curl" => redirects <= Redirects) /\ url \notin {"http", "https"} /\ Ends("invalid")
       \/ /\ (caller # "curl" => redirects <= Redirects) /\ url = "http"
          /\ was_secure /\ Ends("downgrade")
    /\ UNCHANGED fetched

Turn ==
    /\ caller # "none" /\ http_output = "none" /\ url \in {"http", "https"} /\ (was_secure => Secure)
    /\ caller # "curl" => redirects <= Redirects

\* curl -l shows what arrives until the server ends, something fails, or Ctrl+C.
curl_stream_http ==
    /\ Turn /\ live
    /\ \/ Secure /\ Ends("unsupported") /\ UNCHANGED fetched
       \/ ~Secure /\ \E how \in {"shown", "failed", "cancelled"} : Ends(how) /\ Asks

\* network_http_get or tls_https_get.
Get ==
    /\ Turn /\ ~live
    /\ Asks
    /\ \/ Ends("failed")
       \/ /\ http_output' \in Pages
          /\ UNCHANGED <<caller, url, live, follow, was_secure, redirects, outcome>>

Follows == http_output # "page" /\ follow /\ (caller = "curl" => redirects < Redirects)

Redirected ==
    /\ caller # "none" /\ http_output # "none" /\ Follows
    /\ redirect_location(http_output) /\ http_output' = "none"
    /\ UNCHANGED <<caller, live, follow, fetched, outcome>>

Shown ==
    /\ caller # "none" /\ http_output # "none" /\ ~Follows
    /\ Ends("shown") /\ UNCHANGED fetched

Init ==
    /\ caller = "none" /\ url = "name" /\ live = FALSE /\ follow = FALSE /\ was_secure = FALSE
    /\ redirects = 0 /\ fetched = <<>> /\ http_output = "none" /\ outcome = "none"

Step == Refused \/ Get \/ Redirected \/ Shown

Next ==
    \/ \E u \in Urls :
          \/ \E l, f \in BOOLEAN : c_curl(u, l, f)
          \/ \E who \in {"browser", "abi"} : c_browser(who, u)
    \/ Step \/ curl_stream_http

\* Every wait of a fetch is bounded, but a live stream may go on for ever.
Spec == Init /\ [][Next]_vars /\ WF_vars(Step)

-----------------------------------------------------------------------------
\* "redirects without allowing an HTTPS-to-HTTP downgrade": once a page of a fetch came over
\* HTTPS, no later one is asked for over HTTP, however many redirects lie between them.
NoDowngrade == \A i, j \in DOMAIN fetched : i < j /\ fetched[i] = "https" => fetched[j] = "https"

\* Redirects that lead to each other end the fetch all the same.
FetchEnds == []<>(caller = "none" \/ live)
=============================================================================
