------------------------------- MODULE BffEdges -------------------------------
(***************************************************************************)
(* What a request and its answer go through at the edges of the BFF        *)
(* (apps/bff/src): the CSRF perimeter, the client's address, the paths let *)
(* through to identity-service, the address and headers of an app's        *)
(* backend, the names of failures and the jar of identity cookies.  All of *)
(* it is pure; each part ends in a fact that relates it to what stands on  *)
(* the other side of it.                                                   *)
(*                                                                         *)
(* Headers, origins and path segments are members of small sets; a path is *)
(* the sequence of its segments, so that "/a/" is <<"a", "">>.             *)
(***************************************************************************)
EXTENDS Integers, SequencesExt

Null == "null"

-----------------------------------------------------------------------------
(* The CSRF perimeter (middleware/csrf.ts).                                *)

PublicOrigin == "hostyara"

SAFE_METHODS == {"GET", "HEAD", "OPTIONS"}

isRequestAllowed(input) ==
  IF input.secFetchSite # Null
  THEN input.secFetchSite \in {"same-origin", "none"}
  ELSE input.method \in SAFE_METHODS \/ input.origin = PublicOrigin

Pages == {PublicOrigin, "sibling", "stranger"}

\* What a browser says of a request made by a page: with Fetch Metadata its
\* site; Origin, but for a safe method to the page's own origin.
SentBy(page, method, fetchMetadata) ==
  [method |-> method,
   secFetchSite |-> IF ~fetchMetadata THEN Null
                    ELSE CASE page = PublicOrigin -> "same-origin"
                           [] page = "sibling" -> "same-site"
                           [] page = "stranger" -> "cross-site",
   origin |-> IF method \in SAFE_METHODS /\ page = PublicOrigin THEN Null ELSE page]

(***************************************************************************)
(* In every browser a request that changes something gets through from the *)
(* shell's own pages and from no other, and the shell's pages are never    *)
(* refused (csrf.ts:12-25).                                                *)
(***************************************************************************)
PerimeterHolds ==
  \A page \in Pages, method \in SAFE_METHODS \cup {"POST", "DELETE"}, fm \in BOOLEAN :
    LET allowed == isRequestAllowed(SentBy(page, method, fm))
    IN /\ method \notin SAFE_METHODS => (allowed <=> page = PublicOrigin)
       /\ page = PublicOrigin => allowed

-----------------------------------------------------------------------------
(* The client's address (middleware/client-ip.ts): forwarded is the list   *)
(* of X-Forwarded-For, or Null.                                            *)

resolveClientIp(forwarded, socket, trustProxy) ==
  IF trustProxy /\ forwarded # <<>> /\ Last(forwarded) # ""
  THEN Last(forwarded) ELSE socket

(***************************************************************************)
(* Whatever a client writes into the header, behind the shell's proxy its  *)
(* address is what that proxy saw, and without one its socket's: nobody's  *)
(* calls count as another's (client-ip.ts:5-8).                            *)
(***************************************************************************)
AddressIsNotTheClientsToChoose ==
  \A written \in SeqOf({"mine", "yours", ""}, 2), seen \in {"mine", "yours"} :
    /\ resolveClientIp(Append(written, seen), "proxy", TRUE) = seen
    /\ resolveClientIp(written, seen, FALSE) = seen

-----------------------------------------------------------------------------
(* The paths of identity-service a browser reaches (identity-allowlist.ts).*)

ALLOWED_PREFIXES ==
  { <<"api", "auth", "organization">>, <<"api", "auth", "two-factor">>,
    <<"account", "security">>, <<"grant-requests">> }

ALLOWED_EXACT ==
  { <<"GET", <<"api", "auth", "list-sessions">> >>,
    <<"POST", <<"api", "auth", "revoke-session">> >>,
    <<"POST", <<"api", "auth", "revoke-other-sessions">> >>,
    <<"GET", <<"grant-requests">> >>, <<"POST", <<"grant-requests">> >>,
    <<"POST", <<"org", "transfer-ownership">> >> }

\* A prefix ends in "/", and something follows it.
isAllowedIdentityPath(method, path) ==
  /\ Range(path) \cap {".", ".."} = {}
  /\ \/ <<method, path>> \in ALLOWED_EXACT
     \/ \E p \in ALLOWED_PREFIXES :
          /\ IsStrictPrefix(p, path)
          /\ path # Append(p, "")

\* The calls that only the BFF makes (identity/client.ts).
ServerToServer ==
  { <<"api", "auth", "sign-in", "email">>, <<"api", "auth", "sign-up", "email">>,
    <<"api", "auth", "sign-out">>, <<"api", "auth", "get-session">>,
    <<"introspect", "household">>, <<"token">> }

\* fetch joins the path to the service's address and resolves its dots.
Resolve(path) ==
  FoldLeft(LAMBDA at, s : CASE s = "." -> at
                            [] s = ".." -> IF at = <<>> THEN <<>> ELSE Front(at)
                            [] OTHER -> Append(at, s),
           <<>>, path)

Near(paths) ==
  { p \o q : p \in paths, q \in SeqOf({"..", ".", "", "x"}, 2) }
    \cup { p \o <<"..">> \o q : p \in ALLOWED_PREFIXES, q \in paths }

(***************************************************************************)
(* Where an allowed path leads is where it says: the allow-list is decided *)
(* on the path identity-service will see, and none of the calls that only  *)
(* the BFF makes is on it (identity-allowlist.ts:1-4, 21-28).              *)
(***************************************************************************)
AllowListSeesTheRealPath ==
  \A path \in Near(ALLOWED_PREFIXES) \cup Near(ServerToServer), method \in {"GET", "POST"} :
    isAllowedIdentityPath(method, path) =>
      Resolve(path) = path /\ path \notin ServerToServer

-----------------------------------------------------------------------------
(* The address of an app's backend: the shell's createSdkApi makes the     *)
(* path, the gateway takes the app's part out of it again and appends it   *)
(* to the backend's base (upstream-request.ts).                            *)

\* createSdkApi: what is not its own app's, or is no path, is an error before
\* any request.
SdkRequest(appId, hid, service, path) ==
  IF service # appId \/ path = <<>> \/ hid = Null
  THEN [ok |-> FALSE]
  ELSE [ok |-> TRUE, path |-> <<"api", "h", hid, "apps", appId>> \o path]

\* The route /api/h/:hid/apps/:appId, with or without more.
Gateway(path) ==
  [hid |-> path[3], appId |-> path[5], sub |-> SubSeq(path, 6, Len(path))]

\* decodeURIComponent and the split at "/" and "\" of one raw segment.
Decoded(segment) ==
  CASE segment = "%2e%2e" -> <<"..">>
    [] segment = "a%2f..%5cb" -> <<"a", "..", "b">>
    [] segment = "a%2fb" -> <<"a", "b">>
    [] OTHER -> <<segment>>

Malformed == "%"

buildUpstreamUrl(base, sub) ==
  IF \E i \in DOMAIN sub : sub[i] = Malformed \/ ".." \in Range(Decoded(sub[i]))
  THEN Null
  ELSE (IF Last(base) = "" THEN Front(base) ELSE base)
         \o (IF sub = <<>> THEN <<"">> ELSE sub)

(***************************************************************************)
(* What an app asks for arrives at its own backend, under its base, as it  *)
(* was asked: the household and the app are those of the request, and no   *)
(* way of writing ".." leads out of the base, whether the backend decodes  *)
(* the path or not (createSdkApi.ts:15-28, gateway.ts:25-27,               *)
(* upstream-request.ts:60-77).                                             *)
(***************************************************************************)
AppReachesItsBackend ==
  \A service \in {"recipes", "budget"}, hid \in {Null, "family"},
     path \in SeqOf({"", "list", "..", "%2e%2e", "a%2fb", "a%2f..%5cb", Malformed}, 3),
     base \in {<<"">>, <<"v1">>, <<"v1", "">>} :
    LET call == SdkRequest("recipes", hid, service, path)
    IN call.ok =>
         LET to == Gateway(call.path)
             url == buildUpstreamUrl(base, to.sub)
         IN /\ to.appId = service /\ service = "recipes" /\ to.hid = hid
            /\ url # Null =>
                 /\ to.sub = path
                 /\ IsPrefix(SelectSeq(base, LAMBDA s : s # ""),
                             Resolve(FlattenSeq([i \in DOMAIN url |-> Decoded(url[i])])))
                 /\ IsSuffix(path, url)

-----------------------------------------------------------------------------
(* The headers both ways (upstream-request.ts, gateway.ts:38-53): a set of *)
(* names, and whose value each has.                                        *)

HOP_BY_HOP == {"connection", "keep-alive", "te", "upgrade", "host"}
STRIPPED_UPSTREAM == HOP_BY_HOP \cup {"cookie", "authorization", "content-length"}
STRIPPED_DOWNSTREAM == HOP_BY_HOP \cup {"set-cookie", "content-encoding", "content-length"}

\* connection lists further headers that are hop-by-hop.
copyHeaders(source, stripped) ==
  LET extra == IF "connection" \in DOMAIN source THEN source["connection"] ELSE {}
  IN [n \in DOMAIN source \ (stripped \cup extra) |-> source[n]]

With(headers, name, value) ==
  [n \in DOMAIN headers \cup {name} |-> IF n = name THEN value ELSE headers[n]]

buildUpstreamHeaders(incoming) ==
  With(copyHeaders(incoming, STRIPPED_UPSTREAM), "authorization", {"Internal"})

buildDownstreamHeaders(upstream) == copyHeaders(upstream, STRIPPED_DOWNSTREAM)

UPSTREAM_MARKER == "x-hostyara-upstream"

\* forwardToBackend's answer.
AnswerOfBackend(upstream) ==
  With(buildDownstreamHeaders(upstream), UPSTREAM_MARKER, {"app"})

Messages ==
  LET names == {"connection", "cookie", "authorization", "set-cookie", "accept",
                UPSTREAM_MARKER}
      listed == SUBSET {"accept", "authorization", UPSTREAM_MARKER}
  IN { [n \in some |-> IF n = "connection" THEN l ELSE {"theirs"}] :
         some \in SUBSET names, l \in listed }

(***************************************************************************)
(* An app's backend hears of nobody but through the internal token, and    *)
(* whatever it or the browser claims, an answer is marked as the app's     *)
(* exactly when it is; the cookies of the shell's origin are neither shown *)
(* to it nor set by it (upstream-request.ts:18-29, gateway.ts:45-48).      *)
(***************************************************************************)
BackendIsKeptApart ==
  \A m \in Messages :
    /\ LET up == buildUpstreamHeaders(m)
       IN up["authorization"] = {"Internal"} /\ "cookie" \notin DOMAIN up
    /\ LET down == AnswerOfBackend(m)
       IN down[UPSTREAM_MARKER] = {"app"} /\ "set-cookie" \notin DOMAIN down

-----------------------------------------------------------------------------
(* Failures: what a route answers for an outcome of identity-service or of *)
(* the backend, and what the shell makes of it (routes/identity-failure.ts,*)
(* identity/client.ts, apps/host/src/api/bffClient.ts).                    *)

\* send's own failures, and those of an answer that is not ok.
Unreachable(reason) == [kind |-> "unavailable", reason |-> reason]

toFailure(status) ==
  CASE status = 401 -> [kind |-> "unauthenticated"]
    [] status = 403 -> [kind |-> "forbidden"]
    [] status >= 500 -> Unreachable("server_error")
    [] OTHER -> [kind |-> "rejected"]

respondToIdentityFailure(failure) ==
  CASE failure.kind = "forbidden" -> "forbidden"
    [] failure.kind = "rejected" -> "rejected"
    [] failure.kind = "unavailable" ->
         IF failure.reason = "timeout" THEN "upstream_timeout" ELSE "upstream_unavailable"

BFF_ERROR_CODES ==
  {"unauthenticated", "forbidden", "not_installed", "no_grant", "bad_request",
   "payload_too_large", "upstream_unavailable", "upstream_timeout"}

\* The shell's client: the code of the error it throws.
toApiError(fromApp, error) ==
  IF ~fromApp /\ error \in BFF_ERROR_CODES THEN error ELSE "http_error"

(***************************************************************************)
(* Only a 401 of identity-service can end in the word that signs a person  *)
(* out, and the route has to decide it: every other failure, and every     *)
(* answer of an app's backend whatever its body says, reaches the shell's  *)
(* callers as an error of theirs (bffClient.ts:62-71).                     *)
(***************************************************************************)
OnlyTheSessionEndsTheSession ==
  /\ \A f \in { toFailure(s) : s \in {400, 403, 404, 500, 503} }
                \cup { Unreachable(r) : r \in {"timeout", "network"} } :
       /\ f.kind # "unauthenticated"
       /\ toApiError(FALSE, respondToIdentityFailure(f)) \in
            {"forbidden", "upstream_timeout", "upstream_unavailable", "http_error"}
  /\ \A error \in BFF_ERROR_CODES : toApiError(TRUE, error) = "http_error"

-----------------------------------------------------------------------------
(* The jar of identity cookies (identity/cookie-jar.ts): the Map of a      *)
(* Cookie header is the sequence of its pairs, in the order they were put. *)

NameAt(jar, name) == { i \in DOMAIN jar : jar[i].name = name }

Put(jar, name, value) ==
  LET at == NameAt(jar, name)
      pair == [name |-> name, value |-> value]
  IN IF at = {} THEN Append(jar, pair)
     ELSE [jar EXCEPT ![CHOOSE i \in at : TRUE] = pair]

Delete(jar, name) == SelectSeq(jar, LAMBDA p : p.name # name)

\* parseSetCookie: Null stands for a header without a name.
Removed(c) == c.value = "" \/ c.maxAge = "zero" \/ c.expires = "past"

\* parseCookieHeader of a printed jar gives the jar: a later pair of one name
\* takes the place of the earlier.
parseCookieHeader(header) ==
  FoldLeft(LAMBDA jar, p : IF p.name = Null THEN jar ELSE Put(jar, p.name, p.value),
           <<>>, header)

applySetCookies(header, setCookies) ==
  FoldLeft(LAMBDA jar, c : IF c.name = Null THEN jar
                           ELSE IF Removed(c) THEN Delete(jar, c.name)
                           ELSE Put(jar, c.name, c.value),
           parseCookieHeader(header), setCookies)

Pairs == [name : {"session", "csrf", Null}, value : {"1", "2"}]

SetCookies ==
  { c \in [name : {"session", "csrf", Null}, value : {"1", ""},
           maxAge : {Null, "zero", "positive"}, expires : {Null, "past", "future"}] :
      c.value = "" => c.maxAge = Null /\ c.expires = Null }

ValueIn(jar, name) ==
  IF NameAt(jar, name) = {} THEN Null ELSE jar[CHOOSE i \in NameAt(jar, name) : TRUE].value

(***************************************************************************)
(* The jar the BFF stores between two answers loses nothing: two answers   *)
(* folded in one after the other, with the header printed and read in      *)
(* between, give what their headers at once would, no name is there twice, *)
(* and of two headers of one name the later decides (cookie-jar.ts:46-64). *)
(***************************************************************************)
JarComposes ==
  \A header \in SeqOf(Pairs, 2) :
    LET jar == parseCookieHeader(header) IN
    /\ parseCookieHeader(jar) = jar
    /\ \A one, two \in SetCookies :
         LET both == applySetCookies(header, <<one, two>>)
         IN /\ applySetCookies(applySetCookies(header, <<one>>), <<two>>) = both
            /\ \A i, j \in DOMAIN both : both[i].name = both[j].name => i = j
            /\ two.name # Null =>
                 ValueIn(both, two.name) = IF Removed(two) THEN Null ELSE two.value

===============================================================================
