------------------------------- MODULE HttpDecoys -------------------------------
(***************************************************************************)
(* sensors.owa_sensor and sensors.esxi_sensor: two web applications with   *)
(* nothing behind them, and what the log hears of a visitor.  The first    *)
(* reports every request before it is routed and a login form as well; the *)
(* second reports in each of its routes, and keeps no body and no header.  *)
(***************************************************************************)
EXTENDS Naturals, Sequences

CONSTANTS
    Kinds,         \* requests a visitor makes: [path, method, brings]
    MaxVisits      \* bound: requests of the visitor

VARIABLES
    site,          \* [app, tls]
    jar,           \* the OWA-SID the browser keeps, 0 for none
    cookies,       \* identifiers new_session has given out
    asked,         \* requests so far: [request, status]
    heard          \* events: [type, of, secret, cookie], "of" counting requests

httpVars == <<site, jar, cookies, asked, heard>>

HttpInit ==
    /\ site \in [app : {"owa", "esxi"}, tls : BOOLEAN]
    /\ site.app = "esxi" => site.tls
    /\ jar = 0
    /\ cookies = 0
    /\ asked = <<>>
    /\ heard = <<>>

\* Secrets travel in a form (small, or with more than 8 kB or 256 kB in front
\* of it), in a query, in a header, or in a SOAP message, whose tags may be bare
\* or have a prefix or attributes ("prefixed").
Forms == {"form", "form_8k", "form_256k"}
Logins == {"soap_login", "soap_login_prefixed"}

Event(type, request, secret) ==
    [type |-> type, of |-> Len(asked) + 1, secret |-> secret, cookie |-> request.cookie]

-----------------------------------------------------------------------------
(* owa_sensor                                                              *)

\* _log_request: query, headers, cookies and 8 kB of a body that is not refused.
OwaTrace(request) ==
    Event("http_request", request,
          request.brings \in {"form", "query", "basic"} \union Logins)

OwaEndpoint(path, method) ==
    CASE path \in {"/", "/owa", "/owa/auth/logon.aspx"} /\ method = "GET" -> "login_page"
      [] path \in {"/owa/auth.owa", "/owa/auth/logon.aspx"} /\ method = "POST" -> "login_post"
      [] path = "/" /\ method # "GET" -> "not_allowed"
      [] path = "/autodiscover/autodiscover.xml" -> "redirect"
      [] OTHER -> "not_found"

\* Mutant: the form is read from what is kept of the body.
MutOwaLogin(request) == Event("http_login", request, request.brings = "form")

\* login_post reads the form whole, up to the size at which it is refused.
OwaLogin(request) == Event("http_login", request, request.brings \in Forms)

OwaEvents(request) ==
    IF OwaEndpoint(request.path, request.method) = "login_post" /\ request.brings # "form_256k"
      THEN <<OwaTrace(request), OwaLogin(request)>>
      ELSE <<OwaTrace(request)>>

OwaStatus(request) ==
    CASE OwaEndpoint(request.path, request.method) = "login_page" -> "page"
      [] OwaEndpoint(request.path, request.method) = "login_post" ->
            IF request.brings = "form_256k" THEN "too_large" ELSE "denied"
      [] OTHER -> OwaEndpoint(request.path, request.method)

\* login_page plants the cookie; browsers do not take it without TLS.
Plants(request) == OwaStatus(request) = "page" /\ request.cookie = 0

-----------------------------------------------------------------------------
(* esxi_sensor                                                             *)

EsxiEndpoint(path, method) ==
    CASE path = "/" -> IF method = "GET" THEN "page" ELSE "not_allowed"
      [] path # "/" /\ method = "DELETE" -> "not_allowed"
      [] path = "/ui/" /\ method = "GET" -> "page"
      [] path = "/sdk" /\ method = "POST" -> "soap"
      [] path = "/sdk/vimServiceVersions.xml" /\ method = "GET" -> "page"
      [] path = "/folder" /\ method = "GET" -> "prompt"
      [] OTHER -> "not_found"

\* The operation is the first tag of the body, whatever its prefix.
IsLogin(request) == request.brings \in Logins

EsxiEvents(request) ==
    CASE EsxiEndpoint(request.path, request.method) = "not_allowed" -> <<>>
      [] EsxiEndpoint(request.path, request.method) = "soap" /\ IsLogin(request) ->
            <<Event("esxi_request", request, FALSE),
              Event("esxi_login", request, request.brings = "soap_login")>>
      [] OTHER -> <<Event("esxi_request", request, FALSE)>>

EsxiStatus(request) ==
    IF EsxiEndpoint(request.path, request.method) = "soap"
      THEN IF IsLogin(request) THEN "denied" ELSE "envelope"
      ELSE EsxiEndpoint(request.path, request.method)

-----------------------------------------------------------------------------
(* The visitor                                                             *)

VisitorAsks(k) ==
    LET request == [path |-> k.path, method |-> k.method, brings |-> k.brings, cookie |-> jar]
        owa == site.app = "owa"
        plants == owa /\ Plants(request)
        status == IF owa THEN OwaStatus(request) ELSE EsxiStatus(request)
    IN  /\ Len(asked) < MaxVisits
        /\ asked' = Append(asked, [request |-> request, status |-> status])
        /\ heard' = heard \o (IF owa THEN OwaEvents(request) ELSE EsxiEvents(request))
        /\ cookies' = IF plants THEN cookies + 1 ELSE cookies
        /\ jar' = IF plants /\ site.tls THEN cookies + 1 ELSE jar
        /\ UNCHANGED site

HttpNext == \E k \in Kinds : VisitorAsks(k)

HttpSpec == HttpInit /\ [][HttpNext]_httpVars

-----------------------------------------------------------------------------
(* Properties                                                              *)

\* What an application takes a name and a password from: OWA from a form of any
\* size it accepts, ESXi from bare SOAP tags.
Taken == IF site.app = "owa" THEN {"form", "form_8k"} ELSE {"soap_login"}

\* Whoever is told that a name and a password are wrong has a login in the log,
\* with the two of them exactly if the application can read them.  A Login whose
\* tags are not bare is turned away and logged with neither, whatever it
\* carried: "capture the credentials from every Login SOAP call"
\* (esxi_sensor.py:17-21) is not what the patterns do.
DeniedMeansHeard ==
    \A i \in DOMAIN asked :
        asked[i].status = "denied" =>
            \E j \in DOMAIN heard :
                /\ heard[j].of = i /\ heard[j].type \in {"http_login", "esxi_login"}
                /\ heard[j].secret <=> asked[i].request.brings \in Taken

\* A visitor over TLS is one OWA-SID from its first login page on, in every
\* event of every later request.
CookieCorrelates ==
    site.tls =>
        \A i \in DOMAIN asked, j \in DOMAIN heard :
            asked[i].status = "page" /\ site.app = "owa" /\ heard[j].of > i => heard[j].cookie = 1

\* Both.
VisitorIsToldApart == DeniedMeansHeard /\ CookieCorrelates
=============================================================================
