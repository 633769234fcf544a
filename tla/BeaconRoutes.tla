----------------------------- MODULE BeaconRoutes -----------------------------
(***************************************************************************)
(* The way home of a canary: the addresses that five builders put into     *)
(* five kinds of document, the base address the installer chose, and the   *)
(* patterns with which every web application of the host recognises what   *)
(* a viewer asks for.  A path is the sequence of its segments; the last    *)
(* one, [slot.]token[.ext], is a record.  The node's label is one segment, *)
(* put there as the operator typed it: it is free-form, and the patterns   *)
(* know only labels of 1 to 64 letters, digits, dots, hyphens, underscores.*)
(***************************************************************************)
EXTENDS Naturals, Sequences

CONSTANTS
    Agents,        \* node labels
    PlainAgents,   \* those among them of the form [A-Za-z0-9._-]{1,64}
    DownloadIds    \* download ids

VARIABLES
    base,          \* HP_CANARY_URL: its scheme, or "none" if it is not set
    document,      \* what the visitor has: [format, agent, id], or NoDocument
    fetch,         \* the link being fetched, with the state of its handshake
    report         \* the last request: its link, and the event it was answered with

routeVars == <<base, document, fetch, report>>

Formats == {"docx", "xlsx", "pdf", "rtf", "html"}
NoDocument == [format |-> "none"]
NoFetch == [stage |-> "none"]
NoReport == [event |-> "none"]

-----------------------------------------------------------------------------
(* What the builders embed.  "opens" is fetched when the document is       *)
(* opened, "clicks" when its reader clicks, "renders" when Office looks    *)
(* for the template or the linked workbook.                                *)

Leaf(slot, ext) == [slot |-> slot, ext |-> ext]
Pixel(d, slot) == <<d.agent, d.id, Leaf(slot, "png")>>
Dav(d, ext) == <<"dav", d.agent, d.id, Leaf("", ext)>>
Link(trigger, path) == [trigger |-> trigger, path |-> path]

DocxLinks(d) == {Link("opens", Pixel(d, "img")), Link("renders", Dav(d, "dotx")),
                 Link("clicks", Pixel(d, "lnk"))}
XlsxLinks(d) == {Link("opens", Pixel(d, "img")), Link("renders", Dav(d, "xlsx"))}
\* The open action and the annotation share one address.
PdfLinks(d) == {Link("opens", Pixel(d, "img")), Link("clicks", Pixel(d, "img"))}
RtfLinks(d) == {Link("opens", Pixel(d, "img"))}
HtmlLinks(d) == {Link("opens", Pixel(d, "img")), Link("clicks", Pixel(d, "lnk")),
                 Link("opens", <<"b">> \o Pixel(d, "img"))}

\* Without a base every link is about:blank: nothing is fetched.
Links(d) ==
    IF base = "none" THEN {}
    ELSE CASE d.format = "docx" -> DocxLinks(d)
           [] d.format = "xlsx" -> XlsxLinks(d)
           [] d.format = "pdf" -> PdfLinks(d)
           [] d.format = "rtf" -> RtfLinks(d)
           [] d.format = "html" -> HtmlLinks(d)

-----------------------------------------------------------------------------
(* What the applications make of a path                                    *)

\* Mutant: the addresses moved to wd/, the builders did not.
MutDavMatch(path) == Len(path) = 4 /\ path[1] = "wd" /\ path[2] \in PlainAgents

\* Whatever the last segment ends in: what is no known extension is read as
\* part of the token, which may have dots.
DavMatch(path) == Len(path) = 4 /\ path[1] \in {"dav", "wd"} /\ path[2] \in PlainAgents

Stripped(path) == IF Len(path) = 4 /\ path[1] = "b" THEN Tail(path) ELSE path
BeaconMatch(path) ==
    /\ Len(Stripped(path)) = 3
    /\ Stripped(path)[1] \in PlainAgents
    /\ Stripped(path)[3].ext \in {"png", "gif", "jpg", "jpeg", "ico", "webp", "svg"}

\* What is no known slot is part of the token as well.
Slot(leaf) == IF leaf.slot \in {"img", "tmpl", "lnk", "xref", "wd"} THEN leaf.slot ELSE ""

\* The handshake of the template: probe, negotiate, authenticate.
DavEvent(auth) ==
    CASE auth = "none" -> "canary_webdav_probe"
      [] auth = "type1" -> "canary_ntlm_negotiate"
      [] auth = "type3" -> "canary_ntlm_credentials_captured"

Unrecognised == [event |-> "http_request", agent |-> "", id |-> "", slot |-> "", status |-> 404]

\* before_request of the share, of the receiver and, by the intercept, of the
\* other applications: WebDAV first.
HandledAs(path, auth) ==
    CASE DavMatch(path) -> [event |-> DavEvent(auth), agent |-> path[2], id |-> path[3],
                            slot |-> "wd", status |-> IF auth = "type3" THEN 404 ELSE 401]
      [] ~DavMatch(path) /\ BeaconMatch(path) ->
            [event |-> "canary_beacon_received", agent |-> Stripped(path)[1],
             id |-> Stripped(path)[2], slot |-> Slot(Stripped(path)[3]), status |-> 200]
      [] OTHER -> Unrecognised

-----------------------------------------------------------------------------
(* The visitor                                                             *)

RoutesInit ==
    /\ base \in {"http", "https", "none"}
    /\ document = NoDocument /\ fetch = NoFetch /\ report = NoReport

\* From the share, or read in a shell.
TakesDocument(format, agent, id) ==
    /\ fetch = NoFetch
    /\ document' = [format |-> format, agent |-> agent, id |-> id]
    /\ report' = NoReport
    /\ UNCHANGED <<base, fetch>>

Request(link, auth) ==
    /\ report' = [link |-> link, auth |-> auth, answer |-> HandledAs(link.path, auth)]
    /\ fetch' = IF report'.answer.status = 401 THEN [stage |-> auth, link |-> link] ELSE NoFetch
    /\ UNCHANGED <<base, document>>

\* A viewer asks for whatever it asks for, in any order.
Views(link) == fetch = NoFetch /\ Request(link, "none")

\* Windows answers a challenge; other viewers give up.
AnswersChallenge ==
    /\ fetch # NoFetch
    /\ Request(fetch.link, IF fetch.stage = "none" THEN "type1" ELSE "type3")

GivesUp ==
    /\ fetch # NoFetch
    /\ fetch' = NoFetch
    /\ UNCHANGED <<base, document, report>>

RoutesNext ==
    \/ \E format \in Formats, agent \in Agents, id \in DownloadIds : TakesDocument(format, agent, id)
    \/ document # NoDocument /\ \E link \in Links(document) : Views(link)
    \/ AnswersChallenge
    \/ GivesUp

RoutesSpec == RoutesInit /\ [][RoutesNext]_routeVars

-----------------------------------------------------------------------------
(* Properties                                                              *)

\* On a node whose label the patterns know, every address in every document
\* is recognised by the host it points to, as a beacon of this very copy, with
\* what the reader did: rendering is "wd" and can go on to the credentials, a
\* click is "lnk" except in a PDF.  On any other node no bait ever reports.
EveryLinkComesHome ==
    report # NoReport =>
        IF document.agent \in PlainAgents
        THEN /\ report.answer.event # "http_request"
             /\ report.answer.agent = document.agent /\ report.answer.id = document.id
             /\ report.answer.slot =
                  CASE report.link.trigger = "renders" -> "wd"
                    [] report.link.trigger = "clicks" /\ document.format # "pdf" -> "lnk"
                    [] OTHER -> "img"
             /\ report.answer.event = "canary_ntlm_credentials_captured" <=> report.auth = "type3"
        ELSE report.answer = Unrecognised
=============================================================================
