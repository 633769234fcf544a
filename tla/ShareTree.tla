------------------------------- MODULE ShareTree -------------------------------
(***************************************************************************)
(* sensors.fileshare_sensor: the tree of fake files that a web server with *)
(* directory listings seems to have, and a visitor who types an address,   *)
(* follows links and redirects, or tries to log in.                        *)
(* Paths are sequences of names.  Names drawn by chance stand for what     *)
(* they name ("canary_doc"); what is in a file is left out.                *)
(***************************************************************************)
EXTENDS Naturals, Sequences

CONSTANT
    TypedUrls      \* addresses the visitor types: [path, slash, autoindex]

VARIABLES
    url,           \* the request that was answered last
    served,        \* what it was answered with
    promise,       \* what the link that led there showed
    reported       \* whether the answer was preceded by an HTTP_LOGIN event

shareVars == <<url, served, promise, reported>>

-----------------------------------------------------------------------------
(* _build                                                                  *)

ShareFiles ==
    {<<"index.html">>, <<"README.txt">>, <<"robots.txt">>, <<".env">>, <<".htaccess">>}
    \union {<<".git", n>> : n \in {"HEAD", "config", "description", "packed-refs"}}
    \union {<<".git", "refs", "heads", "main">>, <<".git", "objects", "pack", "pack_idx">>}
    \union {<<"backups", n>> : n \in {"db_backup.sql.gz", "last_dump_preview.sql",
                                      "customers_export.csv", "financial_summary_2025.csv",
                                      "README.txt"}}
    \union {<<"docs", n>> : n \in {"runbook.md", "architecture.md", "onboarding.md"}}
    \union {<<"exports", n>> : n \in {"users_export.csv", "api_call_log_2025-Q4.csv"}}
    \union {<<"private", n>> : n \in {"credentials.txt", ".htpasswd", "ssh_keys_backup.tar.gz",
                                      "aws_keys_rotation.txt"}}
    \union {<<"private", "ssl", "private.key">>, <<"private", "ssl", "certificate.crt">>}
    \union {<<"uploads", "invoices", "INV.pdf">>}
    \union {<<"api", "v1", "health.json">>, <<"api", "openapi.json">>}

ShareCanaries ==
    {<<"docs", "canary_doc.docx">>, <<"exports", "canary_xls.xlsx">>,
     <<"private", "canary_doc_backup.docx">>, <<"docs", "internal-status-report.html">>,
     <<"backups", "financial_report_2025.pdf">>, <<"docs", "meeting-notes-Q4.rtf">>}

\* Mutant: the directory a file is in, and no other.
MutShareDirs == {<<>>} \union {SubSeq(f, 1, Len(f) - 1) : f \in ShareFiles \union ShareCanaries}

ShareDirs ==
    {<<>>} \union
    UNION {{SubSeq(f, 1, i) : i \in 1..(Len(f) - 1)} : f \in ShareFiles \union ShareCanaries}

-----------------------------------------------------------------------------
(* FileShare                                                               *)

\* _norm: ".." goes up, and not above the root.
ShareNorm(path) ==
    LET walk[i \in 0..Len(path)] ==
            IF i = 0 THEN <<>>
            ELSE CASE path[i] = ".." -> IF walk[i - 1] = <<>> THEN <<>>
                                        ELSE SubSeq(walk[i - 1], 1, Len(walk[i - 1]) - 1)
                   [] path[i] = "." -> walk[i - 1]
                   [] OTHER -> Append(walk[i - 1], path[i])
    IN  walk[Len(path)]

HasFile(path) == ShareNorm(path) \in ShareFiles \union ShareCanaries
HasDir(path) == ShareNorm(path) \in ShareDirs

Beneath(dir, p) == Len(p) > Len(dir) /\ SubSeq(p, 1, Len(dir)) = dir
Name(dir, p) == p[Len(dir) + 1]

\* list_dir: files under their name, everything deeper as a directory.
ListDir(path) ==
    LET dir == ShareNorm(path)
        inside == {p \in ShareFiles \union ShareCanaries \union ShareDirs : Beneath(dir, p)}
        files == {Name(dir, p) : p \in {q \in inside \ ShareDirs : Len(q) = Len(dir) + 1}}
    IN  {[name |-> n, isDir |-> FALSE] : n \in files}
        \union {[name |-> n, isDir |-> TRUE] : n \in {Name(dir, p) : p \in inside} \ files}

-----------------------------------------------------------------------------
(* serve_path and what it calls                                            *)

Page(kind, path) == [kind |-> kind, path |-> path]

ServeDir(path, autoindex) ==
    IF HasFile(Append(path, "index.html")) /\ ~autoindex
      THEN Page("index", Append(ShareNorm(path), "index.html"))
      ELSE Page("listing", ShareNorm(path))

\* A canary is built, registered and reported for every download.
ServeFile(path) == Page(IF ShareNorm(path) \in ShareCanaries THEN "canary" ELSE "file", ShareNorm(path))

\* The paths scanners ask for.  Only the login page of /admin reads a form.
ScannerResponse(path, method) ==
    CASE path \in {<<"server-status">>, <<"server-info">>} -> Page("forbidden", path)
      [] path \in {<<"wp-login.php">>, <<"wp-admin">>} -> Page("wordpress", path)
      [] path \in {<<"phpmyadmin">>, <<"pma">>} -> Page("phpmyadmin", path)
      [] path = <<"admin">> -> Page(IF method = "POST" THEN "denied" ELSE "login", path)
      [] path = <<".well-known", "security.txt">> -> Page("contact", path)
      [] OTHER -> Page("not_found", path)

ServePath(u, method) ==
    IF HasDir(u.path)
      THEN IF u.slash \/ u.path = <<>> THEN ServeDir(u.path, u.autoindex)
           ELSE Page("redirect", u.path)
      ELSE IF HasFile(u.path) THEN ServeFile(u.path)
      ELSE ScannerResponse(u.path, method)

-----------------------------------------------------------------------------
(* The visitor                                                             *)

Url(path, slash) == [path |-> path, slash |-> slash, autoindex |-> FALSE]
NoPage == Page("none", <<>>)

ShareInit ==
    /\ url = Url(<<>>, TRUE)
    /\ served = NoPage
    /\ promise = "none"
    /\ reported = FALSE

Get(u, shown) ==
    /\ url' = u
    /\ served' = ServePath(u, "GET")
    /\ promise' = shown
    /\ reported' = FALSE

Type(u) == Get(u, "none")

\* Links of a listing are relative to the directory.
FollowEntry(entry) ==
    /\ served.kind = "listing"
    /\ entry \in ListDir(served.path)
    /\ Get(Url(Append(served.path, entry.name), entry.isDir),
           IF entry.isDir THEN "dir" ELSE "file")

\* "Parent Directory", in every listing but that of the root.
FollowParent ==
    /\ served.kind = "listing" /\ served.path # <<>>
    /\ Get(Url(SubSeq(served.path, 1, Len(served.path) - 1), TRUE), "dir")

\* The links of _ROOT_INDEX_HTML.
IndexLinks == {<<"backups">>, <<"docs">>, <<"exports">>, <<"uploads", "invoices">>, <<"admin">>}
FollowIndex(path) ==
    /\ served.kind = "index"
    /\ Get(Url(path, TRUE), IF path = <<"admin">> THEN "login" ELSE "dir")

FollowRedirect ==
    /\ served.kind = "redirect"
    /\ Get(Url(ShareNorm(served.path), TRUE), "dir")

\* The form of the login page posts to where the page is.
LogIn ==
    /\ served.kind \in {"login", "denied"}
    /\ served' = ServePath(url, "POST")
    /\ reported' = (served'.kind = "denied")
    /\ promise' = "denied"
    /\ UNCHANGED url

ShareNext ==
    \/ \E u \in TypedUrls : Type(u)
    \/ \E entry \in ListDir(served.path) : FollowEntry(entry)
    \/ FollowParent
    \/ \E path \in IndexLinks : FollowIndex(path)
    \/ FollowRedirect
    \/ LogIn

ShareSpec == ShareInit /\ [][ShareNext]_shareVars

-----------------------------------------------------------------------------
(* Properties                                                              *)

\* Whatever a page or a redirect offers is there: a directory has a page of
\* its own, a file comes as a file, the login page asks again and reports
\* what was typed.
ListedIsServed ==
    CASE promise = "dir" -> served.kind \in {"listing", "index"} /\ ShareNorm(url.path) \in ShareDirs
      [] promise = "file" -> served.kind \in {"file", "canary"} /\ served.path = url.path
      [] promise = "login" -> served.kind = "login"
      [] promise = "denied" -> served.kind = "denied" /\ reported
      [] OTHER -> TRUE
=============================================================================
