-------------------------------- MODULE Site --------------------------------
(***************************************************************************)
(* The pages of the site and their languages: the middleware chain of      *)
(* createApp (index.ts) - budget gate, language, prefix redirects - the    *)
(* routes behind it, the links of views/layout.tsx, and a browser whose    *)
(* tabs share the cookie ln and the cache of permanent redirects, while    *)
(* sessions come and go and the budget gate opens and closes.              *)
(*                                                                         *)
(* A path is [prefix, page, slash]: /en/docs/ is [<<"en">>, "/docs", TRUE].*)
(* Of equal pages one stands for all: /dashboard for /submit and /health,  *)
(* /robots.txt for the other files.                                        *)
(***************************************************************************)
EXTENDS Integers, Sequences

CONSTANTS
    Tabs,
    Starts,         \* paths users enter or follow, besides the switch link
    Accept,         \* language of the browser (Accept-Language)
    KeepsMoved      \* whether the browser caches permanent redirects

Langs   == {"en", "zh"}
Other(l) == IF l = "zh" THEN "en" ELSE "zh"
SwitchTo(l) == IF l = "zh" THEN "/lang?to=zh" ELSE "/lang?to=en"

Public  == {"/", "/docs", "/terms"}
Switches == {SwitchTo(l) : l \in Langs}
Plain   == {"/auth", "/dashboard", "/robots.txt"} \cup Switches
Pages   == Public \cup Plain

Path(prefix, page, slash) == [prefix |-> prefix, page |-> page, slash |-> slash]
Prefixes == {<<>>} \cup {<<l>> : l \in Langs} \cup (Langs \X Langs)
Paths == [prefix : Prefixes, page : Pages, slash : BOOLEAN]

ASSUME SiteAssumption ==
    Starts \subseteq Paths /\ Accept \in Langs /\ KeepsMoved \in BOOLEAN

Home == Path(<<>>, "/", FALSE)

VARIABLES
    cookie,     \* ln: a language or "none"
    moved,      \* the cache: [Public -> language of a permanent redirect]
    paused,     \* gate:status
    signedIn,
    tab         \* [Tabs -> what the tab shows or fetches]

vars == <<cookie, moved, paused, signedIn, tab>>

\* from: where the switch leads back to; open: the visit began at a page that
\* is never closed; want: language asked for with the switch; kept: a redirect
\* of the cache was followed since.
TabStates == [pc : {"blank", "going", "shown", "refused", "missing"},
              url : Paths, from : Paths, lang : Langs, open : BOOLEAN,
              want : Langs \cup {"none"}, kept : BOOLEAN]

Blank == [pc |-> "blank", url |-> Home, from |-> Home, lang |-> "en",
          open |-> FALSE, want |-> "none", kept |-> FALSE]

----------------------------------------------------------------------------
(* The server.                                                             *)

\* langFromReq: the cookie, or the browser's language. A cookie that does not
\* decode makes decodeURIComponent throw and the request end in 500; the
\* browsers here hold what GET /lang has set, which always decodes.
LangFromReq == IF cookie # "none" THEN cookie ELSE Accept

\* Slips of the code, which the runs must notice, stand before the definition
\* they would replace.
IsStaticPageCanonical(p) ==
    \/ p.prefix = <<>> /\ p.page \in Public \cup {"/auth", "/robots.txt"}
    \/ Len(p.prefix) = 1 /\ p.page \in Public /\ ~p.slash

\* isStaticPage: the pages and files a pause leaves open.
IsStaticPage(p) ==
    \/ /\ p.prefix = <<>>
       /\ p.page \in Public \cup {"/auth", "/robots.txt"}
       /\ p.slash => p.page = "/auth"
    \/ Len(p.prefix) = 1 /\ p.page \in Public

\* Answers; ln is the language the answer's Set-Cookie stores, or "none".
Moved(to, permanent, ln) ==
    [kind |-> "moved", to |-> to, permanent |-> permanent, ln |-> ln]
Shown(lang, ln) == [kind |-> "shown", lang |-> lang, ln |-> ln]
Refused == [kind |-> "refused", ln |-> "none"]
Missing == [kind |-> "missing", ln |-> "none"]

\* Where a switch on a page leads back to: to the page, which the Referer
\* names, or home when it is missing or its origin is not the one the server
\* sees (behind TLS it never is: entry.ts builds http:// addresses).
WayBack(page) == {page, Home}

SwitchForgetsCookie(p, from) == Moved(from, FALSE, "none")

\* GET /lang: the cookie and the way back.
Switch(p, from) == Moved(from, FALSE, CHOOSE l \in Langs : p.page = SwitchTo(l))

\* requirePageUser.
NeedsSignIn(p) == p.page = "/dashboard" /\ ~signedIn

\* The routes without a language prefix: 404 (Hono's routes are strict about
\* the slash), a redirect for who is not signed in, the switch, or a page in
\* the language of the request.
Route(p, from) ==
    IF p.slash THEN Missing
    ELSE IF NeedsSignIn(p)
         THEN Moved(Path(<<>>, "/auth", FALSE), FALSE, "none")
    ELSE IF p.page \in Switches THEN Switch(p, from)
    ELSE Shown(LangFromReq, "none")

PrefixedKeepsSlash(p) ==
    IF Len(p.prefix) > 1 \/ p.page \notin Public
    THEN Moved(Path(Tail(p.prefix), p.page, p.slash), TRUE, "none")
    ELSE IF p.slash THEN Moved(p, TRUE, "none")
    ELSE Shown(Head(p.prefix), Head(p.prefix))

\* seoMiddleware, a path with a language prefix: back to the path without it
\* unless the rest is a public page, without the slash, or the page itself.
Prefixed(p) ==
    IF Len(p.prefix) > 1 \/ p.page \notin Public
    THEN Moved(Path(Tail(p.prefix), p.page, FALSE), TRUE, "none")
    ELSE IF p.slash THEN Moved([p EXCEPT !.slash = FALSE], TRUE, "none")
    ELSE Shown(Head(p.prefix), Head(p.prefix))

\* seoMiddleware, a public page without prefix.
Unprefixed(p) ==
    LET l == LangFromReq IN Moved(Path(<<l>>, p.page, FALSE), TRUE, l)

\* The chain: the gate, the redirects, the routes.
Respond(p, from) ==
    IF paused /\ ~IsStaticPage(p) THEN Refused
    ELSE IF p.prefix # <<>> THEN Prefixed(p)
    ELSE IF p.page \in Public /\ ~p.slash THEN Unprefixed(p)
    ELSE Route(p, from)

\* The switch link of a page (switchHref): the other language's page, or the
\* switch with its way back for pages that are not indexed.
SwitchHref(t) ==
    IF tab[t].url.page \in Public
    THEN Path(<<Other(tab[t].lang)>>, tab[t].url.page, FALSE)
    ELSE Path(<<>>, SwitchTo(Other(tab[t].lang)), FALSE)

SitemapPlain ==
    {Path(<<l>>, page, page = "/") : l \in Langs, page \in Public}

\* sitemapXml.
Sitemap == [prefix : {<<l>> : l \in Langs}, page : Public, slash : {FALSE}]

----------------------------------------------------------------------------
(* The browser.                                                            *)

Init ==
    /\ cookie = "none"
    /\ moved = [page \in Public |-> "none"]
    /\ paused = FALSE /\ signedIn = FALSE
    /\ tab = [t \in Tabs |-> Blank]

\* Pages that a pause is said to leave open.
AlwaysOpen(p) ==
    /\ Len(p.prefix) <= 1 /\ (p.prefix = <<>> => ~p.slash)
    /\ p.page \in Public \/ p = Path(<<>>, "/auth", FALSE)

Go(t, p, from, want) ==
    /\ tab[t].pc # "going"
    /\ tab' = [tab EXCEPT ![t] =
                 [Blank EXCEPT !.pc = "going", !.url = p, !.from = from,
                               !.open = AlwaysOpen(p), !.want = want]]

Visit(t) ==
    /\ \E p \in Starts : Go(t, p, Home, "none")
    /\ UNCHANGED <<cookie, moved, paused, signedIn>>

ClickSwitch(t) ==
    /\ tab[t].pc = "shown" /\ tab[t].url.page # "/robots.txt"
    /\ \E from \in WayBack(tab[t].url) :
          Go(t, SwitchHref(t), from, Other(tab[t].lang))
    /\ UNCHANGED <<cookie, moved, paused, signedIn>>

\* POST /auth/logout ends the session and sends the tab home.
Logout(t) ==
    /\ tab[t].pc = "shown" /\ signedIn /\ ~paused
    /\ Go(t, Home, Home, "none")
    /\ signedIn' = FALSE
    /\ UNCHANGED <<cookie, moved, paused>>

Cached(p) == /\ p.prefix = <<>> /\ p.page \in Public /\ ~p.slash
             /\ moved[p.page] # "none"

\* The tab state an answer leads to.
Answered(s, a) ==
    IF a.kind = "moved" THEN [s EXCEPT !.url = a.to]
    ELSE IF a.kind = "shown"
         THEN [Blank EXCEPT !.pc = "shown", !.url = s.url, !.lang = a.lang,
                            !.want = s.want, !.kept = s.kept]
    ELSE [Blank EXCEPT !.pc = a.kind, !.open = s.open]

\* A redirect the browser remembers: the server is not asked.
FollowCached(t) ==
    /\ tab[t].pc = "going" /\ Cached(tab[t].url)
    /\ tab' = [tab EXCEPT ![t] =
                 [Answered(@, Moved(Path(<<moved[@.url.page]>>, @.url.page, FALSE),
                                    TRUE, "none")) EXCEPT !.kept = TRUE]]
    /\ UNCHANGED <<cookie, moved, paused, signedIn>>

Fetch(t) ==
    LET p == tab[t].url
        a == Respond(p, tab[t].from)
        l == IF a.ln # "none" THEN a.ln ELSE cookie
    IN  /\ tab[t].pc = "going" /\ ~Cached(p)
        /\ cookie' = l
        /\ moved' = IF /\ KeepsMoved /\ a.kind = "moved" /\ a.permanent
                       /\ p.prefix = <<>>
                    THEN [moved EXCEPT ![p.page] = Head(a.to.prefix)] ELSE moved
        /\ tab' = [u \in Tabs |->
                     IF u = t THEN Answered(tab[t], a)
                     ELSE IF a.ln # "none" THEN [tab[u] EXCEPT !.want = "none"]
                     ELSE tab[u]]
        /\ UNCHANGED <<paused, signedIn>>

\* A sign-in or the end of a session; the gate's pause and recovery.
SessionChanges ==
    signedIn' = ~signedIn /\ UNCHANGED <<cookie, moved, paused, tab>>
GateChanges ==
    paused' = ~paused /\ UNCHANGED <<cookie, moved, signedIn, tab>>

Step(t) == FollowCached(t) \/ Fetch(t)

Next == \/ \E t \in Tabs : Visit(t) \/ ClickSwitch(t) \/ Logout(t) \/ Step(t)
        \/ SessionChanges \/ GateChanges

Spec == Init /\ [][Next]_vars /\ \A t \in Tabs : WF_vars(Step(t))

----------------------------------------------------------------------------
TypeOK ==
    /\ cookie \in Langs \cup {"none"}
    /\ moved \in [Public -> Langs \cup {"none"}]
    /\ paused \in BOOLEAN /\ signedIn \in BOOLEAN
    /\ tab \in [Tabs -> TabStates]

\* Every visit ends: no chain of prefix, slash, language, sign-in and switch
\* redirects loops, whatever session, gate and cookie do in between.
VisitsEnd == \A t \in Tabs : tab[t].pc = "going" ~> tab[t].pc # "going"

\* A visit that begins at a public page or at /auth never meets the pause,
\* although its redirects and the gate are kept in two files.
PublicStaysOpen == \A t \in Tabs : tab[t].pc = "refused" => ~tab[t].open

\* The switch link leads to a page in the other language, unless another tab's
\* answer has set the cookie meanwhile, or the switch has led home and the
\* browser has kept the redirect of the home page to the old language.
SwitchWorks ==
    \A t \in Tabs : tab[t].pc = "shown" /\ tab[t].want # "none"
                       => \/ tab[t].lang = tab[t].want
                          \/ tab[t].kept /\ tab[t].url.page = "/"

\* What the sitemap lists is answered at once, in the language it lists, in
\* every state of cookie, session and gate.
SitemapIsCanonical ==
    \A p \in Sitemap : Respond(p, Home) = Shown(Head(p.prefix), Head(p.prefix))
=============================================================================
