----------------------------- MODULE SiteProofs -----------------------------
(***************************************************************************)
(* Theorems about Site, for any number of tabs, any entry paths and either *)
(* language of the browser.                                                *)
(***************************************************************************)
EXTENDS Site, TLAPS

\* The pages that exist in one place only, their language by cookie.
PlainShown(p) == p.prefix = <<>> /\ ~p.slash /\ p.page \in Plain \ Switches

\* A click on the switch for w is at the other language's page, at the switch
\* with its way back, or on this way or at home with the cookie set.
OnTheWay(url, from, w, ln) ==
    \/ url.prefix = <<w>> /\ url.page \in Public /\ ~url.slash
    \/ /\ url.prefix = <<>> /\ url.page = SwitchTo(w) /\ ~url.slash
       /\ PlainShown(from) \/ from = Home
    \/ (PlainShown(url) \/ url = Home) /\ ln = w

\* A kept redirect has led home, to some language.
KeptHome(url) ==
    \E l \in Langs : url.prefix = <<l>> /\ url.page = "/" /\ ~url.slash

\* A tab s beside the cookie ln: what it shows is a public page or one of the
\* plain ones, a visit to a page that is never closed stays on such pages and
\* is not refused, and a click on the switch is on the way, has arrived or was
\* led home by a kept redirect.
Sound(s, ln) ==
    /\ s \in TabStates
    /\ s.pc = "shown" => s.url.page \in Public \/ PlainShown(s.url)
    /\ s.pc = "going" /\ s.open => AlwaysOpen(s.url)
    /\ s.pc = "refused" => ~s.open
    /\ s.pc = "going" /\ s.want # "none" =>
          IF s.kept THEN KeptHome(s.url) ELSE OnTheWay(s.url, s.from, s.want, ln)
    /\ s.pc = "shown" /\ s.want # "none" =>
          s.lang = s.want \/ (s.kept /\ s.url.page = "/")

IInv == TypeOK /\ \A t \in Tabs : Sound(tab[t], cookie)

----------------------------------------------------------------------------
(* Paths, prefixes and the answers of the server.                          *)

\* A prefix is empty, one language or two; without its head it is a prefix.
LEMMA PrefixParts ==
    ASSUME NEW x \in Prefixes, x # <<>>
    PROVE  /\ Head(x) \in Langs /\ Tail(x) \in Prefixes
           /\ Len(x) \in 1 .. 2
           /\ Len(x) = 1 => x = <<Head(x)>> /\ Tail(x) = <<>>
           /\ Len(x) <= 1 => Len(x) = 1
<1>1. CASE \E l \in Langs : x = <<l>>
  <2>1. PICK l \in Langs : x = <<l>>  BY <1>1
  <2>2. Head(x) = l /\ Tail(x) = <<>> /\ Len(x) = 1  BY <2>1
  <2>3. Len(x) \in 1 .. 2  BY <2>2
  <2> QED  BY <2>1, <2>2, <2>3 DEF Prefixes
<1>2. CASE x \in Langs \X Langs
  <2>1. PICK l \in Langs, m \in Langs : x = <<l, m>>  BY <1>2
  <2>2. Head(x) = l /\ Tail(x) = <<m>> /\ Len(x) = 2  BY <2>1
  <2>3. <<m>> \in Prefixes  BY DEF Prefixes
  <2>4. Len(x) \in 1 .. 2 /\ Len(x) # 1 /\ ~(Len(x) <= 1)  BY <2>2
  <2>5. Head(x) \in Langs /\ Tail(x) \in Prefixes  BY <2>2, <2>3
  <2> QED  BY <2>4, <2>5
<1> QED  BY <1>1, <1>2 DEF Prefixes

\* The empty prefix and those of one language are prefixes, and differ.
LEMMA ShortPrefixes ==
    /\ <<>> \in Prefixes /\ Len(<<>>) = 0
    /\ \A l \in Langs : /\ <<l>> \in Prefixes /\ <<l>> # <<>>
                        /\ Len(<<l>>) = 1 /\ Head(<<l>>) = l
<1>1. \A l \in Langs : <<l>> \in Prefixes  BY DEF Prefixes
<1>2. \A l \in Langs : <<l>> # <<>> /\ Len(<<l>>) = 1 /\ Head(<<l>>) = l  OBVIOUS
<1>3. <<>> \in Prefixes /\ Len(<<>>) = 0  BY DEF Prefixes
<1> QED  BY <1>1, <1>2, <1>3

\* The switch link of a language is the page of that language's switch only.
LEMMA SwitchLanguage ==
    ASSUME NEW l \in Langs
    PROVE  (CHOOSE m \in Langs : SwitchTo(l) = SwitchTo(m)) = l
BY DEF Langs, SwitchTo

\* The language of a request is one the site has.
LEMMA RequestLanguage ==
    ASSUME TypeOK
    PROVE  LangFromReq \in Langs /\ (cookie # "none" => LangFromReq = cookie)
BY SiteAssumption DEF TypeOK, LangFromReq

\* What the three parts of the chain answer to a path: redirects lead to
\* paths, permanent ones without prefix to a language, and languages stored
\* are languages.
IsAnswer(a) ==
    /\ a.kind \in {"moved", "shown", "refused", "missing"}
    /\ a.ln \in Langs \cup {"none"}
    /\ a.kind = "moved" => a.to \in Paths /\ a.permanent \in BOOLEAN
    /\ a.kind = "shown" => a.lang \in Langs

LEMMA AnswerForms ==
    /\ IsAnswer(Refused) /\ Refused.kind = "refused" /\ Refused.ln = "none"
    /\ IsAnswer(Missing) /\ Missing.kind = "missing" /\ Missing.ln = "none"
    /\ \A l \in Langs, k \in Langs \cup {"none"} :
          /\ IsAnswer(Shown(l, k)) /\ Shown(l, k).kind = "shown"
          /\ Shown(l, k).lang = l /\ Shown(l, k).ln = k
BY DEF IsAnswer, Refused, Missing, Shown

\* Prefixed redirects without touching the cookie, or shows.
LEMMA PrefixedAnswer ==
    ASSUME NEW p \in Paths, p.prefix # <<>>
    PROVE  LET a == Prefixed(p) IN
           /\ IsAnswer(a) /\ a.kind \in {"moved", "shown"}
           /\ a.kind = "shown" =>
                 /\ p.page \in Public /\ p.prefix = <<a.lang>> /\ ~p.slash
                 /\ a.ln = a.lang
           /\ a.kind = "moved" =>
                 /\ a.ln = "none" /\ a.to.page = p.page /\ ~a.to.slash
                 /\ Len(p.prefix) = 1 /\ p.page \in Public => a.to.prefix = p.prefix
           /\ Len(p.prefix) = 1 /\ p.page \in Public /\ ~p.slash =>
                 a = Shown(Head(p.prefix), Head(p.prefix))
<1> DEFINE q == Path(Tail(p.prefix), p.page, FALSE)
           q2 == [p EXCEPT !.slash = FALSE]
<1>1. /\ p.prefix \in Prefixes /\ p.page \in Pages /\ p.slash \in BOOLEAN
      /\ p = [prefix |-> p.prefix, page |-> p.page, slash |-> p.slash]
  BY DEF Paths
<1>2. /\ Head(p.prefix) \in Langs /\ Tail(p.prefix) \in Prefixes
      /\ Len(p.prefix) = 1 => p.prefix = <<Head(p.prefix)>>
  BY <1>1, PrefixParts
<1>8. Len(p.prefix) \in 1 .. 2  BY <1>1, PrefixParts
<1>3. q \in Paths /\ q.page = p.page /\ ~q.slash  BY <1>1, <1>2 DEF Path, Paths
<1>4. q2 \in Paths /\ q2.page = p.page /\ ~q2.slash /\ q2.prefix = p.prefix
  BY <1>1 DEF Paths
<1> HIDE DEF q, q2
<1>5. CASE Len(p.prefix) > 1 \/ p.page \notin Public
  <2>1. Prefixed(p) = Moved(q, TRUE, "none")  BY <1>5 DEF Prefixed, q
  <2>2. ~(Len(p.prefix) = 1 /\ p.page \in Public)  BY <1>8, <1>5
  <2>3. /\ IsAnswer(Prefixed(p)) /\ Prefixed(p).kind = "moved"
        /\ Prefixed(p).to = q /\ Prefixed(p).ln = "none"
    BY <1>3, <2>1 DEF IsAnswer, Moved
  <2> QED  BY <1>3, <2>2, <2>3
<1>6. CASE ~(Len(p.prefix) > 1 \/ p.page \notin Public) /\ p.slash
  <2>1. Prefixed(p) = Moved(q2, TRUE, "none")  BY <1>6 DEF Prefixed, q2
  <2>3. /\ IsAnswer(Prefixed(p)) /\ Prefixed(p).kind = "moved"
        /\ Prefixed(p).to = q2 /\ Prefixed(p).ln = "none"
    BY <1>4, <2>1 DEF IsAnswer, Moved
  <2> QED  BY <1>4, <1>6, <2>3
<1>7. CASE ~(Len(p.prefix) > 1 \/ p.page \notin Public) /\ ~p.slash
  <2>1. Prefixed(p) = Shown(Head(p.prefix), Head(p.prefix))
    BY <1>7 DEF Prefixed
  <2>2. Len(p.prefix) = 1 /\ p.page \in Public  BY <1>8, <1>7
  <2>3. p.prefix = <<Head(p.prefix)>>  BY <1>2, <2>2
  <2> QED  BY <1>2, <1>7, <2>1, <2>2, <2>3, AnswerForms
<1> QED  BY <1>5, <1>6, <1>7

\* Unprefixed moves for good to the language of the request and stores it.
LEMMA UnprefixedAnswer ==
    ASSUME TypeOK, NEW p \in Paths, p.page \in Public
    PROVE  LET a == Unprefixed(p) IN
           /\ IsAnswer(a) /\ a.kind = "moved" /\ a.ln = LangFromReq
           /\ a.to.prefix = <<LangFromReq>> /\ a.to.page = p.page /\ ~a.to.slash
<1> DEFINE q == Path(<<LangFromReq>>, p.page, FALSE)
<1>1. LangFromReq \in Langs  BY RequestLanguage
<1>2. <<LangFromReq>> \in Prefixes  BY <1>1, ShortPrefixes
<1>3. /\ q \in Paths /\ q.prefix = <<LangFromReq>> /\ q.page = p.page /\ ~q.slash
  BY <1>2 DEF Path, Paths
<1>4. Unprefixed(p) = Moved(q, TRUE, LangFromReq)  BY DEF Unprefixed
<1> HIDE DEF q
<1>5. /\ IsAnswer(Unprefixed(p)) /\ Unprefixed(p).kind = "moved"
      /\ Unprefixed(p).to = q /\ Unprefixed(p).ln = LangFromReq
  BY <1>1, <1>3, <1>4 DEF IsAnswer, Moved
<1> QED  BY <1>3, <1>5

\* The routes: the switch stores its language and goes back; the others
\* change no cookie, and send nobody but to /auth.
LEMMA RouteAnswer ==
    ASSUME TypeOK, NEW p \in Paths, NEW from \in Paths
    PROVE  LET a == Route(p, from) IN
           /\ IsAnswer(a) /\ a.kind \in {"missing", "moved", "shown"}
           /\ a.kind = "moved" => ~a.permanent
           /\ a.kind = "shown" =>
                 /\ ~p.slash /\ p.page \notin Switches
                 /\ a.lang = LangFromReq /\ a.ln = "none"
           /\ p.page \notin Switches =>
                 /\ a.ln = "none"
                 /\ a.kind = "moved" => /\ a.to.page = "/auth" /\ ~a.to.slash
                                        /\ a.to.prefix = <<>>
                                        /\ p.page = "/dashboard"
                 /\ ~p.slash => a.kind # "missing"
           /\ \A l \in Langs : p.page = SwitchTo(l) /\ ~p.slash =>
                 a.kind = "moved" /\ a.to = from /\ a.ln = l
<1> DEFINE q == Path(<<>>, "/auth", FALSE)
<1>1. q \in Paths /\ q.page = "/auth" /\ ~q.slash /\ q.prefix = <<>>
  BY ShortPrefixes DEF Path, Paths, Pages, Plain
<1> HIDE DEF q
<1>2. LangFromReq \in Langs  BY RequestLanguage
<1>3. \A l \in Langs : SwitchTo(l) \in Switches  BY DEF Switches
<1>4. CASE p.slash
  <2>1. Route(p, from) = Missing  BY <1>4 DEF Route
  <2> QED  BY <1>4, <2>1, AnswerForms
<1>5. CASE ~p.slash /\ NeedsSignIn(p)
  <2>1. Route(p, from) = Moved(q, FALSE, "none")  BY <1>5 DEF Route, q
  <2>2. p.page = "/dashboard" /\ p.page \notin Switches
    BY <1>5 DEF NeedsSignIn, Switches, SwitchTo, Langs
  <2>3. /\ IsAnswer(Route(p, from)) /\ Route(p, from).kind = "moved"
        /\ Route(p, from).to = q /\ Route(p, from).ln = "none"
        /\ ~Route(p, from).permanent
    BY <1>1, <2>1 DEF IsAnswer, Moved
  <2> QED  BY <1>1, <1>3, <2>2, <2>3
<1>6. CASE ~p.slash /\ ~NeedsSignIn(p) /\ p.page \in Switches
  <2>1. PICK l \in Langs : p.page = SwitchTo(l)  BY <1>6 DEF Switches
  <2>4. Route(p, from) = Switch(p, from)  BY <1>6 DEF Route
  <2>5. Switch(p, from) = Moved(from, FALSE, CHOOSE m \in Langs : SwitchTo(l) = SwitchTo(m))
    BY <2>1 DEF Switch
  <2>2. Route(p, from) = Moved(from, FALSE, l)
    BY <2>4, <2>5, SwitchLanguage
  <2>3. \A m \in Langs : p.page = SwitchTo(m) => m = l
    BY <2>1 DEF Langs, SwitchTo
  <2>6. /\ IsAnswer(Route(p, from)) /\ Route(p, from).kind = "moved"
        /\ Route(p, from).to = from /\ Route(p, from).ln = l
        /\ ~Route(p, from).permanent
    BY <2>2 DEF IsAnswer, Moved
  <2> QED  BY <1>6, <2>3, <2>6
<1>7. CASE ~p.slash /\ ~NeedsSignIn(p) /\ p.page \notin Switches
  <2>1. Route(p, from) = Shown(LangFromReq, "none")  BY <1>7 DEF Route
  <2> QED  BY <1>2, <1>3, <1>7, <2>1, AnswerForms
<1> QED  BY <1>4, <1>5, <1>6, <1>7

\* The whole chain. Pages that are never closed lead to such pages; what is
\* shown is public or plain; and each way of the switch goes on or arrives.
LEMMA RespondAnswer ==
    ASSUME TypeOK, NEW p \in Paths, NEW from \in Paths
    PROVE  LET a == Respond(p, from) IN
           /\ IsAnswer(a)
           /\ a.kind = "moved" /\ a.permanent /\ p.prefix = <<>> =>
                 Head(a.to.prefix) \in Langs
           /\ a.kind = "shown" => p.page \in Public \/ PlainShown(p)
           /\ AlwaysOpen(p) =>
                 a.kind # "refused" /\ (a.kind = "moved" => AlwaysOpen(a.to))
           /\ \A w \in Langs :
                 /\ p.prefix = <<w>> /\ p.page \in Public /\ ~p.slash =>
                       a.kind # "moved" /\ (a.kind = "shown" => a.lang = w)
                 /\ p.prefix = <<>> /\ p.page = SwitchTo(w) /\ ~p.slash =>
                       /\ a.kind # "shown"
                       /\ a.kind = "moved" => a.to = from /\ a.ln = w
                 /\ PlainShown(p) /\ cookie = w =>
                       /\ a.kind = "shown" => a.lang = w
                       /\ a.kind = "moved" => PlainShown(a.to)
                       /\ a.ln = "none"
                 /\ p = Home /\ cookie = w =>
                       /\ a.kind # "shown" /\ a.ln = w
                       /\ a.kind = "moved" =>
                             a.to.prefix = <<w>> /\ a.to.page = "/" /\ ~a.to.slash
<1> DEFINE a == Respond(p, from)
<1>1. /\ p.prefix \in Prefixes /\ p.page \in Pages /\ p.slash \in BOOLEAN
  BY DEF Paths
<1>2. AlwaysOpen(p) => IsStaticPage(p)
  <2> SUFFICES ASSUME AlwaysOpen(p) PROVE IsStaticPage(p)  OBVIOUS
  <2>1. CASE p.prefix = <<>>
    <3>1. ~p.slash  BY <2>1 DEF AlwaysOpen
    <3>2. p.page \in Public \cup {"/auth", "/robots.txt"}
      BY DEF AlwaysOpen, Path
    <3> QED  BY <2>1, <3>1, <3>2 DEF IsStaticPage
  <2>2. CASE p.prefix # <<>>
    <3>2. Len(p.prefix) <= 1 /\ p.page \in Public
      BY <2>2 DEF AlwaysOpen, Path
    <3>3. Len(p.prefix) = 1  BY <1>1, <2>2, <3>2, PrefixParts
    <3> QED  BY <3>2, <3>3 DEF IsStaticPage
  <2> QED  BY <2>1, <2>2
<1>3. \A w \in Langs : SwitchTo(w) \in Switches /\ SwitchTo(w) \notin Public
  BY DEF Switches, SwitchTo, Public, Langs
<1>4. PlainShown(p) => p.page \notin Public /\ p.page \notin Switches
  BY DEF PlainShown, Plain, Public, Switches, SwitchTo, Langs
<1>9. /\ Home.prefix = <<>> /\ Home.page = "/" /\ Home.page \in Public
      /\ ~Home.slash /\ IsStaticPage(Home)
  BY DEF Home, Path, Public, IsStaticPage
<1>5. CASE paused /\ ~IsStaticPage(p)
  <2>1. a = Refused  BY <1>5 DEF Respond
  <2>2. IsAnswer(a) /\ a.kind = "refused" /\ a.ln = "none"  BY <2>1, AnswerForms
  <2>3. p # Home  BY <1>5, <1>9
  <2> HIDE DEF a
  <2> QED  BY <1>2, <1>5, <2>2, <2>3 DEF a
<1>6. CASE ~(paused /\ ~IsStaticPage(p)) /\ p.prefix # <<>>
  <2>1. a = Prefixed(p)  BY <1>6 DEF Respond
  <2>2. /\ IsAnswer(a) /\ a.kind \in {"moved", "shown"}
        /\ a.kind = "shown" => /\ p.page \in Public /\ p.prefix = <<a.lang>>
                               /\ ~p.slash /\ a.ln = a.lang
        /\ a.kind = "moved" =>
              /\ a.ln = "none" /\ a.to.page = p.page /\ ~a.to.slash
              /\ Len(p.prefix) = 1 /\ p.page \in Public => a.to.prefix = p.prefix
    BY <1>6, <2>1, PrefixedAnswer
  <2>3. Len(p.prefix) = 1 /\ p.page \in Public /\ ~p.slash =>
           a = Shown(Head(p.prefix), Head(p.prefix))
    BY <1>6, <2>1, PrefixedAnswer
  <2> HIDE DEF a
  <2>4. ASSUME AlwaysOpen(p), a.kind = "moved" PROVE AlwaysOpen(a.to)
    <3>1. p.page \in Public /\ Len(p.prefix) <= 1
      BY <1>6, <2>4 DEF AlwaysOpen, Path
    <3>3. Len(p.prefix) = 1  BY <1>1, <1>6, <3>1, PrefixParts
    <3>4. a.to.prefix = p.prefix /\ a.to.page = p.page /\ ~a.to.slash
      BY <2>2, <2>4, <3>1, <3>3
    <3> QED  BY <3>1, <3>4 DEF AlwaysOpen
  <2>5. ASSUME NEW w \in Langs, p.prefix = <<w>>, p.page \in Public, ~p.slash
        PROVE  a.kind # "moved" /\ a.lang = w
    <3>1. Len(p.prefix) = 1 /\ Head(p.prefix) = w  BY <2>5, ShortPrefixes
    <3>2. a = Shown(w, w)  BY <2>3, <2>5, <3>1
    <3> QED  BY <3>2, AnswerForms
  <2>6. ~PlainShown(p)  BY <1>6 DEF PlainShown
  <2>7. a.kind # "refused"  BY <2>2
  <2>8. p # Home  BY <1>6, <1>9
  <2> QED  BY <1>6, <2>2, <2>4, <2>5, <2>6, <2>7, <2>8 DEF a
<1>7. CASE ~(paused /\ ~IsStaticPage(p)) /\ p.prefix = <<>>
           /\ p.page \in Public /\ ~p.slash
  <2>1. a = Unprefixed(p)  BY <1>7 DEF Respond
  <2>2. /\ IsAnswer(a) /\ a.kind = "moved" /\ a.ln = LangFromReq
        /\ a.to.prefix = <<LangFromReq>> /\ a.to.page = p.page /\ ~a.to.slash
    BY <1>7, <2>1, UnprefixedAnswer
  <2> HIDE DEF a
  <2>3. Head(a.to.prefix) \in Langs /\ Len(a.to.prefix) = 1 /\ a.to.prefix # <<>>
    BY <2>2, RequestLanguage, ShortPrefixes
  <2>6. Len(a.to.prefix) <= 1  BY <2>3
  <2>4. AlwaysOpen(a.to)  BY <1>7, <2>2, <2>3, <2>6 DEF AlwaysOpen
  <2>5. ~PlainShown(p) /\ \A w \in Langs : p.page # SwitchTo(w) /\ p.prefix # <<w>>
    BY <1>3, <1>4, <1>7, ShortPrefixes
  <2>7. ASSUME NEW w \in Langs, p = Home, cookie = w
        PROVE  /\ a.kind # "shown" /\ a.ln = w
               /\ a.to.prefix = <<w>> /\ a.to.page = "/" /\ ~a.to.slash
    <3>1. LangFromReq = w  BY <2>7, RequestLanguage DEF Langs
    <3> QED  BY <1>9, <2>2, <2>7, <3>1
  <2> QED  BY <1>7, <2>2, <2>3, <2>4, <2>5, <2>7 DEF a
<1>8. CASE ~(paused /\ ~IsStaticPage(p)) /\ p.prefix = <<>>
           /\ ~(p.page \in Public /\ ~p.slash)
  <2>1. a = Route(p, from)  BY <1>8 DEF Respond
  <2>2. /\ IsAnswer(a) /\ a.kind \in {"missing", "moved", "shown"}
        /\ a.kind = "shown" => /\ ~p.slash /\ p.page \notin Switches
                               /\ a.lang = LangFromReq /\ a.ln = "none"
        /\ p.page \notin Switches =>
              /\ a.ln = "none"
              /\ a.kind = "moved" => /\ a.to.page = "/auth" /\ ~a.to.slash
                                     /\ a.to.prefix = <<>>
                                     /\ p.page = "/dashboard"
    BY <2>1, RouteAnswer
  <2>3. /\ a.kind = "moved" => ~a.permanent
        /\ \A l \in Langs : p.page = SwitchTo(l) /\ ~p.slash =>
              a.kind = "moved" /\ a.to = from /\ a.ln = l
    BY <2>1, RouteAnswer
  <2> HIDE DEF a
  <2>4. a.kind = "shown" => PlainShown(p)
    BY <1>1, <1>8, <2>2 DEF PlainShown, Pages
  <2>5. ASSUME AlwaysOpen(p) PROVE a.kind # "refused" /\ a.kind # "moved"
    <3>1. p.page = "/auth"  BY <1>8, <2>5 DEF AlwaysOpen, Path
    <3>2. p.page \notin Switches /\ p.page # "/dashboard"
      BY <3>1 DEF Switches, SwitchTo, Langs
    <3> QED  BY <2>2, <3>2
  <2>6. ASSUME NEW w \in Langs, PlainShown(p), cookie = w
        PROVE  /\ a.kind = "shown" => a.lang = w
               /\ a.kind = "moved" => PlainShown(a.to)
               /\ a.ln = "none"
    <3>1. LangFromReq = w  BY <2>6, RequestLanguage DEF Langs
    <3>2. ASSUME a.kind = "moved" PROVE PlainShown(a.to)
      <4>1. a.to.page = "/auth" /\ ~a.to.slash /\ a.to.prefix = <<>>
        BY <1>4, <2>2, <2>6, <3>2
      <4>2. "/auth" \in Plain \ Switches
        BY DEF Plain, Switches, SwitchTo, Langs
      <4> QED  BY <4>1, <4>2 DEF PlainShown
    <3> QED  BY <1>4, <2>2, <2>6, <3>1, <3>2
  <2>7. p # Home /\ \A w \in Langs : p.prefix # <<w>>
    BY <1>8, <1>9, ShortPrefixes
  <2> QED  BY <2>2, <2>3, <2>4, <2>5, <2>6, <2>7 DEF a
<1> QED  BY <1>5, <1>6, <1>7, <1>8

----------------------------------------------------------------------------
(* The tabs.                                                               *)

\* A tab that does not ask for a language any more is sound whatever cookie.
LEMMA ForgetsWish ==
    ASSUME NEW s, NEW ln, NEW ln2, Sound(s, ln)
    PROVE  Sound([s EXCEPT !.want = "none"], ln2)
<1> DEFINE s2 == [s EXCEPT !.want = "none"]
<1>1. s \in TabStates  BY DEF Sound
<1>2. s2 \in TabStates  BY <1>1 DEF TabStates
<1>3. /\ s2.pc = s.pc /\ s2.url = s.url /\ s2.open = s.open /\ s2.want = "none"
  BY <1>1 DEF TabStates
<1> HIDE DEF s2
<1> QED  BY <1>2, <1>3 DEF Sound, s2

\* An empty tab is a tab.
LEMMA BlankTab ==
    /\ Home \in Paths /\ Blank \in TabStates
    /\ Blank.pc = "blank" /\ ~Blank.open /\ Blank.want = "none" /\ ~Blank.kept
<1>1. Home \in Paths
  BY ShortPrefixes DEF Home, Path, Paths, Pages, Public
<1>2. Blank \in TabStates  BY <1>1 DEF Blank, TabStates, Langs
<1> QED  BY <1>1, <1>2 DEF Blank

\* A visit begins soundly where its wish is on the way.
LEMMA Begins ==
    ASSUME NEW p \in Paths, NEW from \in Paths, NEW want \in Langs \cup {"none"},
           NEW ln, want # "none" => OnTheWay(p, from, want, ln)
    PROVE  Sound([Blank EXCEPT !.pc = "going", !.url = p, !.from = from,
                               !.open = AlwaysOpen(p), !.want = want], ln)
<1> DEFINE s == [Blank EXCEPT !.pc = "going", !.url = p, !.from = from,
                              !.open = AlwaysOpen(p), !.want = want]
<1>1. AlwaysOpen(p) \in BOOLEAN  BY DEF AlwaysOpen
<1>2. Blank \in TabStates  BY BlankTab
<1>3. s \in TabStates  BY <1>1, <1>2 DEF TabStates
<1>4. s.pc = "going" /\ s.url = p /\ s.from = from /\ s.want = want /\ ~s.kept
  BY <1>2, BlankTab DEF TabStates
<1>5. s.open => AlwaysOpen(p)  BY <1>2 DEF TabStates
<1> HIDE DEF s
<1> QED  BY <1>3, <1>4, <1>5 DEF Sound, s

\* An answer leaves its tab sound: the redirects of the switch go on, and
\* what is shown is in the language asked for.
LEMMA AnswerSound ==
    ASSUME TypeOK, NEW s, Sound(s, cookie), s.pc = "going",
           NEW ln \in Langs \cup {"none"},
           ln = (IF Respond(s.url, s.from).ln # "none"
                 THEN Respond(s.url, s.from).ln ELSE cookie)
    PROVE  Sound(Answered(s, Respond(s.url, s.from)), ln)
<1> DEFINE a == Respond(s.url, s.from)
<1>1. /\ s \in TabStates /\ s.url \in Paths /\ s.from \in Paths
      /\ s.want \in Langs \cup {"none"} /\ s.open \in BOOLEAN
      /\ s.kept \in BOOLEAN
  BY DEF Sound, TabStates
<1>2. /\ IsAnswer(a)
      /\ a.kind = "shown" => s.url.page \in Public \/ PlainShown(s.url)
      /\ AlwaysOpen(s.url) =>
            a.kind # "refused" /\ (a.kind = "moved" => AlwaysOpen(a.to))
  BY <1>1, RespondAnswer
<1>3. \A w \in Langs :
         /\ s.url.prefix = <<w>> /\ s.url.page \in Public /\ ~s.url.slash =>
               a.kind # "moved" /\ (a.kind = "shown" => a.lang = w)
         /\ s.url.prefix = <<>> /\ s.url.page = SwitchTo(w) /\ ~s.url.slash =>
               /\ a.kind # "shown"
               /\ a.kind = "moved" => a.to = s.from /\ a.ln = w
         /\ PlainShown(s.url) /\ cookie = w =>
               /\ a.kind = "shown" => a.lang = w
               /\ a.kind = "moved" => PlainShown(a.to)
               /\ a.ln = "none"
         /\ s.url = Home /\ cookie = w =>
               /\ a.kind # "shown" /\ a.ln = w
               /\ a.kind = "moved" =>
                     a.to.prefix = <<w>> /\ a.to.page = "/" /\ ~a.to.slash
  BY <1>1, RespondAnswer
<1>4. /\ s.open => AlwaysOpen(s.url)
      /\ s.want # "none" => s.want \in Langs
      /\ s.want # "none" /\ s.kept => KeptHome(s.url)
      /\ s.want # "none" /\ ~s.kept => OnTheWay(s.url, s.from, s.want, cookie)
  BY <1>1 DEF Sound
<1>10. "/" \in Public  BY DEF Public
<1>5. ln = IF a.ln # "none" THEN a.ln ELSE cookie  OBVIOUS
<1>9. Respond(s.url, s.from) = a  OBVIOUS
<1> HIDE DEF a
<1>6. CASE a.kind = "moved"
  <2> DEFINE s2 == [s EXCEPT !.url = a.to]
  <2>1. Answered(s, a) = s2  BY <1>6 DEF Answered
  <2>2. a.to \in Paths  BY <1>2, <1>6 DEF IsAnswer
  <2>3. s2 \in TabStates  BY <1>1, <2>2 DEF TabStates
  <2>4. /\ s2.pc = "going" /\ s2.url = a.to /\ s2.from = s.from
        /\ s2.want = s.want /\ s2.kept = s.kept
    BY <1>1 DEF TabStates
  <2>5. s2.open => s.open  BY <1>1 DEF TabStates
  <2> HIDE DEF s2
  <2>8. s.want # "none" => ~s.kept
    BY <1>3, <1>4, <1>6, <1>10 DEF KeptHome
  <2>6. ASSUME s.want # "none" PROVE OnTheWay(a.to, s.from, s.want, ln)
    <3>1. s.want \in Langs /\ OnTheWay(s.url, s.from, s.want, cookie)
      BY <1>4, <2>6, <2>8
    <3>2. CASE s.url.prefix = <<s.want>> /\ s.url.page \in Public /\ ~s.url.slash
      BY <1>3, <1>6, <3>1, <3>2
    <3>3. CASE /\ s.url.prefix = <<>> /\ s.url.page = SwitchTo(s.want)
               /\ ~s.url.slash /\ (PlainShown(s.from) \/ s.from = Home)
      <4>1. a.to = s.from /\ a.ln = s.want  BY <1>3, <1>6, <3>1, <3>3
      <4>2. ln = s.want  BY <1>5, <2>6, <4>1
      <4> QED  BY <3>3, <4>1, <4>2 DEF OnTheWay
    <3>4. CASE PlainShown(s.url) /\ cookie = s.want
      <4>1. PlainShown(a.to) /\ a.ln = "none"  BY <1>3, <1>6, <3>1, <3>4
      <4>2. ln = s.want  BY <1>5, <3>4, <4>1
      <4> QED  BY <4>1, <4>2 DEF OnTheWay
    <3>5. CASE s.url = Home /\ cookie = s.want
      <4>1. a.to.prefix = <<s.want>> /\ a.to.page \in Public /\ ~a.to.slash
        BY <1>3, <1>6, <1>10, <3>1, <3>5
      <4> QED  BY <4>1 DEF OnTheWay
    <3> QED  BY <3>1, <3>2, <3>3, <3>4, <3>5 DEF OnTheWay
  <2>7. s2.open => AlwaysOpen(s2.url)  BY <1>2, <1>4, <1>6, <2>4, <2>5
  <2> QED  BY <1>9, <2>1, <2>3, <2>4, <2>6, <2>7, <2>8 DEF Sound
<1>7. CASE a.kind = "shown"
  <2> DEFINE s2 == [Blank EXCEPT !.pc = "shown", !.url = s.url, !.lang = a.lang,
                                 !.want = s.want, !.kept = s.kept]
  <2>1. Answered(s, a) = s2  BY <1>7 DEF Answered
  <2>2. a.lang \in Langs  BY <1>2, <1>7 DEF IsAnswer
  <2>3. Blank \in TabStates  BY BlankTab
  <2>5. s2 \in TabStates  BY <1>1, <2>2, <2>3 DEF TabStates
  <2>6. /\ s2.pc = "shown" /\ s2.url = s.url /\ s2.lang = a.lang
        /\ s2.want = s.want /\ s2.kept = s.kept
    BY <2>3 DEF TabStates
  <2> HIDE DEF s2
  <2>7. ASSUME s.want # "none"
        PROVE  a.lang = s.want \/ (s.kept /\ s.url.page = "/")
    <3>1. CASE s.kept  BY <1>4, <2>7, <3>1 DEF KeptHome
    <3>2. CASE ~s.kept
      <4>1. s.want \in Langs /\ OnTheWay(s.url, s.from, s.want, cookie)
        BY <1>4, <2>7, <3>2
      <4> QED  BY <1>3, <1>7, <4>1 DEF OnTheWay
    <3> QED  BY <1>1, <3>1, <3>2
  <2> QED  BY <1>9, <1>2, <1>7, <2>1, <2>5, <2>6, <2>7 DEF Sound
<1>8. CASE a.kind \in {"refused", "missing"}
  <2> DEFINE s2 == [Blank EXCEPT !.pc = a.kind, !.open = s.open]
  <2>1. Answered(s, a) = s2  BY <1>8 DEF Answered
  <2>2. Blank \in TabStates /\ Blank.want = "none"  BY BlankTab
  <2>4. s2 \in TabStates  BY <1>1, <1>8, <2>2 DEF TabStates
  <2>5. s2.pc = a.kind /\ s2.want = "none"  BY <2>2 DEF TabStates
  <2>6. s2.open => s.open  BY <2>2 DEF TabStates
  <2> HIDE DEF s2
  <2>7. a.kind = "refused" => ~s2.open  BY <1>2, <1>4, <2>6
  <2> QED  BY <1>9, <1>8, <2>1, <2>4, <2>5, <2>7 DEF Sound
<1> QED  BY <1>2, <1>6, <1>7, <1>8 DEF IsAnswer, a

----------------------------------------------------------------------------
(* The steps.                                                              *)

LEMMA InitEstablishes == Init => IInv
<1> SUFFICES ASSUME Init PROVE IInv  OBVIOUS
<1>1. /\ cookie = "none" /\ moved = [page \in Public |-> "none"]
      /\ paused = FALSE /\ signedIn = FALSE
      /\ tab = [t \in Tabs |-> Blank]
  BY DEF Init
<1>2. TypeOK  BY <1>1, BlankTab DEF TypeOK
<1>3. ASSUME NEW t \in Tabs PROVE Sound(tab[t], cookie)
  <2>1. tab[t] = Blank  BY <1>1
  <2> QED  BY <2>1, BlankTab DEF Sound
<1> QED  BY <1>2, <1>3 DEF IInv

\* A tab that starts a visit on the way leaves the others as they are.
LEMMA GoKeeps ==
    ASSUME IInv, NEW t \in Tabs, NEW p \in Paths, NEW from \in Paths,
           NEW want \in Langs \cup {"none"},
           want # "none" => OnTheWay(p, from, want, cookie),
           Go(t, p, from, want), cookie' = cookie, moved' = moved,
           paused' = paused, signedIn' \in BOOLEAN
    PROVE  IInv'
<1> DEFINE s == [Blank EXCEPT !.pc = "going", !.url = p, !.from = from,
                              !.open = AlwaysOpen(p), !.want = want]
<1>1. Sound(s, cookie)  BY Begins
<1>2. tab' = [tab EXCEPT ![t] = s]  BY DEF Go
<1>3. s \in TabStates  BY <1>1 DEF Sound
<1> HIDE DEF s
<1>4. TypeOK'  BY <1>2, <1>3 DEF IInv, TypeOK
<1>5. ASSUME NEW u \in Tabs PROVE Sound(tab'[u], cookie')
  <2>1. tab'[u] = IF u = t THEN s ELSE tab[u]  BY <1>2 DEF IInv, TypeOK
  <2> QED  BY <1>1, <2>1 DEF IInv
<1> QED  BY <1>4, <1>5 DEF IInv

\* The switch link of a page that is shown is the beginning of its way.
LEMMA SwitchHrefOnTheWay ==
    ASSUME IInv, NEW t \in Tabs, tab[t].pc = "shown",
           NEW from \in WayBack(tab[t].url)
    PROVE  /\ SwitchHref(t) \in Paths /\ Other(tab[t].lang) \in Langs
           /\ OnTheWay(SwitchHref(t), from, Other(tab[t].lang), cookie)
<1> DEFINE w == Other(tab[t].lang)
<1>1. w \in Langs  BY DEF Other, Langs
<1>2. /\ tab[t].url.page \in Public \/ PlainShown(tab[t].url)
      /\ tab[t].url \in Paths
  BY DEF IInv, Sound, TabStates
<1>3. <<w>> \in Prefixes /\ <<>> \in Prefixes  BY <1>1, ShortPrefixes
<1>4. SwitchTo(w) \in Pages  BY <1>1 DEF Pages, Plain, Switches
<1> HIDE DEF w
<1>5. CASE tab[t].url.page \in Public
  <2> DEFINE q == Path(<<w>>, tab[t].url.page, FALSE)
  <2>1. SwitchHref(t) = q  BY <1>5 DEF SwitchHref, w
  <2>2. q \in Paths  BY <1>2, <1>3 DEF Path, Paths
  <2>3. q.prefix = <<w>> /\ q.page = tab[t].url.page /\ ~q.slash  BY DEF Path
  <2> HIDE DEF q
  <2> QED  BY <1>1, <1>5, <2>1, <2>2, <2>3 DEF OnTheWay, w
<1>6. CASE tab[t].url.page \notin Public
  <2> DEFINE q == Path(<<>>, SwitchTo(w), FALSE)
  <2>1. SwitchHref(t) = q  BY <1>6 DEF SwitchHref, w
  <2>2. q \in Paths  BY <1>3, <1>4 DEF Path, Paths
  <2>3. q.prefix = <<>> /\ q.page = SwitchTo(w) /\ ~q.slash  BY DEF Path
  <2> HIDE DEF q
  <2>4. PlainShown(from) \/ from = Home  BY <1>2, <1>6 DEF WayBack
  <2> QED  BY <1>1, <1>6, <2>1, <2>2, <2>3, <2>4 DEF OnTheWay, w
<1> QED  BY <1>5, <1>6

\* A redirect from the cache is one the server could have sent.
LEMMA FollowCachedKeeps ==
    ASSUME IInv, NEW t \in Tabs, FollowCached(t)
    PROVE  IInv'
<1> DEFINE s == tab[t]
           p == s.url
           q == Path(<<moved[p.page]>>, p.page, FALSE)
           s2 == [s EXCEPT !.url = q, !.kept = TRUE]
<1>1. /\ s \in TabStates /\ p \in Paths /\ s.pc = "going"
      /\ p.prefix = <<>> /\ p.page \in Public /\ ~p.slash
      /\ moved[p.page] # "none" /\ cookie' = cookie
      /\ moved' = moved /\ paused' = paused /\ signedIn' = signedIn
  BY DEF IInv, TypeOK, TabStates, FollowCached, Cached
<1>2. moved[p.page] \in Langs  BY <1>1 DEF IInv, TypeOK
<1>3. <<moved[p.page]>> \in Prefixes /\ Len(<<moved[p.page]>>) = 1
      /\ <<moved[p.page]>> # <<>>
  BY <1>2, ShortPrefixes
<1>4. q \in Paths  BY <1>1, <1>3 DEF Path, Paths, Pages
<1>5. q.prefix = <<moved[p.page]>> /\ q.page = p.page /\ ~q.slash  BY DEF Path
<1> HIDE DEF q
<1>6. AlwaysOpen(q)
  <2>1. Len(q.prefix) = 1 /\ q.prefix # <<>>  BY <1>3, <1>5
  <2>2. Len(q.prefix) <= 1  BY <2>1
  <2> QED  BY <1>1, <1>5, <2>1, <2>2 DEF AlwaysOpen
<1>7. [Answered(s, Moved(q, TRUE, "none")) EXCEPT !.kept = TRUE] = s2
  BY DEF Answered, Moved
<1>8. tab' = [tab EXCEPT ![t] = s2]  BY <1>7 DEF FollowCached, q
<1>9. s2 \in TabStates  BY <1>1, <1>4 DEF TabStates
<1>10. s2.pc = "going" /\ s2.url = q /\ s2.want = s.want /\ s2.kept
  BY <1>1 DEF TabStates
<1>11. s.want # "none" => KeptHome(q)
  <2>1. \A w \in Langs : /\ p.prefix # <<w>> /\ p.page # SwitchTo(w)
                         /\ ~PlainShown(p)
    BY <1>1, ShortPrefixes
       DEF Public, SwitchTo, PlainShown, Plain, Switches, Langs
  <2>2. s.want \in Langs \cup {"none"} /\ ~KeptHome(p)
    BY <1>1, <2>1 DEF TabStates, KeptHome
  <2>3. s.want # "none" => p = Home
    BY <1>1, <2>1, <2>2 DEF IInv, Sound, OnTheWay
  <2>4. p = Home => q.page = "/"  BY <1>5 DEF Home, Path
  <2> QED  BY <1>2, <1>5, <2>3, <2>4 DEF KeptHome
<1> HIDE DEF s2
<1>12. Sound(s2, cookie)  BY <1>6, <1>9, <1>10, <1>11 DEF Sound
<1>13. TypeOK'  BY <1>1, <1>8, <1>9 DEF IInv, TypeOK
<1>14. ASSUME NEW u \in Tabs PROVE Sound(tab'[u], cookie')
  <2>1. tab'[u] = IF u = t THEN s2 ELSE tab[u]  BY <1>8 DEF IInv, TypeOK
  <2> QED  BY <1>1, <1>12, <2>1 DEF IInv
<1> QED  BY <1>13, <1>14 DEF IInv

\* An answer moves its own tab soundly, and an answer that sets the cookie
\* ends the wishes of the others.
LEMMA FetchKeeps ==
    ASSUME IInv, NEW t \in Tabs, Fetch(t)
    PROVE  IInv'
<1> DEFINE s == tab[t]
           a == Respond(s.url, s.from)
           ln == IF a.ln # "none" THEN a.ln ELSE cookie
           s2 == Answered(s, a)
<1>1. /\ s.pc = "going" /\ cookie' = ln
      /\ moved' = IF KeepsMoved /\ a.kind = "moved" /\ a.permanent
                       /\ s.url.prefix = <<>>
                  THEN [moved EXCEPT ![s.url.page] = Head(a.to.prefix)]
                  ELSE moved
      /\ tab' = [u \in Tabs |->
                    IF u = t THEN s2
                    ELSE IF a.ln # "none" THEN [tab[u] EXCEPT !.want = "none"]
                    ELSE tab[u]]
      /\ paused' = paused /\ signedIn' = signedIn
  BY DEF Fetch
<1>2. TypeOK /\ Sound(s, cookie)  BY DEF IInv
<1>3. s.url \in Paths /\ s.from \in Paths  BY <1>2 DEF Sound, TabStates
<1>4. /\ IsAnswer(a)
      /\ a.kind = "moved" /\ a.permanent /\ s.url.prefix = <<>> =>
            Head(a.to.prefix) \in Langs
  BY <1>2, <1>3, RespondAnswer
<1>5. ln \in Langs \cup {"none"}  BY <1>2, <1>4 DEF IsAnswer, TypeOK
<1>6. Sound(s2, ln)  BY <1>1, <1>2, <1>5, AnswerSound
<1> HIDE DEF a, ln, s2
<1>7. ASSUME NEW u \in Tabs PROVE Sound(tab'[u], cookie')
  <2>1. CASE u = t  BY <1>1, <1>6, <2>1
  <2>2. CASE u # t /\ a.ln # "none"
    <3>1. tab'[u] = [tab[u] EXCEPT !.want = "none"]  BY <1>1, <2>2
    <3>2. Sound(tab[u], cookie)  BY DEF IInv
    <3>3. Sound([tab[u] EXCEPT !.want = "none"], ln)  BY <3>2, ForgetsWish
    <3> QED  BY <1>1, <3>1, <3>3
  <2>3. CASE u # t /\ a.ln = "none"
    <3>1. tab'[u] = tab[u] /\ cookie' = cookie  BY <1>1, <2>3 DEF ln
    <3> QED  BY <3>1 DEF IInv
  <2> QED  BY <2>1, <2>2, <2>3
<1>8. moved' \in [Public -> Langs \cup {"none"}]
  BY <1>1, <1>2, <1>4 DEF TypeOK
<1>9. tab' \in [Tabs -> TabStates]
  <2>1. \A u \in Tabs : tab'[u] \in TabStates  BY <1>7 DEF Sound
  <2> QED  BY <1>1, <2>1
<1>10. TypeOK'  BY <1>1, <1>2, <1>5, <1>8, <1>9 DEF TypeOK
<1> QED  BY <1>7, <1>10 DEF IInv

\* Every step keeps the invariant.
LEMMA StepKeeps == IInv /\ [Next]_vars => IInv'
<1> SUFFICES ASSUME IInv, [Next]_vars PROVE IInv'  OBVIOUS
<1>1. CASE UNCHANGED vars
  <2>1. /\ cookie' = cookie /\ moved' = moved /\ paused' = paused
        /\ signedIn' = signedIn /\ tab' = tab
    BY <1>1 DEF vars
  <2>2. TypeOK'  BY <2>1 DEF IInv, TypeOK
  <2>3. \A t \in Tabs : Sound(tab'[t], cookie')  BY <2>1 DEF IInv
  <2> QED  BY <2>2, <2>3 DEF IInv
<1>2. ASSUME NEW t \in Tabs, Visit(t) PROVE IInv'
  <2>1. PICK p \in Starts : Go(t, p, Home, "none")  BY <1>2 DEF Visit
  <2>2. /\ p \in Paths /\ Home \in Paths /\ cookie' = cookie /\ moved' = moved
        /\ paused' = paused
    BY <1>2, BlankTab, SiteAssumption DEF Visit
  <2>3. signedIn' \in BOOLEAN  BY <1>2 DEF Visit, IInv, TypeOK
  <2> QED  BY <2>1, <2>2, <2>3, GoKeeps
<1>3. ASSUME NEW t \in Tabs, ClickSwitch(t) PROVE IInv'
  <2>1. /\ tab[t].pc = "shown"
        /\ cookie' = cookie /\ moved' = moved /\ paused' = paused
    BY <1>3 DEF ClickSwitch
  <2>4. PICK from \in WayBack(tab[t].url) :
          Go(t, SwitchHref(t), from, Other(tab[t].lang))
    BY <1>3 DEF ClickSwitch
  <2>2. signedIn' \in BOOLEAN  BY <1>3 DEF ClickSwitch, IInv, TypeOK
  <2>3. from \in Paths  BY BlankTab DEF IInv, Sound, TabStates, WayBack
  <2> QED  BY <2>1, <2>2, <2>3, <2>4, SwitchHrefOnTheWay, GoKeeps
<1>4. ASSUME NEW t \in Tabs, Logout(t) PROVE IInv'
  <2>1. /\ Go(t, Home, Home, "none") /\ cookie' = cookie /\ moved' = moved
        /\ paused' = paused
    BY <1>4 DEF Logout
  <2>2. signedIn' \in BOOLEAN  BY <1>4 DEF Logout
  <2> QED  BY <2>1, <2>2, BlankTab, GoKeeps
<1>5. ASSUME NEW t \in Tabs, Step(t) PROVE IInv'
  BY <1>5, FollowCachedKeeps, FetchKeeps DEF Step
<1>6. CASE SessionChanges \/ GateChanges
  <2>1. cookie' = cookie /\ moved' = moved /\ tab' = tab
    BY <1>6 DEF SessionChanges, GateChanges
  <2>2. signedIn' \in BOOLEAN /\ paused' \in BOOLEAN
    BY <1>6 DEF SessionChanges, GateChanges, IInv, TypeOK
  <2>3. TypeOK'  BY <2>1, <2>2 DEF IInv, TypeOK
  <2>4. \A t \in Tabs : Sound(tab'[t], cookie')  BY <2>1 DEF IInv
  <2> QED  BY <2>3, <2>4 DEF IInv
<1> QED  BY <1>1, <1>2, <1>3, <1>4, <1>5, <1>6 DEF Next

LEMMA InvariantHolds == Spec => []IInv
<1>1. Init => IInv  BY InitEstablishes
<1>2. IInv /\ [Next]_vars => IInv'  BY StepKeeps
<1> QED  BY <1>1, <1>2, PTL DEF Spec

----------------------------------------------------------------------------
\* Every variable keeps its type: cookies, cached redirects and tabs, whatever
\* seoMiddleware and the routes answer.
THEOREM TypeCorrect == Spec => []TypeOK
<1>1. IInv => TypeOK  BY DEF IInv
<1> QED  BY <1>1, InvariantHolds, PTL

\* The list of budget.ts and the redirects of seo.ts agree: no redirect leads
\* a visit that began at a public page or at /auth behind the gate.
THEOREM PublicNeverPaused == Spec => []PublicStaysOpen
<1>1. IInv => PublicStaysOpen  BY DEF IInv, Sound, PublicStaysOpen
<1> QED  BY <1>1, InvariantHolds, PTL

\* The switch link of views/layout.tsx and GET /lang lead to the language
\* asked for, however sessions and the gate interfere, until another tab sets
\* the cookie; the one exception is a switch that leads home over a redirect
\* the browser has kept.
THEOREM SwitchReachesLanguage == Spec => []SwitchWorks
<1>1. IInv => SwitchWorks  BY DEF IInv, Sound, SwitchWorks
<1> QED  BY <1>1, InvariantHolds, PTL

\* Every address of the sitemap is answered at once in its language.
THEOREM SitemapIsServed == Spec => []SitemapIsCanonical
<1>1. TypeOK => SitemapIsCanonical
  <2> SUFFICES ASSUME TypeOK, NEW p \in Sitemap
               PROVE  Respond(p, Home) = Shown(Head(p.prefix), Head(p.prefix))
    BY DEF SitemapIsCanonical
  <2>7. PICK l \in Langs : p.prefix = <<l>>  BY DEF Sitemap
  <2>1. /\ <<l>> \in Prefixes /\ <<l>> # <<>> /\ Len(<<l>>) = 1
        /\ Head(<<l>>) = l
    BY ShortPrefixes
  <2>2. p \in Paths  BY <2>1, <2>7 DEF Sitemap, Paths, Pages
  <2>3. p.prefix = <<l>> /\ p.page \in Public /\ ~p.slash
    BY <2>7 DEF Sitemap
  <2>4. IsStaticPage(p)  BY <2>1, <2>3 DEF IsStaticPage
  <2>5. Respond(p, Home) = Prefixed(p)  BY <2>1, <2>3, <2>4 DEF Respond
  <2>6. Prefixed(p) = Shown(Head(p.prefix), Head(p.prefix))
    BY <2>1, <2>2, <2>3, PrefixedAnswer
  <2> QED  BY <2>5, <2>6
<1> QED  BY <1>1, TypeCorrect, PTL

----------------------------------------------------------------------------
(* Visits end: the part of VisitsEnd that is not fairness.                 *)

\* The redirects that can still follow for a path that is not the switch's:
\* a public page is one from its canonical path, another page gives up its
\* prefixes one by one, and the dashboard may send to /auth.
Redirects(p) ==
    IF p.page \in Public
    THEN IF Len(p.prefix) = 1 /\ ~p.slash THEN 0 ELSE 1
    ELSE Len(p.prefix) + (IF p.page = "/dashboard" THEN 1 ELSE 0)

\* The switch leads back to where the request came from.
Hops(p, from) ==
    IF p.page \in Switches THEN Len(p.prefix) + 1 + Redirects(from)
                           ELSE Redirects(p)

HopsLeft(t) == Hops(tab[t].url, tab[t].from)

\* A tab that follows a redirect has fewer before it, and nothing but its own
\* requests moves it.
VisitsAdvance ==
    [][\A t \in Tabs : tab[t].pc = "going" =>
          IF Step(t) THEN tab'[t].pc = "going" => HopsLeft(t)' < HopsLeft(t)
          ELSE tab'[t].pc = "going" /\ HopsLeft(t)' = HopsLeft(t)]_vars

\* Nobody follows the link of a switch from a switch.
BackToPages ==
    \A t \in Tabs :
       tab[t].pc = "going" => tab[t].from.page \in Public \/ PlainShown(tab[t].from)

LEMMA PageKinds ==
    /\ \A l \in Langs : SwitchTo(l) \in Switches
    /\ \A x \in Public : x \notin Switches /\ x # "/dashboard"
    /\ "/auth" \notin Switches /\ "/auth" \notin Public
    /\ "/dashboard" \notin Switches /\ "/dashboard" \notin Public
    /\ "/" \in Public
BY DEF Switches, SwitchTo, Public, Langs

LEMMA PrefixLength ==
    ASSUME NEW x \in Prefixes
    PROVE  /\ Len(x) \in 0 .. 2 /\ (x = <<>> <=> Len(x) = 0)
           /\ x # <<>> => Len(Tail(x)) = Len(x) - 1
<1>1. CASE x = <<>>
  BY <1>1
<1>2. CASE x # <<>>
  <2>1. Len(x) \in 1 .. 2  BY <1>2, PrefixParts
  <2>2. CASE \E l \in Langs : x = <<l>>
    <3>1. PICK l \in Langs : x = <<l>>  BY <2>2
    <3>2. Len(x) = 1 /\ Len(Tail(x)) = 0  BY <3>1
    <3> QED  BY <1>2, <3>2
  <2>3. CASE x \in Langs \X Langs
    <3>1. PICK l \in Langs, m \in Langs : x = <<l, m>>  BY <2>3
    <3>2. Len(x) = 2 /\ Len(Tail(x)) = 1  BY <3>1
    <3> QED  BY <1>2, <3>2
  <2> QED  BY <1>2, <2>2, <2>3 DEF Prefixes
<1> QED  BY <1>1, <1>2

LEMMA RedirectsType ==
    ASSUME NEW p \in Paths
    PROVE  /\ Redirects(p) \in 0 .. 3
           /\ p.page \in Public \/ PlainShown(p) => Redirects(p) \in 0 .. 1
<1>1. PICK n \in 0 .. 2 : n = Len(p.prefix) /\ (p.prefix = <<>> => n = 0)
  BY PrefixLength DEF Paths
<1>2. CASE p.page \in Public
  <2>1. Redirects(p) = 0 \/ Redirects(p) = 1  BY <1>2 DEF Redirects
  <2> QED  BY <2>1
<1>3. CASE p.page \notin Public
  <2>1. Redirects(p) = n + 0 \/ Redirects(p) = n + 1
    BY <1>1, <1>3 DEF Redirects
  <2>2. PlainShown(p) => n = 0  BY <1>1 DEF PlainShown
  <2>3. Redirects(p) \in 0 .. 3 /\ (n = 0 => Redirects(p) \in 0 .. 1)  BY <2>1
  <2> QED  BY <1>3, <2>2, <2>3
<1> QED  BY <1>2, <1>3

LEMMA HopsType ==
    ASSUME NEW p \in Paths, NEW from \in Paths,
           from.page \in Public \/ PlainShown(from)
    PROVE  Hops(p, from) \in 0 .. 4
<1>1. PICK n \in 0 .. 2 : n = Len(p.prefix)  BY PrefixLength DEF Paths
<1>2. PICK i \in 0 .. 3 : i = Redirects(p)  BY RedirectsType
<1>3. PICK j \in 0 .. 1 : j = Redirects(from)  BY RedirectsType
<1>4. Hops(p, from) = n + 1 + j \/ Hops(p, from) = i
  BY <1>1, <1>2, <1>3 DEF Hops
<1> QED  BY <1>4

\* Every redirect of the chain leads nearer to an answer that is none.
LEMMA RedirectsLead ==
    ASSUME TypeOK, NEW p \in Paths, NEW from \in Paths,
           from.page \notin Switches, Respond(p, from).kind = "moved"
    PROVE  Hops(Respond(p, from).to, from) < Hops(p, from)
<1>1. PICK a : a = Respond(p, from)  OBVIOUS
<1>2. PICK n : n = Len(p.prefix)  OBVIOUS
<1>3. /\ p.prefix \in Prefixes /\ p.page \in Pages
      /\ n \in 0 .. 2 /\ (p.prefix = <<>> <=> n = 0)
      /\ n # 0 => Len(Tail(p.prefix)) = n - 1
  BY <1>2, PrefixLength DEF Paths
<1>4. Redirects(from) \in 0 .. 3 /\ Hops(from, from) = Redirects(from)
  BY RedirectsType DEF Hops
<1>5. ~(paused /\ ~IsStaticPage(p))
  <2>1. Refused.kind = "refused"  BY AnswerForms
  <2> QED  BY <2>1 DEF Respond
<1>6. CASE p.prefix # <<>>
  <2>1. a = Prefixed(p) /\ a.kind = "moved"  BY <1>1, <1>5, <1>6 DEF Respond
  <2>2. CASE n > 1 \/ p.page \notin Public
    <3>1. /\ a.to.page = p.page /\ ~a.to.slash /\ a.to.prefix = Tail(p.prefix)
      BY <1>2, <2>1, <2>2 DEF Prefixed, Moved, Path
    <3>2. Len(a.to.prefix) = n - 1  BY <1>3, <1>6, <3>1
    <3>3. CASE p.page \in Public
      <4>1. n = 2 /\ n - 1 = 1  BY <1>3, <2>2, <3>3
      <4>2. Redirects(a.to) = 0 /\ Redirects(p) = 1
        BY <1>2, <3>1, <3>2, <3>3, <4>1 DEF Redirects
      <4> QED  BY <1>1, <3>1, <3>3, <4>2, PageKinds DEF Hops
    <3>4. CASE p.page \notin Public
      <4>1. PICK b \in 0 .. 1 : b = IF p.page = "/dashboard" THEN 1 ELSE 0
        OBVIOUS
      <4>2. Redirects(p) = n + b /\ Redirects(a.to) = (n - 1) + b
        BY <1>2, <3>1, <3>2, <3>4, <4>1 DEF Redirects
      <4>3. CASE p.page \in Switches
        <5>1. /\ Hops(p, from) = n + 1 + Redirects(from)
              /\ Hops(a.to, from) = (n - 1) + 1 + Redirects(from)
          BY <1>2, <3>1, <3>2, <4>3 DEF Hops
        <5> QED  BY <1>1, <1>3, <1>4, <5>1
      <4>4. CASE p.page \notin Switches
        <5>1. Hops(p, from) = n + b /\ Hops(a.to, from) = (n - 1) + b
          BY <3>1, <4>2, <4>4 DEF Hops
        <5> QED  BY <1>1, <1>3, <4>1, <5>1
      <4> QED  BY <4>3, <4>4
    <3> QED  BY <3>3, <3>4
  <2>3. CASE ~(n > 1 \/ p.page \notin Public)
    <3>1. n = 1 /\ p.page \in Public  BY <1>3, <1>6, <2>3
    <3>2. p.slash
      <4>1. ~p.slash => a = Shown(Head(p.prefix), Head(p.prefix))
        BY <1>2, <2>1, <2>3 DEF Prefixed
      <4> QED  BY <2>1, <4>1 DEF Shown
    <3>3. a.to = [p EXCEPT !.slash = FALSE]
      BY <1>2, <2>1, <2>3, <3>2 DEF Prefixed, Moved
    <3>4. a.to.page = p.page /\ ~a.to.slash /\ a.to.prefix = p.prefix
      BY <3>3 DEF Paths
    <3>5. Redirects(a.to) = 0 /\ Redirects(p) = 1
      BY <1>2, <3>1, <3>2, <3>4 DEF Redirects
    <3> QED  BY <1>1, <3>1, <3>4, <3>5, PageKinds DEF Hops
  <2> QED  BY <2>2, <2>3
<1>7. CASE p.prefix = <<>> /\ p.page \in Public /\ ~p.slash
  <2>1. a = Unprefixed(p)  BY <1>1, <1>5, <1>7 DEF Respond
  <2>2. a.to.prefix = <<LangFromReq>> /\ a.to.page = p.page /\ ~a.to.slash
    BY <1>7, <2>1, UnprefixedAnswer
  <2>3. Len(a.to.prefix) = 1  BY <2>2
  <2>4. Redirects(a.to) = 0 /\ Redirects(p) = 1
    BY <1>2, <1>3, <1>7, <2>2, <2>3 DEF Redirects
  <2> QED  BY <1>1, <1>7, <2>2, <2>4, PageKinds DEF Hops
<1>8. CASE p.prefix = <<>> /\ ~(p.page \in Public /\ ~p.slash)
  <2>1. a = Route(p, from) /\ a.kind = "moved"  BY <1>1, <1>5, <1>8 DEF Respond
  <2>2. ~p.slash  BY <2>1 DEF Route, Missing
  <2>3. CASE p.page \in Switches
    <3>1. PICK l \in Langs : p.page = SwitchTo(l)  BY <2>3 DEF Switches
    <3>2. a.to = from  BY <2>1, <2>2, <3>1, RouteAnswer
    <3>3. Hops(p, from) = 1 + Redirects(from)
      BY <1>2, <1>3, <1>4, <1>8, <2>3 DEF Hops
    <3> QED  BY <1>1, <1>4, <3>2, <3>3
  <2>4. CASE p.page \notin Switches
    <3>1. /\ a.to.page = "/auth" /\ ~a.to.slash /\ a.to.prefix = <<>>
          /\ p.page = "/dashboard"
      BY <2>1, <2>4, RouteAnswer
    <3>2. Redirects(a.to) = 0 /\ Redirects(p) = 1
      BY <1>2, <1>3, <1>8, <3>1, PageKinds DEF Redirects
    <3> QED  BY <1>1, <2>4, <3>1, <3>2, PageKinds DEF Hops
  <2> QED  BY <2>3, <2>4
<1> QED  BY <1>6, <1>7, <1>8

\* The cached redirect is the one from a public page to its language.
LEMMA FollowedNearer ==
    ASSUME IInv, NEW t \in Tabs, FollowCached(t)
    PROVE  /\ tab'[t].pc = "going" /\ tab'[t].from = tab[t].from
           /\ HopsLeft(t)' < HopsLeft(t)
<1> DEFINE s == tab[t]
           p == s.url
           q == Path(<<moved[p.page]>>, p.page, FALSE)
<1>1. /\ s \in TabStates /\ s.pc = "going" /\ p.prefix = <<>>
      /\ p.page \in Public /\ tab \in [Tabs -> TabStates]
  BY DEF IInv, TypeOK, FollowCached, Cached
<1>2. q.prefix = <<moved[p.page]>> /\ q.page = p.page /\ ~q.slash  BY DEF Path
<1>3. Len(<<moved[p.page]>>) = 1 /\ Len(<<>>) = 0  OBVIOUS
<1>4. [Answered(s, Moved(q, TRUE, "none")) EXCEPT !.kept = TRUE]
         = [s EXCEPT !.url = q, !.kept = TRUE]
  BY DEF Answered, Moved
<1>5. tab' = [tab EXCEPT ![t] = [s EXCEPT !.url = q, !.kept = TRUE]]
  BY <1>4 DEF FollowCached
<1> HIDE DEF q
<1>6. tab'[t].pc = "going" /\ tab'[t].url = q /\ tab'[t].from = s.from
  BY <1>1, <1>5 DEF TabStates
<1>7. Redirects(q) = 0 /\ Redirects(p) = 1
  BY <1>1, <1>2, <1>3 DEF Redirects
<1>8. Hops(q, s.from) = 0 /\ Hops(p, s.from) = 1
  BY <1>1, <1>2, <1>7, PageKinds DEF Hops
<1> QED  BY <1>6, <1>8 DEF HopsLeft

\* What the server answers to a tab ends its visit or leads nearer to the end.
LEMMA FetchedNearer ==
    ASSUME IInv, BackToPages, NEW t \in Tabs, Fetch(t), tab'[t].pc = "going"
    PROVE  tab'[t].from = tab[t].from /\ HopsLeft(t)' < HopsLeft(t)
<1> DEFINE s == tab[t]
           a == Respond(s.url, s.from)
<1>1. /\ s \in TabStates /\ s.pc = "going" /\ s.url \in Paths /\ s.from \in Paths
      /\ s.from.page \notin Switches
  BY PageKinds DEF IInv, TypeOK, Fetch, TabStates, BackToPages, PlainShown
<1>2. IsAnswer(a)  BY <1>1, RespondAnswer DEF IInv
<1>3. tab'[t] = Answered(s, a)  BY DEF Fetch
<1>4. a.kind = "moved"
  <2>1. a.kind = "shown" => tab'[t].pc = "shown"
    BY <1>3, BlankTab DEF Answered, TabStates
  <2>2. a.kind \in {"refused", "missing"} => tab'[t].pc = a.kind
    BY <1>3, BlankTab DEF Answered, TabStates
  <2> QED  BY <1>2, <2>1, <2>2 DEF IsAnswer
<1>5. tab'[t] = [s EXCEPT !.url = a.to]  BY <1>3, <1>4 DEF Answered
<1>6. tab'[t].url = a.to /\ tab'[t].from = s.from  BY <1>1, <1>5 DEF TabStates
<1>7. Hops(a.to, s.from) < Hops(s.url, s.from)
  BY <1>1, <1>4, RedirectsLead DEF IInv
<1> QED  BY <1>6, <1>7 DEF HopsLeft

\* A visit under way is moved by its own requests only: other tabs' answers
\* may end its wish, a link is followed in a tab that has arrived.
LEMMA VisitRests ==
    ASSUME IInv, [Next]_vars, NEW u \in Tabs, tab[u].pc = "going", ~Step(u)
    PROVE  /\ tab'[u].pc = "going" /\ tab'[u].url = tab[u].url
           /\ tab'[u].from = tab[u].from
<1>1. tab[u] \in TabStates /\ tab \in [Tabs -> TabStates]  BY DEF IInv, TypeOK
<1>2. CASE tab' = tab  BY <1>2
<1>3. ASSUME NEW t \in Tabs, NEW s, tab[t].pc # "going" \/ t # u,
             tab' = [tab EXCEPT ![t] = s]
      PROVE  tab'[u] = tab[u]
  BY <1>1, <1>3
<1>4. ASSUME NEW t \in Tabs, NEW p, NEW from, NEW want, Go(t, p, from, want)
      PROVE  tab'[u] = tab[u]
  BY <1>3, <1>4 DEF Go
<1>5. ASSUME NEW t \in Tabs, Visit(t) \/ ClickSwitch(t) \/ Logout(t)
      PROVE  tab'[u] = tab[u]
  BY <1>4, <1>5 DEF Visit, ClickSwitch, Logout
<1>6. ASSUME NEW t \in Tabs, FollowCached(t) PROVE tab'[u] = tab[u]
  <2>1. t # u  BY <1>6 DEF Step
  <2> QED  BY <1>3, <1>6, <2>1 DEF FollowCached
<1>7. ASSUME NEW t \in Tabs, Fetch(t)
      PROVE  tab'[u] = tab[u] \/ tab'[u] = [tab[u] EXCEPT !.want = "none"]
  <2>1. t # u  BY <1>7 DEF Step
  <2> QED  BY <1>7, <2>1 DEF Fetch
<1>8. [tab[u] EXCEPT !.want = "none"].pc = tab[u].pc
      /\ [tab[u] EXCEPT !.want = "none"].url = tab[u].url
      /\ [tab[u] EXCEPT !.want = "none"].from = tab[u].from
  BY <1>1 DEF TabStates
<1> QED
  <2>1. CASE UNCHANGED vars \/ SessionChanges \/ GateChanges
    BY <1>2, <2>1 DEF vars, SessionChanges, GateChanges
  <2>2. ASSUME NEW t \in Tabs,
               Visit(t) \/ ClickSwitch(t) \/ Logout(t) \/ Step(t)
        PROVE  tab'[u] = tab[u] \/ tab'[u] = [tab[u] EXCEPT !.want = "none"]
    BY <1>5, <1>6, <1>7, <2>2 DEF Step
  <2>3. ASSUME tab'[u] = tab[u] \/ tab'[u] = [tab[u] EXCEPT !.want = "none"]
        PROVE  /\ tab'[u].pc = "going" /\ tab'[u].url = tab[u].url
               /\ tab'[u].from = tab[u].from
    BY <1>8, <2>3
  <2> QED  BY <2>1, <2>2, <2>3 DEF Next

\* A visit starts from the page its link stood on, or from the home page.
LEMMA BackStarts ==
    ASSUME IInv, NEW u \in Tabs, tab[u].pc # "going", [Next]_vars,
           tab'[u].pc = "going"
    PROVE  tab'[u].from.page \in Public \/ PlainShown(tab'[u].from)
<1>1. tab[u] \in TabStates /\ tab \in [Tabs -> TabStates]  BY DEF IInv, TypeOK
<1>2. tab' # tab  OBVIOUS
<1>3. ASSUME NEW t \in Tabs, NEW p, NEW from, NEW want, Go(t, p, from, want)
      PROVE  u = t /\ tab'[u].from = from
  <2>1. u = t  BY <1>1, <1>3 DEF Go
  <2>2. tab'[u] = [Blank EXCEPT !.pc = "going", !.url = p, !.from = from,
                                !.open = AlwaysOpen(p), !.want = want]
    BY <1>1, <1>3, <2>1 DEF Go
  <2> QED  BY <2>1, <2>2, BlankTab DEF TabStates
<1>4. Home.page \in Public  BY PageKinds DEF Home, Path
<1>5. ASSUME NEW t \in Tabs, Visit(t) \/ Logout(t)
      PROVE  tab'[u].from = Home
  BY <1>3, <1>5 DEF Visit, Logout
<1>6. ASSUME NEW t \in Tabs, ClickSwitch(t)
      PROVE  tab'[u].from.page \in Public \/ PlainShown(tab'[u].from)
  <2>1. u = t /\ tab'[u].from \in WayBack(tab[u].url) /\ tab[u].pc = "shown"
    BY <1>3, <1>6 DEF ClickSwitch
  <2> QED  BY <1>4, <2>1 DEF IInv, Sound, WayBack
<1>7. ASSUME NEW t \in Tabs, Step(t) PROVE tab'[u].pc # "going"
  <2>1. t # u  BY <1>7 DEF Step, FollowCached, Fetch
  <2>2. CASE FollowCached(t)
    <3>1. tab'[u] = tab[u]  BY <1>1, <2>1, <2>2 DEF FollowCached
    <3> QED  BY <3>1
  <2>3. CASE Fetch(t)
    <3>1. tab'[u] = tab[u] \/ tab'[u] = [tab[u] EXCEPT !.want = "none"]
      BY <2>1, <2>3 DEF Fetch
    <3> QED  BY <1>1, <3>1 DEF TabStates
  <2> QED  BY <1>7, <2>2, <2>3 DEF Step
<1> QED
  BY <1>2, <1>4, <1>5, <1>6, <1>7
     DEF Next, vars, SessionChanges, GateChanges

LEMMA BackKept == IInv /\ BackToPages /\ [Next]_vars => BackToPages'
<1> SUFFICES ASSUME IInv, BackToPages, [Next]_vars, NEW u \in Tabs,
                    tab'[u].pc = "going"
             PROVE  tab'[u].from.page \in Public \/ PlainShown(tab'[u].from)
  BY DEF BackToPages
<1>1. CASE tab[u].pc # "going"  BY <1>1, BackStarts
<1>2. CASE tab[u].pc = "going"
  <2>1. tab'[u].from = tab[u].from
    BY <1>2, VisitRests, FollowedNearer, FetchedNearer DEF Step
  <2> QED  BY <1>2, <2>1 DEF BackToPages
<1> QED  BY <1>1, <1>2

\* Every redirect of seo.ts, of lang.ts and of the sign-in brings a visit
\* nearer to its end, and no visit meets more than four, whatever the cache,
\* the session, the gate and the other tabs do in between: what VisitsEnd
\* needs beside a browser that goes on following them.
THEOREM VisitsAreShort ==
    Spec => /\ [](\A t \in Tabs : tab[t].pc = "going" => HopsLeft(t) \in 0 .. 4)
            /\ VisitsAdvance
<1> DEFINE Short == \A t \in Tabs : tab[t].pc = "going" => HopsLeft(t) \in 0 .. 4
           Advance == \A t \in Tabs : tab[t].pc = "going" =>
                         IF Step(t)
                         THEN tab'[t].pc = "going" => HopsLeft(t)' < HopsLeft(t)
                         ELSE tab'[t].pc = "going" /\ HopsLeft(t)' = HopsLeft(t)
<1>1. Init => BackToPages
  <2> SUFFICES ASSUME Init, NEW t \in Tabs PROVE tab[t].pc # "going"
    BY DEF BackToPages
  <2> QED  BY BlankTab DEF Init
<1>2. IInv /\ BackToPages /\ [Next]_vars => BackToPages'  BY BackKept
<1>3. IInv /\ BackToPages => Short
  BY HopsType DEF IInv, TypeOK, TabStates, BackToPages, HopsLeft
<1>4. IInv /\ BackToPages /\ [Next]_vars => Advance
  <2> SUFFICES ASSUME IInv, BackToPages, [Next]_vars, NEW t \in Tabs,
                      tab[t].pc = "going"
               PROVE  IF Step(t)
                      THEN tab'[t].pc = "going" => HopsLeft(t)' < HopsLeft(t)
                      ELSE tab'[t].pc = "going" /\ HopsLeft(t)' = HopsLeft(t)
    OBVIOUS
  <2>1. CASE Step(t)  BY <2>1, FollowedNearer, FetchedNearer DEF Step
  <2>2. CASE ~Step(t)
    BY <2>2, VisitRests DEF HopsLeft
  <2> QED  BY <2>1, <2>2
<1>5. Spec => [](IInv /\ BackToPages)
  BY <1>1, <1>2, InvariantHolds, PTL DEF Spec
<1>6. VisitsAdvance <=> [][Advance]_vars  BY PTL DEF VisitsAdvance
<1> HIDE DEF Short, Advance
<1> QED  BY <1>3, <1>4, <1>5, <1>6, PTL DEF Spec, Short
=============================================================================
