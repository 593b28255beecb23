-------------------------------- MODULE Locale --------------------------------
(***************************************************************************)
(* The language of the website during a visit: the document that the       *)
(* server prerendered (entry-server.tsx), the router of the hydrated page  *)
(* (modules/createI18N.ts, modules/useLanguageHref.ts), and the effect     *)
(* that carries the router's language to the document                      *)
(* (components/organisms/Head.tsx).                                        *)
(*                                                                         *)
(* A path is the sequence of its segments: "/" is <<"">>, "/en" is         *)
(* <<"en">>, "/en/" is <<"en", "">>.                                       *)
(***************************************************************************)
EXTENDS Naturals, Sequences, SiteInputs

(* prerender:routes adds every page without and with each language. *)
PrerenderedPaths == {<<p>> : p \in Pages} \cup {<<l, p>> : l \in Languages, p \in Pages}

(* "/en" is "/en/" to the web server: a visitor may come by either. *)
Paths == PrerenderedPaths \cup {<<l>> : l \in Languages}
Served(path) == IF path \in PrerenderedPaths THEN path ELSE <<path[1], "">>

NotHydrated == <<>>
NoNavigation == <<>>

VARIABLES
    url,       \* the path in the address bar
    lang,      \* the lang attribute of the document
    location,  \* the router's path, NotHydrated before hydration
    pending,   \* where a client navigation in progress leads
    effect     \* whether the effect of Head.tsx is scheduled

vars == <<url, lang, location, pending, effect>>

TypeOK ==
    /\ url \in Paths
    /\ lang \in Languages
    /\ location \in Paths \cup {NotHydrated}
    /\ pending \in Paths \cup {NoNavigation}
    /\ effect \in BOOLEAN

(* The server: the first segment, when it is a language. *)
ResolveLanguage(path) == IF path[1] \in Languages THEN path[1] ELSE Fallback

(* The client: the route's parameter [[language]], when the path has one. *)
UseLanguage(path) == IF Len(path) > 1 \/ path[1] \notin Pages THEN path[1] ELSE Fallback

StripLanguageSegment(path) == IF path[1] \in Languages THEN Tail(path) ELSE path

LanguageHref(target, path) == <<target>> \o StripLanguageSegment(path)

UnprefixedHref(path) ==
    IF StripLanguageSegment(path) = <<>> THEN <<"">> ELSE StripLanguageSegment(path)

(* The prerendered document of a path: its effects have not run. *)
Document(path) ==
    /\ url' = path
    /\ lang' = ResolveLanguage(path)
    /\ location' = NotHydrated
    /\ pending' = NoNavigation
    /\ effect' = FALSE

Init ==
    /\ url \in Paths
    /\ lang = ResolveLanguage(url)
    /\ location = NotHydrated
    /\ pending = NoNavigation
    /\ effect = FALSE

-----------------------------------------------------------------------------
(* A link from elsewhere, the address bar, a reload. *)
Load(path) == Document(path)

(* StartClient: the router takes the path; the effect runs after that. *)
Hydrate ==
    /\ location = NotHydrated
    /\ location' = url
    /\ effect' = TRUE
    /\ UNCHANGED <<url, lang, pending>>

(* The path that the links of the page were rendered for. *)
Rendered == IF location = NotHydrated THEN url ELSE location

(***************************************************************************)
(* A click on an entry of the language menu.  Before hydration it is a     *)
(* plain link and loads a document; then it is a navigation of the router, *)
(* which replaces one that is still in progress (whether a link to the     *)
(* page that is shown does, too, is left to the router).                   *)
(***************************************************************************)
SwitchLanguage(target) ==
    LET href == LanguageHref(target, Rendered)
    IN  IF location = NotHydrated THEN Document(href)
        ELSE /\ pending' \in IF href = location THEN {href, pending} ELSE {href}
             /\ UNCHANGED <<url, lang, location, effect>>

(* Back or forward: the address changes at once, the router follows. *)
Traverse(path) ==
    /\ location # NotHydrated
    /\ url' = path
    /\ pending' = path
    /\ UNCHANGED <<lang, location, effect>>

(* MUTANT of Navigate: the effect does not depend on the language. *)
NavigateUntracked ==
    /\ pending # NoNavigation
    /\ location' = pending
    /\ url' = pending
    /\ pending' = NoNavigation
    /\ UNCHANGED <<lang, effect>>

(* The router's transition ends; useLanguage() notifies if it changed. *)
Navigate ==
    /\ pending # NoNavigation
    /\ location' = pending
    /\ url' = pending
    /\ pending' = NoNavigation
    /\ effect' = (effect \/ UseLanguage(pending) # UseLanguage(location))
    /\ UNCHANGED lang

(* document.documentElement.lang = language() *)
EffectRuns ==
    /\ effect
    /\ lang' = UseLanguage(location)
    /\ effect' = FALSE
    /\ UNCHANGED <<url, location, pending>>

-----------------------------------------------------------------------------
Visitor ==
    \/ \E path \in Paths : Load(path) \/ Traverse(path)
    \/ \E target \in Languages : SwitchLanguage(target)
Page == Hydrate \/ Navigate \/ EffectRuns

Next == Visitor \/ Page

Spec == Init /\ [][Next]_vars

(* The page's own work is done eventually; nothing forces the visitor. *)
FairSpec == Spec /\ WF_vars(Page)

-----------------------------------------------------------------------------
(***************************************************************************)
(* Whatever navigations replaced one another, a document whose language is *)
(* not the one of the page it shows has the effect still to come           *)
(* (Head.tsx:31-36).                                                       *)
(***************************************************************************)
SettledLanguage == lang # UseLanguage(Rendered) => effect

(***************************************************************************)
(* The server reads the language from the path, the client from the route: *)
(* when a page is hydrated they agree, so that hydration never changes the *)
(* language of the first paint (entry-server.tsx:11-24, Head.tsx:34-36).   *)
(***************************************************************************)
HydrationAgrees ==
    [][location = NotHydrated /\ location' # NotHydrated
         => lang = UseLanguage(location')]_vars

(***************************************************************************)
(* The alternate links of every page that a visit reaches lead to          *)
(* prerendered pages of the right language, and they are reciprocal: each  *)
(* alternate offers the same alternates (Head.tsx:47-52), but for the      *)
(* slash after a language that is the whole path.                          *)
(***************************************************************************)
SameAlternates(path, other) ==
    /\ UnprefixedHref(other) = UnprefixedHref(path)
    /\ \A l \in Languages : Served(LanguageHref(l, other)) = Served(LanguageHref(l, path))

HasAlternates(path) ==
    /\ UnprefixedHref(path) \in PrerenderedPaths
    /\ SameAlternates(path, UnprefixedHref(path))
    /\ \A l \in Languages :
         /\ LanguageHref(l, path) \in Paths
         /\ ResolveLanguage(LanguageHref(l, path)) = l
         /\ SameAlternates(path, LanguageHref(l, path))

AlternatesReciprocal == HasAlternates(Rendered)

(***************************************************************************)
(* Once the visitor stops clicking, the address, the page shown and the    *)
(* document's language come to agree, whatever was in progress.            *)
(***************************************************************************)
LanguageSettles ==
    <>[][Page]_vars => <>[](location = url /\ lang = UseLanguage(url))
=============================================================================
