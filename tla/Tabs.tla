-------------------------------- MODULE Tabs --------------------------------
(* The page of the web application: Tab of hometab.js loads the page of a  *)
(* tab with loadPage of page.js, which runs the scripts of that page.  The *)
(* script of "home" is part of its page.  Those of "online" (online/       *)
(* index.js) and "demo" (demo.js), and xplayer.js which both need, are     *)
(* files: the browser asks for them whenever the page is shown, and goes   *)
(* on without those it cannot have.  Each of the two scripts keeps an      *)
(* IPlayer, which is a Playback here.                                      *)
(*                                                                         *)
(* A script sets onCreate and onDestory on the page of Tab.current, and    *)
(* makes its object Online or Demo anew.  An exception ends the handler of *)
(* a click: that of stop() while a player connects, or of a missing        *)
(* element, object or class.                                               *)
EXTENDS Naturals

CONSTANT MaxClicks   \* bound: clicks of the user

ASSUME TabsAssumption == MaxClicks \in Nat

Tabs == {"home", "online", "demo"}
Scripts == {"online", "demo"}    \* pages whose scripts are files
NoScript == "none"
None == 0
Players == 1 .. MaxClicks + 1

VARIABLES
    current,   \* Tab.current
    content,   \* the tab whose page is in #content
    handlers,  \* page of a tab: the page whose script set its onCreate and onDestory
    cached,    \* tabs whose page has a body
    loading,   \* requests of loadPage under way
    world,     \* the objects of the scripts and the players they have made
    clicks,
    failed,    \* history: tabs of which a request failed since they were clicked
    scriptless,  \* history: the page on show came without its script
    astray     \* history: a page came when its tab was not current, or came
               \* twice, or was used while its tab was not current

vars == <<current, content, handlers, cached, loading, world, clicks, failed,
          scriptless, astray>>

Phases == {"stopped", "connecting", "streaming", "waiting", "lost"}

Worlds ==
    [player : [Scripts -> Players \cup {None}],   \* Online.player, Demo.player
     demoNull : BOOLEAN,                          \* Demo is null
     wsUrlNull : BOOLEAN,                         \* Demo.wsUrl is null
     iPlayer : BOOLEAN,                           \* xplayer.js has run
     phase : [Players -> Phases],
     made : Players \cup {None}]                  \* the last player

TypeOK ==
    /\ current \in Tabs
    /\ content \in Tabs \cup {NoScript}
    /\ handlers \in [Tabs -> Tabs \cup {NoScript}]
    /\ cached \subseteq Tabs
    /\ loading \in [Tabs -> 0 .. MaxClicks + 1]
    /\ world \in Worlds
    /\ clicks \in 0 .. MaxClicks
    /\ failed \subseteq Tabs
    /\ scriptless \in BOOLEAN
    /\ astray \in BOOLEAN

(* hometab.js has clicked the first tab. *)
Init ==
    /\ current = "home" /\ content = NoScript
    /\ handlers = [t \in Tabs |-> NoScript]
    /\ cached = {} /\ loading = [t \in Tabs |-> IF t = "home" THEN 1 ELSE 0]
    /\ world = [player |-> [s \in Scripts |-> None], demoNull |-> TRUE, wsUrlNull |-> FALSE,
                iPlayer |-> FALSE, phase |-> [q \in Players |-> "stopped"], made |-> None]
    /\ clicks = 0 /\ failed = {} /\ scriptless = FALSE /\ astray = FALSE

-----------------------------------------------------------------------------
(* What the scripts do.  w is the world before. *)

(* stop() of the player of a script throws while it connects. *)
StopThrows(w, s) == w.player[s] # None /\ w.phase[w.player[s]] = "connecting"

(* pause() in the place of stop(). *)
StopPlayer_Pauses(w, s) ==
    IF w.player[s] = None \/ StopThrows(w, s) THEN w
    ELSE [w EXCEPT !.phase[w.player[s]] = "paused"]

(* stop() leaves the retries of the player running. *)
StopPlayer_Waits(w, s) ==
    IF w.player[s] = None \/ StopThrows(w, s) THEN w
    ELSE [w EXCEPT !.phase[w.player[s]] = IF @ = "waiting" THEN @ ELSE "stopped"]

StopPlayer(w, s) ==
    IF w.player[s] = None \/ StopThrows(w, s) THEN w
    ELSE [w EXCEPT !.phase[w.player[s]] = "stopped"]

(* A new IPlayer that is played at once, unless there is no such class.    *)
(* Without the address of its socket, the constructor of WebSocket throws  *)
(* in play().                                                              *)
MakePlayer(w, s, reachable) ==
    IF ~w.iPlayer THEN w
    ELSE [w EXCEPT !.made = @ + 1, !.player[s] = w.made + 1,
                   !.phase[w.made + 1] = IF reachable THEN "connecting" ELSE "lost"]

OnlinePlay(w, found) ==
    CASE StopThrows(w, "online") -> w
      [] w.player["online"] = None -> IF found THEN MakePlayer(w, "online", TRUE) ELSE w
      [] OTHER -> [w EXCEPT !.phase[w.player["online"]] = "connecting"]

DemoPlay(w) ==
    IF w.demoNull \/ StopThrows(w, "demo") THEN w
    ELSE MakePlayer(StopPlayer(w, "demo"), "demo", ~w.wsUrlNull)

DemoStop(w) ==
    IF w.demoNull \/ w.player["demo"] = None \/ StopThrows(w, "demo") THEN w
    ELSE [StopPlayer(w, "demo") EXCEPT !.wsUrlNull = TRUE]

DemoDestroy(w) == [DemoStop(w) EXCEPT !.demoNull = TRUE]

(* Demo is made by the first run of its script alone. *)
RunScript_Once(w, t) ==
    CASE t = "online" -> [w EXCEPT !.player["online"] = None]
      [] t = "demo" -> [w EXCEPT !.player["demo"] = None,
                                 !.demoNull = @ /\ w.made = None, !.wsUrlNull = FALSE]
      [] OTHER -> w

(* The script of a page makes its object anew. *)
RunScript(w, t) ==
    CASE t = "online" -> [w EXCEPT !.player["online"] = None]
      [] t = "demo" -> [w EXCEPT !.player["demo"] = None, !.demoNull = FALSE,
                                 !.wsUrlNull = FALSE]
      [] OTHER -> w

(* onCreate, set by script s, when the page of t is on show.  That of      *)
(* another page does not find its elements.                                *)
OnCreate(w, s, t) ==
    CASE s = "online" -> OnlinePlay(w, t = "online")
      [] s = "demo" /\ t = "demo" -> DemoPlay(w)
      [] OTHER -> w

DestroyThrows(w, s) ==
    \/ s = "online" /\ StopThrows(w, s)
    \/ s = "demo" /\ (w.demoNull \/ StopThrows(w, s))

OnDestory(w, s) ==
    CASE s = "online" -> StopPlayer(w, s)
      [] s = "demo" -> DemoDestroy(w)
      [] OTHER -> w

(* xplayer.js, for the pages that ask for it. *)
FetchPlayer(w, t, comes) == [w EXCEPT !.iPlayer = @ \/ (t \in Scripts /\ comes)]

(* loadPage with a body: html() runs the scripts of the page that come;    *)
(* its own sets the handlers of the page of tab, Tab.current.  Then the    *)
(* page is created, with the handlers of an earlier time if need be.       *)
Render(w, t, tab) ==
    \E player, own \in BOOLEAN :
        LET fetched == FetchPlayer(w, t, player)
            ran == own \/ t \notin Scripts
        IN  /\ content' = t
            /\ scriptless' = ~ran
            /\ handlers' = IF ran THEN [handlers EXCEPT ![tab] = t] ELSE handlers
            /\ world' = OnCreate(IF ran THEN RunScript(fetched, t) ELSE fetched,
                                 handlers'[t], t)

-----------------------------------------------------------------------------
Click == clicks < MaxClicks /\ clicks' = clicks + 1

(* onTabClick: an exception of onDestory ends it before the tab changes. *)
TabClick(t) ==
    /\ Click
    /\ UNCHANGED <<cached, astray>>
    /\ IF DestroyThrows(world, handlers[current])
       THEN UNCHANGED <<current, content, handlers, loading, world, failed, scriptless>>
       ELSE /\ current' = t
            /\ failed' = failed \ {t}
            /\ LET w == OnDestory(world, handlers[current])
               IN  IF t \in cached THEN Render(w, t, t) /\ UNCHANGED loading
                   ELSE /\ loading' = [loading EXCEPT ![t] = @ + 1]
                        /\ world' = w /\ UNCHANGED <<content, handlers, scriptless>>

(* The page that came is kept but not shown. *)
Arrive_Kept(t) ==
    /\ loading[t] > 0 /\ loading' = [loading EXCEPT ![t] = @ - 1]
    /\ cached' = cached \cup {t}
    /\ UNCHANGED <<current, content, handlers, world, clicks, failed, scriptless, astray>>

(* The answer of a request of loadPage, or its failure, of which nobody is *)
(* told.                                                                   *)
Arrive(t) ==
    /\ loading[t] > 0 /\ loading' = [loading EXCEPT ![t] = @ - 1]
    /\ \/ /\ cached' = cached \cup {t}
          /\ Render(world, t, current)
          /\ astray' = (astray \/ t # current \/ t \in cached)
          /\ UNCHANGED failed
       \/ /\ failed' = failed \cup {t}
          /\ UNCHANGED <<content, handlers, cached, world, scriptless, astray>>
    /\ UNCHANGED <<current, clicks>>

(* A button or an item of the page on show. *)
Use(t, w) ==
    /\ Click /\ content = t
    /\ world' = w
    /\ astray' = (astray \/ content # current)
    /\ UNCHANGED <<current, content, handlers, cached, loading, failed, scriptless>>

PlayButton == Use("demo", DemoPlay(world))
StopButton == Use("demo", DemoStop(world))

(* There are items once onCreate of the page has played and listed them. *)
OnItemClicked ==
    /\ handlers["online"] = "online" /\ world.iPlayer
    /\ Use("online", OnlinePlay(world, TRUE))

(* A player moves as Playback promises, of its own accord. *)
Promise(q) == INSTANCE Playback WITH phase <- world.phase[q], calls <- clicks

PlayerMoves(q) ==
    /\ \E to \in Phases :
           /\ <<world.phase[q], to>> \in Promise(q)!Own
           /\ world' = [world EXCEPT !.phase[q] = to]
    /\ UNCHANGED <<current, content, handlers, cached, loading, clicks, failed,
                   scriptless, astray>>

Next ==
    \/ \E t \in Tabs : TabClick(t) \/ Arrive(t)
    \/ PlayButton \/ StopButton \/ OnItemClicked
    \/ \E q \in Players : PlayerMoves(q)

Spec == Init /\ [][Next]_vars

(* The browser ends every request. *)
FairSpec == Spec /\ \A t \in Tabs : WF_vars(Arrive(t))

-----------------------------------------------------------------------------
(* Properties *)

(* Safety: while every page came for its tab, the players of the pages     *)
(* that were left are stopped: nothing plays, or will, but the player the  *)
(* script of the page on show can reach.                                   *)
NobodyPlaysOn ==
    ~astray =>
        \A q \in Players :
            \/ world.phase[q] = "stopped"
            \/ content \in Scripts /\ world.player[content] = q

(* Safety: and what onDestory of the current page needs is there, so that  *)
(* a click on a tab fails only while a player connects, or on the demo     *)
(* page when it is shown again and demo.js cannot be had: then Demo is     *)
(* null since the page was left, and every click on a tab fails.           *)
TabsAnswer ==
    ~astray =>
        /\ handlers[current] \in {NoScript, current}
        /\ handlers[current] = "demo" =>
               ~world.demoNull \/ (content = "demo" /\ scriptless)

(* Liveness: the tab that was clicked last comes to be on show, unless its *)
(* page could not be had, the user goes on to another tab, or a page went  *)
(* astray.                                                                 *)
TabIsShown ==
    \A t \in Tabs :
        current = t ~> content = t \/ current # t \/ t \in failed \/ astray
=============================================================================
