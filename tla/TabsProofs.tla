----------------------------- MODULE TabsProofs -----------------------------
(* Proofs about Tabs, for any number of clicks: as long as every page came *)
(* for its tab, nothing plays on the pages that were left and the tabs     *)
(* answer, whichever of the scripts come.                                  *)
EXTENDS Tabs, TLAPS

Stopped(w) == \A q \in Players : w.phase[q] = "stopped"

(* Each request and each click make one player at most. *)
Room == world.made + loading["home"] + loading["online"] + loading["demo"] <= clicks + 1

(* A page that is on show or whose script has run came, and is kept. *)
Came ==
    /\ content \in cached \cup {NoScript}
    /\ ~astray => \A t \in Tabs : handlers[t] \in {NoScript, t} /\
                                  (handlers[t] = t => t \in cached)

(* Leaving a page stops its player: until the next page is on show, all    *)
(* players are stopped.                                                    *)
Left == ~astray /\ content # current => Stopped(world)

(* The page on show is destroyed by its own script, or plays nothing, as   *)
(* that has never come.  Demo is what its script makes.                    *)
Handled ==
    /\ ~astray /\ content = current /\ current \in Scripts =>
           handlers[current] = current \/ Stopped(world)
    /\ ~astray /\ handlers["demo"] = NoScript => world.demoNull

IInv ==
    /\ TypeOK /\ Room /\ Came /\ Left /\ Handled
    /\ NobodyPlaysOn /\ TabsAnswer

-----------------------------------------------------------------------------
(* What the scripts do.  Nothing but the player of s may play in w. *)
Only(w, s) == \A q \in Players : w.phase[q] = "stopped" \/ w.player[s] = q

(* What a call that makes one player at most leaves alone. *)
Makes(w, v) ==
    /\ v \in Worlds /\ v.demoNull = w.demoNull
    /\ w.made <= v.made /\ v.made <= w.made + 1

LEMMA StopPlayerStops ==
    ASSUME NEW w \in Worlds, NEW s \in Scripts
    PROVE  LET v == StopPlayer(w, s)
           IN  /\ v \in Worlds
               /\ v.player = w.player /\ v.demoNull = w.demoNull
               /\ v.wsUrlNull = w.wsUrlNull /\ v.made = w.made
               /\ \A q \in Players : v.phase[q] \in {w.phase[q], "stopped"}
               /\ ~StopThrows(w, s) /\ Only(w, s) => Stopped(v)
<1> DEFINE v == StopPlayer(w, s)
<1>1. CASE w.player[s] = None \/ StopThrows(w, s)
  <2>1. v = w
    BY <1>1 DEF StopPlayer
  <2>2. ASSUME ~StopThrows(w, s), Only(w, s) PROVE Stopped(w)
    BY <1>1, <2>2 DEF Only, Stopped, Players, None
  <2> QED  BY <2>1, <2>2
<1>2. CASE w.player[s] # None /\ ~StopThrows(w, s)
  <2>1. v = [w EXCEPT !.phase[w.player[s]] = "stopped"]
    BY <1>2 DEF StopPlayer
  <2>2. w.player[s] \in Players
    BY <1>2 DEF Worlds
  <2>3. v \in Worlds
    BY <2>1, <2>2 DEF Worlds, Phases
  <2>4. v.phase = [w.phase EXCEPT ![w.player[s]] = "stopped"]
    BY <2>1 DEF Worlds
  <2>5. /\ v.player = w.player /\ v.demoNull = w.demoNull
        /\ v.wsUrlNull = w.wsUrlNull /\ v.made = w.made
    BY <2>1 DEF Worlds
  <2>6. \A q \in Players : v.phase[q] = IF q = w.player[s] THEN "stopped" ELSE w.phase[q]
    BY <2>2, <2>4 DEF Worlds
  <2> QED  BY <2>3, <2>5, <2>6 DEF Only, Stopped
<1> QED  BY <1>1, <1>2

LEMMA MakePlayerMakes ==
    ASSUME NEW w \in Worlds, NEW s \in Scripts, NEW reachable \in BOOLEAN,
           w.made + 1 \in Players
    PROVE  LET v == MakePlayer(w, s, reachable)
           IN  Makes(w, v) /\ (Stopped(w) => Only(v, s))
<1> DEFINE v == MakePlayer(w, s, reachable)
           p == w.made + 1
<1>1. w.made \in Nat
  BY TabsAssumption DEF Worlds, Players, None
<1>2. CASE ~w.iPlayer
  <2>1. v = w
    BY <1>2 DEF MakePlayer
  <2> QED  BY <1>1, <2>1 DEF Makes, Stopped, Only
<1>3. CASE w.iPlayer
  <2>1. v = [w EXCEPT !.made = @ + 1, !.player[s] = w.made + 1,
                      !.phase[w.made + 1] = IF reachable THEN "connecting" ELSE "lost"]
    BY <1>3 DEF MakePlayer
  <2> HIDE DEF v
  <2>2. v.made = p /\ v.demoNull = w.demoNull /\ v.wsUrlNull = w.wsUrlNull
    BY <2>1 DEF Worlds
  <2>3. v.player = [w.player EXCEPT ![s] = p]
    BY <2>1 DEF Worlds
  <2>4. v.phase = [w.phase EXCEPT ![p] = IF reachable THEN "connecting" ELSE "lost"]
    BY <2>1 DEF Worlds
  <2>5. v \in Worlds
    BY <2>1 DEF Worlds, Phases
  <2>6. ASSUME Stopped(w) PROVE Only(v, s)
    <3>1. v.player[s] = p
      BY <2>3 DEF Worlds
    <3>2. \A q \in Players : q # p => v.phase[q] = w.phase[q]
      BY <2>4 DEF Worlds
    <3> QED  BY <2>6, <3>1, <3>2 DEF Only, Stopped
  <2> QED  BY <1>1, <2>2, <2>5, <2>6 DEF Makes, v
<1> QED  BY <1>2, <1>3

LEMMA OnlinePlayMakes ==
    ASSUME NEW w \in Worlds, NEW found \in BOOLEAN, w.made + 1 \in Players
    PROVE  LET v == OnlinePlay(w, found)
           IN  Makes(w, v) /\ (Only(w, "online") => Only(v, "online"))
<1> DEFINE v == OnlinePlay(w, found)
<1>0. w.made \in Nat /\ "online" \in Scripts
  BY TabsAssumption DEF Worlds, Players, None, Scripts
<1>a. Makes(w, w)
  BY <1>0 DEF Makes
<1>1. CASE StopThrows(w, "online")
  <2>1. v = w
    BY <1>1 DEF OnlinePlay, StopThrows
  <2> QED  BY <1>a, <2>1
<1>2. CASE w.player["online"] = None /\ ~StopThrows(w, "online")
  <2>1. Only(w, "online") => Stopped(w)
    BY <1>2 DEF Only, Stopped, None, Players
  <2>2. v = IF found THEN MakePlayer(w, "online", TRUE) ELSE w
    BY <1>2 DEF OnlinePlay
  <2> QED  BY <2>1, <2>2, <1>0, <1>a, MakePlayerMakes
<1>3. CASE w.player["online"] # None /\ ~StopThrows(w, "online")
  <2>1. v = [w EXCEPT !.phase[w.player["online"]] = "connecting"]
    BY <1>3 DEF OnlinePlay
  <2>2. w.player["online"] \in Players
    BY <1>0, <1>3 DEF Worlds
  <2>3. v \in Worlds
    BY <2>1, <2>2 DEF Worlds, Phases
  <2>4. /\ v.phase = [w.phase EXCEPT ![w.player["online"]] = "connecting"]
        /\ v.player = w.player /\ v.demoNull = w.demoNull /\ v.made = w.made
    BY <2>1 DEF Worlds
  <2>5. Only(w, "online") => Only(v, "online")
    BY <2>2, <2>4 DEF Only, Worlds
  <2> QED  BY <1>0, <2>3, <2>4, <2>5 DEF Makes
<1> QED  BY <1>1, <1>2, <1>3

LEMMA DemoPlayMakes ==
    ASSUME NEW w \in Worlds, w.made + 1 \in Players
    PROVE  LET v == DemoPlay(w)
           IN  Makes(w, v) /\ (Only(w, "demo") => Only(v, "demo"))
<1> DEFINE u == StopPlayer(w, "demo")
           v == DemoPlay(w)
<1>0. w.made \in Nat /\ "demo" \in Scripts
  BY TabsAssumption DEF Worlds, Players, None, Scripts
<1>1. CASE w.demoNull \/ StopThrows(w, "demo")
  BY <1>0, <1>1 DEF DemoPlay, Makes
<1>2. CASE ~(w.demoNull \/ StopThrows(w, "demo"))
  <2>1. v = MakePlayer(u, "demo", ~w.wsUrlNull)
    BY <1>2 DEF DemoPlay
  <2>2. u \in Worlds /\ u.made = w.made /\ u.demoNull = w.demoNull
    BY <1>0, StopPlayerStops
  <2>3. Only(w, "demo") => Stopped(u)
    BY <1>0, <1>2, StopPlayerStops
  <2>4. Makes(u, v) /\ (Stopped(u) => Only(v, "demo"))
    BY <1>0, <2>1, <2>2, MakePlayerMakes
  <2> QED  BY <2>2, <2>3, <2>4 DEF Makes
<1> QED  BY <1>1, <1>2

LEMMA DemoStopStops ==
    ASSUME NEW w \in Worlds
    PROVE  LET v == DemoStop(w)
           IN  /\ v \in Worlds /\ v.player = w.player
               /\ v.demoNull = w.demoNull /\ v.made = w.made
               /\ \A q \in Players : v.phase[q] \in {w.phase[q], "stopped"}
               /\ ~w.demoNull /\ ~StopThrows(w, "demo") /\ Only(w, "demo") => Stopped(v)
<1> DEFINE v == DemoStop(w)
<1>0. "demo" \in Scripts
  BY DEF Scripts
<1>1. CASE w.demoNull \/ w.player["demo"] = None \/ StopThrows(w, "demo")
  <2>1. v = w
    BY <1>1 DEF DemoStop
  <2>2. ASSUME ~w.demoNull, ~StopThrows(w, "demo"), Only(w, "demo") PROVE Stopped(w)
    BY <1>1, <2>2 DEF Only, Stopped, Players, None
  <2> QED  BY <2>1, <2>2
<1>2. CASE ~(w.demoNull \/ w.player["demo"] = None \/ StopThrows(w, "demo"))
  <2> DEFINE u == StopPlayer(w, "demo")
  <2>1. v = [u EXCEPT !.wsUrlNull = TRUE]
    BY <1>2 DEF DemoStop
  <2>2. /\ u \in Worlds /\ u.player = w.player
        /\ u.demoNull = w.demoNull /\ u.made = w.made
        /\ \A q \in Players : u.phase[q] \in {w.phase[q], "stopped"}
        /\ ~StopThrows(w, "demo") /\ Only(w, "demo") => Stopped(u)
    BY <1>0, StopPlayerStops
  <2> HIDE DEF u
  <2>3. /\ v \in Worlds /\ v.phase = u.phase /\ v.player = u.player
        /\ v.demoNull = u.demoNull /\ v.made = u.made
    BY <2>1, <2>2 DEF Worlds
  <2> QED  BY <2>2, <2>3 DEF Stopped
<1> QED  BY <1>1, <1>2

(* A page that is destroyed by its own script, or has none and is not      *)
(* playing, leaves nothing playing.                                        *)
LEMMA OnDestoryStops ==
    ASSUME NEW w \in Worlds, NEW s \in Tabs \cup {NoScript}
    PROVE  LET v == OnDestory(w, s)
           IN  /\ v \in Worlds /\ v.made = w.made
               /\ Stopped(w) => Stopped(v)
               /\ s \in Scripts /\ ~DestroyThrows(w, s) /\ Only(w, s) => Stopped(v)
               /\ w.demoNull => v.demoNull
               /\ s # "demo" => v.demoNull = w.demoNull
<1>1. CASE s = "online"
  <2>1. OnDestory(w, s) = StopPlayer(w, s) /\ s \in Scripts
    BY <1>1 DEF OnDestory, Scripts
  <2>2. ~DestroyThrows(w, s) => ~StopThrows(w, s)
    BY <1>1 DEF DestroyThrows
  <2> QED  BY <2>1, <2>2, StopPlayerStops DEF Stopped
<1>2. CASE s = "demo"
  <2> DEFINE u == DemoStop(w)
  <2>1. OnDestory(w, s) = [u EXCEPT !.demoNull = TRUE] /\ s \in Scripts
    BY <1>2 DEF OnDestory, DemoDestroy, Scripts
  <2>2. ~DestroyThrows(w, s) => ~w.demoNull /\ ~StopThrows(w, "demo")
    BY <1>2 DEF DestroyThrows
  <2>3. /\ u \in Worlds /\ u.made = w.made
        /\ \A q \in Players : u.phase[q] \in {w.phase[q], "stopped"}
        /\ ~w.demoNull /\ ~StopThrows(w, "demo") /\ Only(w, "demo") => Stopped(u)
    BY DemoStopStops
  <2> HIDE DEF u
  <2>4. /\ OnDestory(w, s) \in Worlds /\ OnDestory(w, s).phase = u.phase
        /\ OnDestory(w, s).made = u.made /\ OnDestory(w, s).demoNull
    BY <2>1, <2>3 DEF Worlds
  <2> QED  BY <1>2, <2>2, <2>3, <2>4 DEF Stopped
<1>3. CASE s = NoScript \/ s = "home"
  <2>1. s # "online" /\ s # "demo" /\ s \notin Scripts
    BY <1>3 DEF NoScript, Scripts
  <2>2. OnDestory(w, s) = w
    BY <2>1 DEF OnDestory
  <2> QED  BY <2>1, <2>2
<1> QED  BY <1>1, <1>2, <1>3 DEF Tabs

LEMMA FetchPlayerFetches ==
    ASSUME NEW w \in Worlds, NEW t \in Tabs, NEW comes \in BOOLEAN
    PROVE  LET v == FetchPlayer(w, t, comes)
           IN  /\ v \in Worlds /\ v.phase = w.phase /\ v.made = w.made
               /\ v.demoNull = w.demoNull
BY DEF FetchPlayer, Worlds

LEMMA RunScriptRuns ==
    ASSUME NEW w \in Worlds, NEW t \in Tabs
    PROVE  LET v == RunScript(w, t)
           IN  /\ v \in Worlds /\ v.phase = w.phase /\ v.made = w.made
               /\ v.demoNull = (w.demoNull /\ t # "demo")
<1>1. CASE t = "online"
  BY <1>1 DEF RunScript, Worlds, Scripts
<1>2. CASE t = "demo"
  BY <1>2 DEF RunScript, Worlds, Scripts
<1>3. CASE t = "home"
  BY <1>3 DEF RunScript, Worlds
<1> QED  BY <1>1, <1>2, <1>3 DEF Tabs

LEMMA OnCreateMakes ==
    ASSUME NEW w \in Worlds, NEW s \in Tabs \cup {NoScript}, NEW t \in Tabs,
           w.made + 1 \in Players
    PROVE  LET v == OnCreate(w, s, t)
           IN  /\ Makes(w, v)
               /\ s = t /\ Stopped(w) => Only(v, t)
               /\ s \notin Scripts => v = w
<1>0. /\ w.made \in Nat
      /\ \A x : x \notin Scripts => x # "online" /\ x # "demo"
  BY TabsAssumption DEF Worlds, Players, None, Scripts
<1>a. Stopped(w) => Only(w, "online") /\ Only(w, "demo") /\ Only(w, t)
  BY DEF Stopped, Only
<1>1. CASE s = "online"
  <2>1. OnCreate(w, s, t) = OnlinePlay(w, t = "online")
    BY <1>1 DEF OnCreate
  <2> QED  BY <1>0, <1>1, <1>a, <2>1, OnlinePlayMakes
<1>2. CASE s = "demo" /\ t = "demo"
  <2>1. OnCreate(w, s, t) = DemoPlay(w)
    BY <1>2 DEF OnCreate
  <2> QED  BY <1>0, <1>2, <1>a, <2>1, DemoPlayMakes
<1>3. CASE s # "online" /\ ~(s = "demo" /\ t = "demo")
  <2>1. OnCreate(w, s, t) = w
    BY <1>3 DEF OnCreate
  <2> QED  BY <1>0, <1>a, <2>1 DEF Makes
<1> QED  BY <1>1, <1>2, <1>3

-----------------------------------------------------------------------------
(* The page of t is shown, with its script or without.                     *)
LEMMA RenderMakes ==
    ASSUME TypeOK, NEW w \in Worlds, NEW t \in Tabs, NEW tab \in Tabs,
           w.made + 1 \in Players, Render(w, t, tab)
    PROVE  /\ content' = t
           /\ scriptless' \in BOOLEAN /\ (scriptless' => t \in Scripts)
           /\ handlers' \in [Tabs -> Tabs \cup {NoScript}]
           /\ handlers' = IF scriptless' THEN handlers ELSE [handlers EXCEPT ![tab] = t]
           /\ world' \in Worlds
           /\ w.made <= world'.made /\ world'.made <= w.made + 1
           /\ world'.demoNull = (w.demoNull /\ (t # "demo" \/ scriptless'))
           /\ Stopped(w) /\ handlers'[t] = t => Only(world', t)
           /\ Stopped(w) /\ handlers'[t] \notin Scripts => Stopped(world')
<1>1. PICK player \in BOOLEAN, own \in BOOLEAN :
          LET fetched == FetchPlayer(w, t, player)
              ran == own \/ t \notin Scripts
          IN  /\ content' = t
              /\ scriptless' = ~ran
              /\ handlers' = IF ran THEN [handlers EXCEPT ![tab] = t] ELSE handlers
              /\ world' = OnCreate(IF ran THEN RunScript(fetched, t) ELSE fetched,
                                   handlers'[t], t)
  BY DEF Render
<1> DEFINE f == FetchPlayer(w, t, player)
           ran == own \/ t \notin Scripts
           u == IF ran THEN RunScript(f, t) ELSE f
<1>2. /\ content' = t /\ scriptless' = ~ran
      /\ handlers' = IF ran THEN [handlers EXCEPT ![tab] = t] ELSE handlers
      /\ world' = OnCreate(u, handlers'[t], t)
  BY <1>1
<1>3. f \in Worlds /\ f.phase = w.phase /\ f.made = w.made /\ f.demoNull = w.demoNull
  BY FetchPlayerFetches
<1> HIDE DEF f
<1>4. /\ u \in Worlds /\ u.phase = w.phase /\ u.made = w.made
      /\ u.demoNull = (w.demoNull /\ (t # "demo" \/ ~ran))
  <2> DEFINE r == RunScript(f, t)
  <2>1. /\ r \in Worlds /\ r.phase = f.phase /\ r.made = f.made
        /\ r.demoNull = (f.demoNull /\ t # "demo")
    BY <1>3, RunScriptRuns
  <2>2. w.demoNull \in BOOLEAN
    BY DEF Worlds
  <2>3. u = IF ran THEN r ELSE f
    OBVIOUS
  <2> HIDE DEF r, u
  <2>4. CASE ran
    BY <1>3, <2>1, <2>3, <2>4
  <2>5. CASE ~ran
    BY <1>3, <2>2, <2>3, <2>5
  <2> QED  BY <2>4, <2>5
<1>5. /\ scriptless' \in BOOLEAN /\ (scriptless' => t \in Scripts)
      /\ handlers' \in [Tabs -> Tabs \cup {NoScript}]
      /\ handlers' = IF scriptless' THEN handlers ELSE [handlers EXCEPT ![tab] = t]
  BY <1>2 DEF TypeOK
<1>6. handlers'[t] \in Tabs \cup {NoScript}
  BY <1>5
<1>7. u.demoNull = (w.demoNull /\ (t # "demo" \/ scriptless'))
  BY <1>2, <1>4
<1> HIDE DEF u
<1>8. Stopped(w) => Stopped(u)
  BY <1>4 DEF Stopped
<1>9. /\ Makes(u, world')
      /\ handlers'[t] = t /\ Stopped(u) => Only(world', t)
      /\ handlers'[t] \notin Scripts => world' = u
  BY <1>2, <1>4, <1>6, OnCreateMakes
<1> QED  BY <1>2, <1>4, <1>5, <1>7, <1>8, <1>9 DEF Makes

(* A page that is shown on its own tab, when nothing plays, establishes    *)
(* what the properties need.                                               *)
LEMMA ShownOnItsTab ==
    ASSUME TypeOK, NEW w \in Worlds, NEW t \in Tabs,
           w.made + 1 \in Players, Render(w, t, t), Stopped(w),
           current' = t, t \in cached', cached \subseteq cached',
           handlers["demo"] = NoScript => w.demoNull,
           \A x \in Tabs : handlers[x] \in {NoScript, x} /\
                           (handlers[x] = x => x \in cached)
    PROVE  Came' /\ Left' /\ Handled' /\ NobodyPlaysOn' /\ TabsAnswer'
<1>1. /\ content' = t /\ handlers' \in [Tabs -> Tabs \cup {NoScript}]
      /\ scriptless' \in BOOLEAN /\ (scriptless' => t \in Scripts)
      /\ handlers' = IF scriptless' THEN handlers ELSE [handlers EXCEPT ![t] = t]
      /\ world'.demoNull = (w.demoNull /\ (t # "demo" \/ scriptless'))
      /\ handlers'[t] = t => Only(world', t)
      /\ handlers'[t] \notin Scripts => Stopped(world')
  BY RenderMakes
<1>2. \A x \in Tabs : handlers'[x] \in {NoScript, x} /\
                      (handlers'[x] = x => x \in cached')
  BY <1>1 DEF TypeOK
<1>3. handlers'[t] # t => handlers'[t] \notin Scripts
  BY <1>2 DEF NoScript, Scripts
<1>4. handlers'["demo"] = NoScript => world'.demoNull
  <2>1. "demo" \in Tabs /\ "demo" # NoScript
    BY DEF Tabs, NoScript
  <2>2. handlers'["demo"] = NoScript =>
            handlers["demo"] = NoScript /\ (t # "demo" \/ scriptless')
    BY <1>1, <2>1 DEF TypeOK
  <2> QED  BY <1>1, <2>2
<1>5. Came'
  BY <1>1, <1>2 DEF Came
<1>6. Left' /\ Handled'
  BY <1>1, <1>3, <1>4 DEF Left, Handled
<1>7. NobodyPlaysOn'
  BY <1>1, <1>3 DEF NobodyPlaysOn, Only, Stopped, Scripts
<1>8. TabsAnswer'
  <2>1. handlers'[t] = "demo" => t = "demo"
    BY <1>2 DEF NoScript
  <2> QED  BY <1>1, <1>2, <2>1 DEF TabsAnswer
<1> QED  BY <1>5, <1>6, <1>7, <1>8

(* What the invariant says of the players in other words. *)
LEMMA PlayersNow ==
    ASSUME IInv, ~astray
    PROVE  /\ content \in Scripts => Only(world, content)
           /\ content \notin Scripts => Stopped(world)
BY DEF IInv, NobodyPlaysOn, Only, Stopped

(* When onDestory of the current page has returned, nothing plays.         *)
LEMMA LeavingStops ==
    ASSUME IInv, ~astray, ~DestroyThrows(world, handlers[current])
    PROVE  Stopped(OnDestory(world, handlers[current]))
<1>1. current \in Tabs /\ world \in Worlds /\ handlers[current] \in Tabs \cup {NoScript}
  BY DEF IInv, TypeOK
<1>2. CASE Stopped(world)
  BY <1>1, <1>2, OnDestoryStops
<1>3. CASE ~Stopped(world)
  <2>1. content \in Scripts /\ Only(world, content) /\ content = current
    BY <1>3, PlayersNow DEF IInv, Left
  <2>2. handlers[current] = current
    BY <1>3, <2>1 DEF IInv, Handled
  <2> QED  BY <1>1, <2>1, <2>2, OnDestoryStops
<1> QED  BY <1>2, <1>3

-----------------------------------------------------------------------------
LEMMA RoomForOne ==
    ASSUME IInv, NEW t \in Tabs
    PROVE  /\ world.made \in Nat /\ clicks \in Nat /\ clicks <= MaxClicks
           /\ \A x \in Tabs : loading[x] \in Nat
           /\ loading[t] > 0 => world.made + 1 <= clicks + 1
           /\ world.made <= clicks + 1
BY TabsAssumption DEF IInv, TypeOK, Room, Worlds, Players, None, Tabs

(* A request or a player more takes a click, or a request.                 *)
LEMMA RoomKept ==
    ASSUME IInv, NEW t \in Tabs,
           loading' \in [Tabs -> Nat], \A x \in Tabs \ {t} : loading'[x] = loading[x],
           world'.made \in Nat, clicks' \in Nat,
           world'.made + loading'[t] - clicks' <= world.made + loading[t] - clicks
    PROVE  Room'
<1>1. /\ world.made \in Nat /\ clicks \in Nat /\ \A x \in Tabs : loading[x] \in Nat
      /\ world.made + loading["home"] + loading["online"] + loading["demo"] <= clicks + 1
  BY RoomForOne DEF IInv, Room
<1>2. /\ "home" \in Tabs /\ "online" \in Tabs /\ "demo" \in Tabs
      /\ t = "home" \/ t = "online" \/ t = "demo"
  BY DEF Tabs
<1>3. /\ loading'["home"] \in Nat /\ loading'["online"] \in Nat /\ loading'["demo"] \in Nat
  BY <1>2
<1>4. CASE t = "home"
  BY <1>1, <1>2, <1>3, <1>4 DEF Room
<1>5. CASE t = "online"
  BY <1>1, <1>2, <1>3, <1>5 DEF Room
<1>6. CASE t = "demo"
  BY <1>1, <1>2, <1>3, <1>6 DEF Room
<1> QED  BY <1>2, <1>4, <1>5, <1>6

LEMMA InitInv == Init => IInv
<1> SUFFICES ASSUME Init PROVE IInv
  OBVIOUS
<1>1. None \in Players \cup {None} /\ 0 <= MaxClicks
  BY TabsAssumption
<1>2. world \in Worlds /\ Stopped(world) /\ world.made = 0
  BY <1>1 DEF Init, Worlds, Phases, Stopped, None
<1>3. TypeOK
  <2>1. loading \in [Tabs -> 0 .. MaxClicks + 1]
    BY TabsAssumption DEF Init
  <2>2. handlers \in [Tabs -> Tabs \cup {NoScript}]
    BY DEF Init
  <2>3. current \in Tabs /\ content \in Tabs \cup {NoScript}
    BY DEF Init, Tabs
  <2>4. cached \subseteq Tabs /\ failed \subseteq Tabs
    BY DEF Init
  <2>5. clicks \in 0 .. MaxClicks
    BY TabsAssumption DEF Init
  <2>6. astray \in BOOLEAN /\ scriptless \in BOOLEAN
    BY DEF Init
  <2> QED  BY <1>2, <2>1, <2>2, <2>3, <2>4, <2>5, <2>6 DEF TypeOK
<1>4. Room
  BY <1>2 DEF Init, Room, Tabs
<1>5. Came /\ Left /\ Handled
  BY <1>2 DEF Init, Came, Left, Handled, NoScript, Tabs, Scripts
<1>6. NobodyPlaysOn
  BY <1>2 DEF NobodyPlaysOn, Stopped
<1>7. TabsAnswer
  BY DEF Init, TabsAnswer, Tabs, NoScript
<1> QED  BY <1>3, <1>4, <1>5, <1>6, <1>7 DEF IInv

(* With Room, no tab has more requests than there is room for.             *)
LEMMA LoadingTyped ==
    ASSUME Room', loading' \in [Tabs -> Nat], world' \in Worlds, clicks' \in 0 .. MaxClicks
    PROVE  loading' \in [Tabs -> 0 .. MaxClicks + 1]
<1>1. /\ loading'["home"] \in Nat /\ loading'["online"] \in Nat /\ loading'["demo"] \in Nat
      /\ world'.made \in Nat /\ clicks' \in Nat
  BY TabsAssumption DEF Worlds, Players, None, Tabs
<1>2. /\ loading'["home"] <= clicks' + 1 /\ loading'["online"] <= clicks' + 1
      /\ loading'["demo"] <= clicks' + 1
  BY <1>1 DEF Room
<1>3. \A x \in Tabs : loading'[x] \in 0 .. MaxClicks + 1
  BY <1>1, <1>2, TabsAssumption DEF Tabs
<1> QED  BY <1>3

LEMMA TabClickStep ==
    ASSUME IInv, NEW t \in Tabs, TabClick(t)
    PROVE  IInv'
<1> DEFINE s == handlers[current]
           w == OnDestory(world, s)
<1>1. /\ TypeOK /\ world \in Worlds /\ current \in Tabs
      /\ s \in Tabs \cup {NoScript}
      /\ clicks \in Nat /\ clicks < MaxClicks /\ clicks' = clicks + 1
      /\ clicks' \in 0 .. MaxClicks
      /\ cached' = cached /\ astray' = astray
  BY TabsAssumption DEF IInv, TypeOK, TabClick, Click
<1>2. world.made \in Nat /\ world.made + 1 \in Players /\ world.made <= clicks + 1
  <2>1. world.made \in Nat /\ world.made <= clicks + 1
    BY RoomForOne
  <2> QED  BY <1>1, <2>1, TabsAssumption DEF Players
<1>3. CASE DestroyThrows(world, s)
  <2>1. UNCHANGED <<current, content, handlers, loading, world, failed, scriptless>>
    BY <1>3 DEF TabClick
  <2>2. TypeOK'
    BY <1>1, <2>1 DEF TypeOK
  <2>3. Room'
    BY <1>1, <2>1, RoomForOne DEF IInv, Room, Tabs
  <2>4. Came' /\ Left' /\ Handled' /\ NobodyPlaysOn' /\ TabsAnswer'
    BY <1>1, <2>1 DEF IInv, Came, Left, Handled, NobodyPlaysOn, TabsAnswer, Stopped
  <2> QED  BY <2>2, <2>3, <2>4 DEF IInv
<1>4. CASE ~DestroyThrows(world, s)
  <2>1. current' = t /\ failed' = failed \ {t}
    BY <1>4 DEF TabClick
  <2>2. /\ w \in Worlds /\ w.made = world.made
        /\ s # "demo" => w.demoNull = world.demoNull
        /\ world.demoNull => w.demoNull
    BY <1>1, OnDestoryStops
  <2>3. ~astray => Stopped(w)
    BY <1>4, LeavingStops
  <2>4. CASE t \in cached
    <3>1. Render(w, t, t) /\ loading' = loading
      BY <1>4, <2>4 DEF TabClick
    <3>a. loading' \in [Tabs -> Nat]
      BY <1>1, <3>1, RoomForOne DEF TypeOK
    <3> HIDE DEF w
    <3>2. /\ content' = t /\ handlers' \in [Tabs -> Tabs \cup {NoScript}]
          /\ scriptless' \in BOOLEAN
          /\ world' \in Worlds /\ world'.made <= world.made + 1
      BY <1>1, <1>2, <2>2, <3>1, RenderMakes
    <3>3. Room'
      <4>1. world'.made \in Nat
        BY <3>2 DEF Worlds, Players, None
      <4>2. loading[t] \in Nat
        BY RoomForOne
      <4>3. world'.made + loading'[t] - clicks' <= world.made + loading[t] - clicks
        BY <1>1, <1>2, <3>1, <3>2, <4>1, <4>2
      <4> QED  BY <1>1, <3>1, <3>a, <4>1, <4>3, RoomKept
    <3>4. TypeOK'
      BY <1>1, <2>1, <3>1, <3>2 DEF TypeOK
    <3>5. ~astray => Came' /\ Left' /\ Handled' /\ NobodyPlaysOn' /\ TabsAnswer'
      <4> HAVE ~astray
      <4>1. \A x \in Tabs : handlers[x] \in {NoScript, x} /\
                           (handlers[x] = x => x \in cached)
        BY DEF IInv, Came
      <4>2. cached \subseteq cached' /\ t \in cached'
        BY <1>1, <2>4
      <4>3. handlers["demo"] = NoScript => w.demoNull
        BY <2>2 DEF IInv, Handled
      <4> QED  BY <1>1, <1>2, <2>1, <2>2, <2>3, <3>1, <4>1, <4>2, <4>3, ShownOnItsTab
    <3>6. astray => Came' /\ Left' /\ Handled' /\ NobodyPlaysOn' /\ TabsAnswer'
      BY <1>1, <2>4, <3>2 DEF Came, Left, Handled, NobodyPlaysOn, TabsAnswer
    <3> QED  BY <3>3, <3>4, <3>5, <3>6 DEF IInv
  <2>5. CASE t \notin cached
    <3>1. /\ loading' = [loading EXCEPT ![t] = @ + 1]
          /\ world' = w /\ content' = content /\ handlers' = handlers
          /\ scriptless' = scriptless
      BY <1>4, <2>5 DEF TabClick
    <3> HIDE DEF w
    <3>a. /\ loading' \in [Tabs -> Nat] /\ \A x \in Tabs \ {t} : loading'[x] = loading[x]
          /\ loading'[t] = loading[t] + 1 /\ loading[t] \in Nat
      BY <1>1, <3>1, RoomForOne DEF TypeOK
    <3>2. Room'
      <4>1. world'.made + loading'[t] - clicks' <= world.made + loading[t] - clicks
        BY <1>1, <1>2, <2>2, <3>1, <3>a
      <4> QED  BY <1>1, <1>2, <2>2, <3>1, <3>a, <4>1, RoomKept
    <3>3. TypeOK'
      <4>2. loading' \in [Tabs -> 0 .. MaxClicks + 1]
        BY <1>1, <2>2, <3>1, <3>2, <3>a, LoadingTyped
      <4> QED  BY <1>1, <2>1, <2>2, <3>1, <4>2 DEF TypeOK
    <3>4. Came'
      BY <1>1, <3>1 DEF IInv, Came
    <3>5. ~astray => handlers'[t] = NoScript
      BY <2>5, <3>1 DEF IInv, Came
    <3>6. content # t
      BY <2>5 DEF IInv, Came, Tabs, NoScript
    <3>7. Left' /\ NobodyPlaysOn' /\ TabsAnswer'
      BY <1>1, <2>1, <2>3, <3>1, <3>5, <3>6
         DEF Left, NobodyPlaysOn, TabsAnswer, Stopped, NoScript
    <3>8. Handled'
      BY <1>1, <2>1, <2>2, <3>1, <3>6 DEF IInv, Handled
    <3> QED  BY <3>2, <3>3, <3>4, <3>7, <3>8 DEF IInv
  <2> QED  BY <2>4, <2>5
<1> QED  BY <1>3, <1>4

LEMMA ArriveStep ==
    ASSUME IInv, NEW t \in Tabs, Arrive(t)
    PROVE  IInv'
<1>1. /\ TypeOK /\ world \in Worlds /\ current \in Tabs
      /\ loading[t] \in Nat /\ loading[t] > 0
      /\ loading' = [loading EXCEPT ![t] = @ - 1]
      /\ current' = current /\ clicks' = clicks
      /\ clicks \in Nat /\ clicks' \in 0 .. MaxClicks
  BY RoomForOne DEF IInv, TypeOK, Arrive
<1>a. /\ loading' \in [Tabs -> Nat] /\ \A x \in Tabs \ {t} : loading'[x] = loading[x]
      /\ loading'[t] = loading[t] - 1
  BY <1>1, RoomForOne DEF TypeOK
<1>2. world.made \in Nat /\ world.made + 1 \in Players
  <2>1. world.made \in Nat /\ world.made + 1 <= clicks + 1 /\ clicks <= MaxClicks
    BY <1>1, RoomForOne
  <2> QED  BY <1>1, <2>1, TabsAssumption DEF Players
<1>3. CASE /\ cached' = cached \cup {t}
           /\ Render(world, t, current)
           /\ astray' = (astray \/ t # current \/ t \in cached)
           /\ UNCHANGED failed
  <2>1. /\ content' = t /\ handlers' \in [Tabs -> Tabs \cup {NoScript}]
        /\ scriptless' \in BOOLEAN
        /\ world' \in Worlds /\ world'.made <= world.made + 1
    BY <1>1, <1>2, <1>3, RenderMakes
  <2>2. Room'
    <3>1. world'.made \in Nat
      BY <2>1 DEF Worlds, Players, None
    <3>2. world'.made + loading'[t] - clicks' <= world.made + loading[t] - clicks
      BY <1>1, <1>2, <1>a, <2>1, <3>1
    <3> QED  BY <1>1, <1>a, <3>1, <3>2, RoomKept
  <2>3. TypeOK'
    <3>1. loading' \in [Tabs -> 0 .. MaxClicks + 1]
      BY <1>1, <1>a, <2>1, <2>2, LoadingTyped
    <3>2. astray' \in BOOLEAN /\ cached' \subseteq Tabs
      BY <1>1, <1>3 DEF TypeOK
    <3> QED  BY <1>1, <1>3, <2>1, <3>1, <3>2 DEF TypeOK
  <2>5. CASE ~astray'
    <3>1. ~astray /\ t = current /\ t \notin cached
      BY <1>3, <2>5
    <3>2. content # current
      BY <3>1 DEF IInv, Came, Tabs, NoScript
    <3>3. Stopped(world)
      BY <3>1, <3>2 DEF IInv, Left
    <3>4. \A x \in Tabs : handlers[x] \in {NoScript, x} /\
                         (handlers[x] = x => x \in cached)
      BY <3>1 DEF IInv, Came
    <3>5. current' = t /\ t \in cached' /\ cached \subseteq cached' /\ Render(world, t, t)
      BY <1>1, <1>3, <3>1
    <3>6. Came' /\ Left' /\ Handled' /\ NobodyPlaysOn' /\ TabsAnswer'
      BY <1>1, <1>2, <3>1, <3>3, <3>4, <3>5, ShownOnItsTab DEF IInv, Handled
    <3> QED  BY <2>2, <2>3, <3>6 DEF IInv
  <2>6. astray' => Came' /\ Left' /\ Handled' /\ NobodyPlaysOn' /\ TabsAnswer'
    BY <1>3, <2>1 DEF Came, Left, Handled, NobodyPlaysOn, TabsAnswer
  <2> QED  BY <2>2, <2>3, <2>5, <2>6 DEF IInv
<1>4. CASE /\ failed' = failed \cup {t}
           /\ UNCHANGED <<content, handlers, cached, world, scriptless, astray>>
  <2>1. Room'
    <3>1. world'.made + loading'[t] - clicks' <= world.made + loading[t] - clicks
      BY <1>1, <1>2, <1>a, <1>4
    <3> QED  BY <1>1, <1>2, <1>a, <1>4, <3>1, RoomKept
  <2>2. TypeOK'
    <3>1. loading' \in [Tabs -> 0 .. MaxClicks + 1]
      BY <1>1, <1>a, <1>4, <2>1, LoadingTyped
    <3> QED  BY <1>1, <1>4, <3>1 DEF TypeOK
  <2>3. Came' /\ Left' /\ Handled' /\ NobodyPlaysOn' /\ TabsAnswer'
    BY <1>1, <1>4 DEF IInv, Came, Left, Handled, NobodyPlaysOn, TabsAnswer, Stopped
  <2> QED  BY <2>1, <2>2, <2>3 DEF IInv
<1> QED  BY <1>3, <1>4 DEF Arrive

(* A button or an item of the page of t: nothing but its player plays.     *)
LEMMA UseStep ==
    ASSUME IInv, NEW t \in Scripts, NEW w \in Worlds, Use(t, w),
           w.made <= world.made + 1, w.demoNull = world.demoNull,
           Only(world, t) => Only(w, t),
           ~astray /\ handlers[t] = NoScript /\ Stopped(world) => Stopped(w)
    PROVE  IInv'
<1>1. /\ TypeOK /\ clicks \in Nat /\ clicks' = clicks + 1 /\ clicks' \in 0 .. MaxClicks
      /\ content = t /\ world' = w /\ astray' = (astray \/ content # current)
      /\ UNCHANGED <<current, content, handlers, cached, loading, failed, scriptless>>
  BY TabsAssumption DEF IInv, TypeOK, Use, Click
<1>2. Room'
  <2>1. w.made \in Nat /\ t \in Tabs
    BY DEF Worlds, Players, None, Scripts, Tabs
  <2>2. loading' \in [Tabs -> Nat] /\ loading[t] \in Nat /\ world.made \in Nat
    BY <1>1, <2>1, RoomForOne DEF TypeOK
  <2>3. world'.made + loading'[t] - clicks' <= world.made + loading[t] - clicks
    BY <1>1, <2>1, <2>2
  <2> QED  BY <1>1, <2>1, <2>2, <2>3, RoomKept
<1>3. TypeOK'
  BY <1>1 DEF TypeOK
<1>4. Came' /\ Left' /\ TabsAnswer'
  BY <1>1 DEF IInv, Came, Left, TabsAnswer
<1>5. NobodyPlaysOn'
  BY <1>1, PlayersNow DEF NobodyPlaysOn, Only
<1>6. Handled'
  <2>1. ~astray => handlers[t] = t \/ handlers[t] = NoScript
    BY DEF IInv, Came, Scripts, Tabs
  <2> QED  BY <1>1, <2>1 DEF IInv, Handled
<1> QED  BY <1>2, <1>3, <1>4, <1>5, <1>6 DEF IInv

LEMMA ButtonsStep ==
    ASSUME IInv, PlayButton \/ StopButton \/ OnItemClicked
    PROVE  IInv'
<1>1. /\ world \in Worlds /\ clicks \in Nat /\ clicks < MaxClicks
  <2>1. clicks < MaxClicks
    BY DEF PlayButton, StopButton, OnItemClicked, Use, Click
  <2> QED  BY <2>1, TabsAssumption DEF IInv, TypeOK
<1>2. world.made \in Nat /\ world.made + 1 \in Players
  <2>1. world.made \in Nat /\ world.made <= clicks + 1
    BY RoomForOne DEF Tabs
  <2> QED  BY <1>1, <2>1, TabsAssumption DEF Players
<1>3. "demo" \in Scripts /\ "online" \in Scripts
  BY DEF Scripts
<1>4. CASE PlayButton
  <2>1. Makes(world, DemoPlay(world)) /\ (Only(world, "demo") => Only(DemoPlay(world), "demo"))
    BY <1>1, <1>2, DemoPlayMakes
  <2>2. ~astray /\ handlers["demo"] = NoScript /\ Stopped(world) => Stopped(DemoPlay(world))
    BY DEF IInv, Handled, DemoPlay
  <2> QED  BY <1>3, <1>4, <2>1, <2>2, UseStep DEF PlayButton, Makes
<1>5. CASE StopButton
  <2> DEFINE v == DemoStop(world)
  <2>1. /\ v \in Worlds /\ v.player = world.player
        /\ v.demoNull = world.demoNull /\ v.made = world.made
        /\ \A q \in Players : v.phase[q] \in {world.phase[q], "stopped"}
    BY <1>1, DemoStopStops
  <2> HIDE DEF v
  <2>2. Only(world, "demo") => Only(v, "demo")
    BY <2>1 DEF Only
  <2>3. Use("demo", v)
    BY <1>5 DEF StopButton, v
  <2>4. v.made <= world.made + 1
    BY <1>2, <2>1
  <2>5. Stopped(world) => Stopped(v)
    BY <2>1 DEF Stopped
  <2> QED  BY <1>3, <2>1, <2>2, <2>3, <2>4, <2>5, UseStep
<1>6. CASE OnItemClicked
  <2>1. /\ Makes(world, OnlinePlay(world, TRUE))
        /\ Only(world, "online") => Only(OnlinePlay(world, TRUE), "online")
    BY <1>1, <1>2, OnlinePlayMakes
  <2>2. handlers["online"] # NoScript /\ Use("online", OnlinePlay(world, TRUE))
    BY <1>6 DEF OnItemClicked, NoScript
  <2> QED  BY <1>3, <2>1, <2>2, UseStep DEF Makes
<1> QED  BY <1>4, <1>5, <1>6

(* A player that is stopped does not move of its own accord.               *)
LEMMA PlayerMovesStep ==
    ASSUME IInv, NEW q \in Players, PlayerMoves(q)
    PROVE  IInv'
<1>1. PICK to \in Phases : /\ <<world.phase[q], to>> \in Promise(q)!Own
                           /\ world' = [world EXCEPT !.phase[q] = to]
  BY DEF PlayerMoves
<1>2. UNCHANGED <<current, content, handlers, cached, loading, clicks, failed,
                  scriptless, astray>>
  BY DEF PlayerMoves
<1>3. world.phase[q] # "stopped"
  BY <1>1 DEF Promise!Own
<1>4. TypeOK /\ world \in Worlds
  BY DEF IInv, TypeOK
<1>5. /\ world' \in Worlds /\ world'.player = world.player /\ world'.made = world.made
      /\ world'.demoNull = world.demoNull
      /\ \A x \in Players : x # q => world'.phase[x] = world.phase[x]
  BY <1>1, <1>4 DEF Worlds
<1>6. TypeOK' /\ Room'
  BY <1>2, <1>4, <1>5 DEF TypeOK, IInv, Room
<1>7. Came' /\ TabsAnswer'
  BY <1>2, <1>5 DEF IInv, Came, TabsAnswer
<1>8. Handled'
  BY <1>2, <1>3, <1>5 DEF IInv, Handled, Stopped
<1>9. Left' /\ NobodyPlaysOn'
  BY <1>2, <1>3, <1>5 DEF IInv, Left, NobodyPlaysOn, Stopped
<1> QED  BY <1>6, <1>7, <1>8, <1>9 DEF IInv

LEMMA StepInv == IInv /\ [Next]_vars => IInv'
<1> SUFFICES ASSUME IInv, [Next]_vars PROVE IInv'
  OBVIOUS
<1>1. ASSUME NEW t \in Tabs, TabClick(t) PROVE IInv'
  BY <1>1, TabClickStep
<1>2. ASSUME NEW t \in Tabs, Arrive(t) PROVE IInv'
  BY <1>2, ArriveStep
<1>3. CASE PlayButton \/ StopButton \/ OnItemClicked
  BY <1>3, ButtonsStep
<1>4. ASSUME NEW q \in Players, PlayerMoves(q) PROVE IInv'
  BY <1>4, PlayerMovesStep
<1>5. CASE UNCHANGED vars
  BY <1>5 DEF vars, IInv, TypeOK, Room, Came, Left, Handled, NobodyPlaysOn, TabsAnswer, Stopped
<1> QED  BY <1>1, <1>2, <1>3, <1>4, <1>5 DEF Next

LEMMA Invariant == Spec => []IInv
<1> QED  BY InitInv, StepInv, PTL DEF Spec

-----------------------------------------------------------------------------
(* The state keeps its type: the scripts make a player per click at most,  *)
(* and one for the first tab.                                              *)
THEOREM Typing == Spec => []TypeOK
<1>1. IInv => TypeOK
  BY DEF IInv
<1> QED  BY <1>1, Invariant, PTL

(* As long as every page came for its tab, the players of the pages that   *)
(* were left are stopped.                                                  *)
THEOREM NothingPlaysOn == Spec => []NobodyPlaysOn
<1>1. IInv => NobodyPlaysOn
  BY DEF IInv
<1> QED  BY <1>1, Invariant, PTL

(* And what onDestory of the current page needs is there, unless the demo  *)
(* page is shown again without its script.                                 *)
THEOREM TabsStayUsable == Spec => []TabsAnswer
<1>1. IInv => TabsAnswer
  BY DEF IInv
<1> QED  BY <1>1, Invariant, PTL
=============================================================================
