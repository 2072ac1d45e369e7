----------------------------- MODULE Interface -----------------------------
(***************************************************************************)
(* The frames of the user interface and the scripts that run while the     *)
(* program walks over them: src/ui/frame.c, src/ui/region.c,               *)
(* src/ui/edit_box.c and src/itf/interface.c.                              *)
(*                                                                         *)
(* One thread runs it all, yet steps do interleave: the loops that deliver *)
(* an input, a drawing, an event or a change of visibility run scripts,    *)
(* and a script may change the very list a loop below it is walking by     *)
(* index, or start another loop.  The state is therefore a stack of        *)
(* activations, the innermost first: each is a C function and where it is. *)
(*                                                                         *)
(* The scripts are outside the program: a script makes any calls.  Where a *)
(* frame is on the screen is left open, and so is what is drawn.           *)
(***************************************************************************)
EXTENDS Integers, Sequences, FiniteSets, SequencesExt

CONSTANTS
  N,            \* how many frames are ever created
  Trees,        \* what the XML loads: the parent of each frame, which comes before it
  Inputs,       \* those that are edit boxes
  HiddenAtLoad, \* those whose XML hides them
  MaxCalls,     \* bound on the calls scripts make
  MaxSwitches   \* bound on the changes of screen

ASSUME Bounds == N \in Nat /\ MaxCalls \in Nat /\ MaxSwitches \in Nat
ASSUME TreesAssumption ==
  \A t \in Trees : t \in Seq(Nat) /\ Len(t) <= N /\ \A f \in DOMAIN t : t[f] < f

Frames == 1..N
Null == 0  \* no frame; as a parent, the lists root_frames of the interface

VARIABLES
  born,       \* the frames created so far
  gone,       \* those interface_clear left out of the interface ...
  freed,      \* ... and among them those it deleted
  parent, rank, \* region->parent, and strata and level in one
  children,   \* frame->frames, and root_frames
  hidden, mouse, hovered, clicked,  \* flags of the region
  active,     \* interface->active_input
  enabled,    \* CHAR_INPUT_ENABLED
  registered, listeners, \* registered_events and frames_events of one event
  stack, used, \* the activations, and event->used of the input
  calls, switches, \* what the bounds leave
  lapsed,     \* history: hovered, where a motion of the pointer may not come
  stuck,      \* history: clicked, where a release may not come
  pressed,    \* history: clicked by a press since the last release
  strayed,    \* history: given the focus while another was losing it
  orphans     \* history: passed over in the list of a frame that was deleted

tree == <<born, gone, freed, parent, rank, children, orphans>>
flags == <<hidden, mouse, hovered, clicked, lapsed, stuck, pressed>>
focus == <<active, enabled, strayed>>
events == <<registered, listeners>>
bounds == <<calls, switches>>
vars == <<tree, flags, focus, events, stack, used, bounds>>

Alive == born \ gone

(* a frame and those it is in                                              *)
Line(f) ==
  LET up[g \in Frames] == {g} \cup (IF parent[g] = Null THEN {} ELSE up[parent[g]]) IN up[f]
Below(p) == IF p = Null THEN Alive ELSE {f \in Alive : p \in Line(f)}
Shown(f) == Line(f) \cap hidden = {}

-----------------------------------------------------------------------------
(* Activations: a loop over a list, a script, or a function between two    *)
(* scripts it runs.                                                        *)

Backwards == {"move", "down", "up"}
Forwards == {"draw", "show", "hide", "event"}
Loops == Backwards \cup Forwards

ListOf(do, of) == IF do = "event" THEN listeners ELSE children[of]

(* A loop that goes forwards begins (at = 1) after the script of its frame.*)
(* due, passed and stir are history: what the list held when the loop      *)
(* began, what the loop passed, whether frames came and went since.        *)
Loop(do, of) ==
  [do |-> do, of |-> of, at |-> IF do \in Backwards THEN Len(ListOf(do, of)) ELSE 0,
   due |-> ToSet(ListOf(do, of)), passed |-> <<>>, stir |-> {}]
At(do, of) == [do |-> do, of |-> of]

(* the script of a frame; a script that can make no more calls returns at  *)
(* once and is left out                                                    *)
Script(f) == IF calls > 0 THEN <<At("script", f)>> ELSE <<>>

Idle == stack = <<>>
Top == Head(stack)
Rest == Tail(stack)
Running(do) == ~Idle /\ Top.do = do
Looping == ~Idle /\ Top.do \in Loops
Turn ==
  IF Top.do \in Forwards /\ Top.at = 0 THEN [Loop(Top.do, Top.of) EXCEPT !.at = 1] ELSE Top
Finished == IF Top.do \in Backwards THEN Top.at = 0 ELSE Turn.at > Len(ListOf(Top.do, Top.of))

Walks(a, do, p) == a.do \in Loops /\ a.of = p /\ (a.do = "event") = (do = "event")

(* the activations, once frames came to or went from a list                *)
Stirred(do, p, how) ==
  [i \in DOMAIN stack |-> IF Walks(stack[i], do, p)
                          THEN [stack[i] EXCEPT !.stir = @ \cup how] ELSE stack[i]]

-----------------------------------------------------------------------------
(* a list of frames, in the order they were loaded                         *)
Loaded(fs) ==
  CHOOSE seq \in [1..Cardinality(fs) -> fs] :
    \A i, j \in DOMAIN seq : i < j => seq[i] < seq[j]

(* What is loaded first; the script OnLoad of each frame has registered it. *)
Init ==
  /\ \E t \in Trees :
       /\ born = DOMAIN t
       /\ parent = [f \in Frames |-> IF f \in DOMAIN t THEN t[f] ELSE Null]
  /\ gone = {} /\ freed = {} /\ orphans = {}
  /\ rank = [f \in Frames |-> 0]
  /\ children = [p \in Null..N |-> Loaded({f \in born : parent[f] = p})]
  /\ hidden = HiddenAtLoad \cap born /\ mouse = born
  /\ hovered = {} /\ clicked = {} /\ lapsed = {} /\ stuck = {} /\ pressed = {}
  /\ active = Null /\ enabled = {} /\ strayed = {}
  /\ registered = born /\ listeners = Loaded(born)
  /\ stack = <<>> /\ used = FALSE
  /\ calls = MaxCalls /\ switches = MaxSwitches

-----------------------------------------------------------------------------
(* What starts while no script runs: an input of the window, a frame to    *)
(* draw, a packet.                                                         *)

Start(do) ==
  /\ Idle
  /\ stack' = <<Loop(do, Null)>>
  /\ used' = FALSE
  /\ UNCHANGED <<tree, flags, focus, events, bounds>>

OnMouseMove == Start("move")
OnMouseDown == Start("down")
OnMouseUp   == Start("up")
Render      == Start("draw")
Event       == Start("event")

(* The key Escape goes to the active input, which is disabled and stays    *)
(* the active one.                                                         *)
Escape ==
  /\ Idle /\ active # Null
  /\ \/ stack' = Script(active) /\ UNCHANGED enabled
     \/ /\ active \in enabled
        /\ enabled' = enabled \ {active}
        /\ stack' = Script(active)
  /\ UNCHANGED <<tree, flags, active, strayed, events, used, bounds>>

(* interface_clear, and the XML of another screen.  A frame that is        *)
(* deleted takes itself out of the list that is being walked: the one      *)
(* after it is passed over, and what is in that one with it.  Nothing      *)
(* tells the one passed over that its parent was deleted.                  *)
Deleted(p) == {children[p][i] : i \in {j \in DOMAIN children[p] : j % 2 = 1}}
PassedOver(p) == ToSet(children[p]) \ Deleted(p)

Clear ==
  LET dead == {f \in Alive : \A g \in Line(f) : g \in Deleted(parent[g])} IN
  /\ gone' = born
  /\ freed' = freed \cup dead
  /\ orphans' = orphans \cup UNION {PassedOver(p) : p \in dead}
  /\ children' = [p \in Null..N |->
       IF p = Null \/ p \in dead THEN <<>> ELSE children[p]]
  /\ listeners' = <<>>
  /\ registered' = registered \ dead
  /\ active' = Null
  /\ enabled' = enabled \ dead
  /\ hovered' = hovered \ dead /\ clicked' = clicked \ dead
  /\ lapsed' = hovered' /\ stuck' = clicked'
  /\ strayed' = enabled'

SwitchScreen ==
  /\ Idle /\ switches > 0
  /\ Clear
  /\ switches' = switches - 1
  /\ stack' = Script(Null) \o <<At("entering", Null)>>
  /\ UNCHANGED <<born, parent, rank, hidden, mouse, pressed, used, calls>>

Entering ==
  /\ Running("entering")
  /\ stack' = <<Loop("event", Null)>>
  /\ UNCHANGED <<tree, flags, focus, events, used, bounds>>

-----------------------------------------------------------------------------
(* The loops.  The list is read anew at every turn, at the index the loop  *)
(* has reached.                                                            *)

(* Those that are hidden are left out of all but an event and a showing.   *)
Skips(do, f) == f \in hidden /\ do \notin {"event", "show"}

(* OnUpdate, OnShow and OnHide come before the children, the handlers of   *)
(* the pointer after them                                                  *)
Visit(do, f) ==
  CASE do = "event"       -> Script(f)
    [] do \in Backwards   -> <<Loop(do, f)>>
    [] OTHER              -> Script(f) \o <<Loop(do, f)>>

LoopTurn ==
  /\ Looping /\ ~Finished
  /\ LET f == ListOf(Top.do, Top.of)[Turn.at]
         turned == [Turn EXCEPT !.at = IF Top.do \in Backwards THEN @ - 1 ELSE @ + 1,
                               !.passed = Append(@, f)] IN
     stack' = (IF Skips(Top.do, f) THEN <<>> ELSE Visit(Top.do, f)) \o <<turned>> \o Rest
  /\ UNCHANGED <<tree, flags, focus, events, used, bounds>>

LoopEnd ==
  /\ Looping /\ Finished
  /\ Top.of = Null \/ Top.do \in Forwards
  /\ stack' = Rest
  /\ pressed' = IF Top.do = "up" THEN {} ELSE pressed
  /\ used' = (used /\ Rest # <<>>)
  /\ UNCHANGED <<tree, hidden, mouse, hovered, clicked, lapsed, stuck, focus, events,
                 bounds>>

(* after its children, the frame itself                                    *)
Self(do) == Running(do) /\ Finished /\ Top.of # Null

-----------------------------------------------------------------------------
(* The pointer.  The frame that takes an input marks it as used: those     *)
(* that come later in the walk lose the pointer.                           *)

(* what hovered may be after on_mouse_move of the region                   *)
PointedUnused(f) == IF f \notin mouse THEN {hovered} ELSE {hovered \cup {f}, hovered \ {f}}  \* mutant
Pointed(f) ==
  IF f \notin mouse THEN {hovered}
  ELSE {hovered \ {f}} \cup (IF used THEN {} ELSE {hovered \cup {f}})

MoveSelf ==
  /\ Self("move")
  /\ LET f == Top.of IN
     /\ hovered' \in Pointed(f)
     /\ used' = (used \/ (f \in mouse /\ f \in hovered'))
     /\ stack' = (IF hovered' = hovered THEN <<>> ELSE Script(f)) \o Rest
     /\ lapsed' = IF f \notin mouse THEN lapsed
                  ELSE IF f \in hovered' /\ ~Shown(f) THEN lapsed \cup {f} ELSE lapsed \ {f}
  /\ UNCHANGED <<tree, hidden, mouse, clicked, stuck, pressed, focus, events, bounds>>

(* An edit box that is clicked, by this press or by an older one, takes    *)
(* the focus.                                                              *)
DownSelf ==
  /\ Self("down")
  /\ LET f == Top.of
         takes == f \in mouse /\ ~used /\ f \in hovered
         new == takes /\ f \notin clicked IN
     /\ clicked' = IF takes THEN clicked \cup {f} ELSE clicked
     /\ used' = (used \/ takes)
     /\ pressed' = IF new THEN pressed \cup {f} ELSE pressed
     /\ stuck' = IF new /\ ~Shown(f) THEN stuck \cup {f} ELSE stuck
     /\ stack' = (IF new THEN Script(f) ELSE <<>>)
                 \o (IF f \in Inputs THEN <<At("pressed", f)>> ELSE <<>>) \o Rest
  /\ UNCHANGED <<tree, hidden, mouse, hovered, lapsed, focus, events, bounds>>

UpSelf ==
  /\ Self("up")
  /\ stack' = (IF Top.of \in hovered THEN Script(Top.of) \o <<At("click", Top.of)>> ELSE <<>>)
              \o <<At("release", Top.of)>> \o Rest
  /\ UNCHANGED <<tree, flags, focus, events, used, bounds>>

(* PreClick, OnClick and PostClick; an edit box takes the focus after the  *)
(* first                                                                   *)
ClickOf(f) ==
  IF f \in Inputs THEN Script(f) \o <<At("focus", f)>> \o Script(f) ELSE Script(f)

ClickSelf ==
  /\ Running("click")
  /\ stack' = (IF Top.of \in clicked THEN ClickOf(Top.of) ELSE <<>>) \o Rest
  /\ UNCHANGED <<tree, flags, focus, events, used, bounds>>

Released(f) == clicked \ {f}

Release ==
  /\ Running("release")
  /\ stack' = Rest
  /\ IF Top.of \in mouse
     THEN /\ clicked' = Released(Top.of)
          /\ stuck' = stuck \ {Top.of}
          /\ used' = (used \/ Top.of \in hovered)
     ELSE UNCHANGED <<clicked, stuck, used>>
  /\ UNCHANGED <<tree, hidden, mouse, hovered, lapsed, pressed, focus, events, bounds>>

-----------------------------------------------------------------------------
(* The focus: interface_set_active_input, in the middle of which the input *)
(* that had it runs OnEditFocusLost.                                       *)

Losing == \E i \in DOMAIN stack : stack[i].do = "gain"

Pressed ==
  /\ Running("pressed")
  /\ stack' = (IF Top.of \in clicked THEN <<At("focus", Top.of)>> ELSE <<>>) \o Rest
  /\ UNCHANGED <<tree, flags, focus, events, used, bounds>>

DisabledNot == enabled  \* mutant
Disabled == enabled \ {active}

Focus ==
  /\ Running("focus")
  /\ enabled' = Disabled
  /\ strayed' = IF Losing THEN strayed \cup ({Top.of} \ {Null}) ELSE strayed
  /\ stack' = (IF active \in enabled THEN Script(active) ELSE <<>>)
              \o <<At("gain", Top.of)>> \o Rest
  /\ UNCHANGED <<tree, flags, active, events, used, bounds>>

Gain ==
  /\ Running("gain")
  /\ active' = Top.of
  /\ enabled' = enabled \cup ({Top.of} \ {Null})
  /\ stack' = (IF Top.of \in enabled \cup {Null} THEN <<>> ELSE Script(Top.of)) \o Rest
  /\ UNCHANGED <<tree, flags, strayed, events, used, bounds>>

-----------------------------------------------------------------------------
(* Calls of a script.                                                      *)

Return ==
  /\ Running("script")
  /\ stack' = Rest
  /\ UNCHANGED <<tree, flags, focus, events, used, bounds>>

Calling ==
  /\ Running("script") /\ calls > 0
  /\ calls' = calls - 1
  /\ UNCHANGED <<switches, used>>

(* a script is not done when the function it called is                     *)
Call(as) == stack' = as \o stack

(* An edit box gives up the focus before it is hidden.                     *)
Hide(f) ==
  /\ Calling /\ f \notin hidden
  /\ Call((IF f = active THEN <<At("focus", Null)>> ELSE <<>>) \o <<At("conceal", f)>>)
  /\ UNCHANGED <<tree, flags, focus, events>>

(* set_hidden and update_visibility of a frame: what the region's own      *)
(* set_hidden does, to forget the pointer, is not done                     *)
Conceal ==
  /\ Running("conceal")
  /\ IF Top.of \in hidden THEN stack' = Rest /\ UNCHANGED <<hidden, lapsed, stuck>>
     ELSE /\ stack' = Script(Top.of) \o <<Loop("hide", Top.of)>> \o Rest
          /\ hidden' = hidden \cup {Top.of}
          /\ lapsed' = lapsed \cup (hovered \cap Below(Top.of))
          /\ stuck' = stuck \cup (clicked \cap Below(Top.of))
  /\ UNCHANGED <<tree, mouse, hovered, clicked, pressed, focus, events, used, bounds>>

Show(f) ==
  /\ Calling /\ f \in hidden
  /\ hidden' = hidden \ {f}
  /\ Call(Script(f) \o <<Loop("show", f)>>)
  /\ UNCHANGED <<tree, mouse, hovered, clicked, lapsed, stuck, pressed, focus, events>>

EnableMouse(f) ==
  /\ Calling
  /\ mouse' = IF f \in mouse THEN mouse \ {f} ELSE mouse \cup {f}
  /\ lapsed' = lapsed \cup (hovered \cap {f})
  /\ stuck' = stuck \cup (clicked \cap {f})
  /\ UNCHANGED <<tree, hidden, hovered, clicked, pressed, focus, events, stack>>

Click(f) ==
  /\ Calling /\ f \notin Inputs
  /\ Call(Script(f))
  /\ UNCHANGED <<tree, flags, focus, events>>

(* A walk of the pointer over a list that changes may pass frames over.    *)
StirFlags(p) ==
  LET walked(do) == \E i \in DOMAIN stack : stack[i].do = do /\ stack[i].of = p IN
  /\ lapsed' = IF walked("move") THEN lapsed \cup (hovered \cap Below(p)) ELSE lapsed
  /\ stuck' = IF walked("up") THEN stuck \cup (clicked \cap Below(p)) ELSE stuck

(* ui_frame_add_child: before the first that is above it                   *)
Inserted(seq, f, r) ==
  LET after == {i \in DOMAIN seq : r < rank[seq[i]]}
      at == IF after = {} THEN Len(seq) + 1 ELSE CHOOSE i \in after : \A j \in after : i <= j
  IN InsertAt(seq, at, f)

WithoutNone(seq, f) == seq  \* mutant
Without(seq, f) == IF f \in ToSet(seq) THEN RemoveFirst(seq, f) ELSE seq

(* SetFrameLevel and ui_frame_set_strata; a frame without a parent keeps   *)
(* its place                                                               *)
SetFrameLevel(f) ==
  /\ Calling
  /\ rank' = [rank EXCEPT ![f] = 1 - @]
  /\ IF parent[f] = Null
     THEN UNCHANGED <<children, stack, lapsed, stuck>>
     ELSE /\ children' = [children EXCEPT ![parent[f]] = Inserted(Without(@, f), f, rank'[f])]
          /\ stack' = Stirred("draw", parent[f], {"in", "out"})
          /\ StirFlags(parent[f])
  /\ UNCHANGED <<born, gone, freed, parent, orphans, hidden, mouse, hovered, clicked, pressed,
                 focus, events>>

(* CreateFrame, for a button or an edit box                                *)
CreateFrame(f, p) ==
  /\ Calling
  /\ born' = born \cup {f}
  /\ parent' = [parent EXCEPT ![f] = p]
  /\ children' = [children EXCEPT ![p] = IF p = Null THEN Append(@, f) ELSE Inserted(@, f, rank[f])]
  /\ mouse' = mouse \cup {f}
  /\ stack' = Script(f) \o Stirred("draw", p, {"in"})
  /\ StirFlags(p)
  /\ UNCHANGED <<gone, freed, rank, orphans, hidden, hovered, clicked, pressed, focus, events>>

RegisterFirst(f) == <<f>> \o listeners  \* mutant
Register(f) == Append(listeners, f)

RegisterEvent(f) ==
  /\ Calling /\ f \notin registered
  /\ registered' = registered \cup {f}
  /\ listeners' = Register(f)
  /\ stack' = Stirred("event", Null, {"in"})
  /\ UNCHANGED <<tree, flags, focus>>

UnregisterEvent(f) ==
  /\ Calling /\ f \in registered
  /\ registered' = registered \ {f}
  /\ listeners' = Without(listeners, f)
  /\ stack' = Stirred("event", Null, {"out"})
  /\ UNCHANGED <<tree, flags, focus>>

(* what a binding tells the other scripts of                               *)
ExecuteEvent ==
  /\ Calling
  /\ Call(<<Loop("event", Null)>>)
  /\ UNCHANGED <<tree, flags, focus, events>>

SetFocus(f) ==
  /\ Calling
  /\ Call(<<At("focus", f)>>)
  /\ UNCHANGED <<tree, flags, focus, events>>

ClearFocus ==
  /\ Calling /\ active # Null
  /\ Call(<<At("focus", Null)>>)
  /\ UNCHANGED <<tree, flags, focus, events>>

Calls ==
  \/ \E f \in Alive :
       \/ Hide(f) \/ Show(f) \/ EnableMouse(f) \/ Click(f)
       \/ SetFrameLevel(f) \/ RegisterEvent(f) \/ UnregisterEvent(f)
  \/ \E f \in Frames \ born, p \in Alive \cup {Null} : CreateFrame(f, p)
  \/ \E f \in Alive \cap Inputs : SetFocus(f)
  \/ ExecuteEvent \/ ClearFocus

Walking == LoopTurn \/ LoopEnd \/ MoveSelf \/ DownSelf \/ UpSelf
           \/ ClickSelf \/ Release

Next ==
  \/ OnMouseMove \/ OnMouseDown \/ OnMouseUp \/ Render \/ Event \/ Escape
  \/ SwitchScreen \/ Entering
  \/ Walking \/ Pressed \/ Focus \/ Gain \/ Return \/ Conceal \/ Calls

Spec == Init /\ [][Next]_vars

-----------------------------------------------------------------------------
(* Properties                                                              *)

(* The lists of the interface and its frames agree: a list holds only      *)
(* frames of the interface whose parent is the frame of the list, each     *)
(* once and, below a frame, in the order of their ranks, and no frame of   *)
(* the interface has a parent that is not in it; the listeners are the     *)
(* registered frames.                                                      *)
ListsOK ==
  /\ \A f \in Alive : parent[f] \in {Null} \cup Alive
  /\ \A p \in {Null} \cup Alive :
       /\ IsInjective(children[p])
       /\ ToSet(children[p]) = {f \in Alive : parent[f] = p}
       /\ p # Null => \A i, j \in DOMAIN children[p] : i < j => rank[children[p][i]] <= rank[children[p][j]]
  /\ IsInjective(listeners) /\ ToSet(listeners) = registered \cap Alive

(* What interface_clear leaves of a screen, deleted by no one, keeps its   *)
(* lists, of what was left and of nothing deleted; but its parents are not *)
(* so.  The children that the destructor of a frame passed over, and no    *)
(* others, still point to the frame that was deleted (src/ui/frame.c:101,  *)
(* src/ui/region.c:66): a script that holds one and asks for its parent    *)
(* reads freed memory.                                                     *)
LeftOK ==
  /\ \A p \in gone \ freed : ToSet(children[p]) = {f \in gone \ freed : parent[f] = p}
  /\ {f \in gone \ freed : parent[f] \in freed} = orphans

(* The tree is one, in the interface and in what is left of the screens    *)
(* before it, but for the orphans that are known.                          *)
TreeOK ==
  /\ freed \subseteq gone /\ gone \subseteq born /\ born \subseteq Frames
  /\ parent \in [Frames -> Null..N] /\ rank \in [Frames -> {0, 1}]
  /\ active \in {Null} \cup (Inputs \cap Alive)
  /\ ListsOK /\ LeftOK

(* A loop by index over a list that its own scripts change.  An event      *)
(* reaches every listener once, those that come meanwhile too, unless one  *)
(* was taken out; a drawing misses none, and a walk of the pointer visits  *)
(* none twice, unless a level changed; only a frame that came makes a      *)
(* drawing visit one twice or the pointer miss one.                        *)
Served ==
  Looping /\ Finished =>
    LET reached == Turn.due \subseteq ToSet(Turn.passed)
        once == IsInjective(Turn.passed)
        all == ToSet(listeners) \subseteq ToSet(Turn.passed) IN
    /\ Top.do = "event" /\ "out" \notin Turn.stir => reached /\ once /\ all
    /\ Top.do # "event" /\ Top.do \in Forwards /\ "out" \notin Turn.stir => reached
    /\ Top.do \in Backwards /\ "out" \notin Turn.stir => once
    /\ Turn.stir = {} => reached /\ once

(* Between two inputs at most one frame is under the pointer, except for   *)
(* those that were hidden, had their mouse disabled or were passed over.   *)
OneHovered == Idle => Cardinality(hovered \ lapsed) <= 1

(* A frame that runs OnClick was pressed since the last release, except    *)
(* for those that a release could not come to.                             *)
ClicksPressed == clicked \subseteq pressed \cup stuck

(* What the flags of the frames say of the pointer is true, wherever a     *)
(* script has hidden, moved or created frames in the middle of a walk.     *)
PointerKnown == OneHovered /\ ClicksPressed

(* Only the active input takes characters, except for one that took the    *)
(* focus from the script of an input that was losing it.                   *)
OneInput == Idle => enabled \subseteq {active} \cup strayed
=============================================================================
