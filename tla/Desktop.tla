------------------------------- MODULE Desktop -------------------------------
(***************************************************************************)
(* The desktop of omniagent-shell: the window manager, the dock, the menu  *)
(* bar, the bar of agents with the search over them, and the tree of       *)
(* components that user events go through.  Every operation takes          *)
(* &mut self, hence is one action; each part is one record, and they share *)
(* no state (AquaShell keeps the first and the last and hands calls on).   *)
(* Titles, colours, fonts and opacity are left out.  A coordinate is an    *)
(* integer, also where the code has a float.                               *)
(***************************************************************************)
EXTENDS Integers, SequencesExt

CONSTANTS
  Bounds,       \* rectangles: [x, y, width, height]
  Limits,       \* <<>> for no limit, or <<[width, height]>>
  Sizes, Points, \* [width, height] and [x, y]
  Screen,       \* a size
  DockIds, DockStates, DockPositions, Coordinates,
  Icon, Spacing, \* icon_size and spacing of the dock
  TitleLengths, \* of menus
  Agents, Names, Usages, Queries, \* names and queries are sequences of letters
  Lower,        \* letter -> letter, to_lowercase
  Components,   \* what is added to the root container
  MaxWindows, MaxItems, MaxMenus, MaxComponents \* bounds

ConstantsOK ==
  /\ \A r \in Bounds : r.width \in Nat /\ r.height \in Nat
  /\ Icon \in Nat \ {0} /\ Spacing \in Nat \ {0}
  /\ DockPositions \subseteq {"Bottom", "Left", "Right"}
  /\ TitleLengths \subseteq Nat

VARIABLES
  wm,      \* [windows, z_order, focused_window, next_id]
  dock,    \* [position, items, hovered_index]
  pointer, \* history: where the pointer was last over the dock, or <<>>
  menubar, \* [menus, active_menu]
  titled,  \* history: the menu whose title the pointer was last at, or 0
  bar,     \* entries: [agent_handle, name, cpu_usage, memory_used]
  sorted,  \* history: what the bar is sorted by since it last changed
  spotlight, \* [state, results, selected_index, query]
  root     \* the root container

windowvars == wm
dockvars == <<dock, pointer>>
menuvars == <<menubar, titled>>
barvars == <<bar, sorted, spotlight>>
vars == <<windowvars, dockvars, menuvars, barvars, root>>

(* Rect::contains, whose right and lower edges are outside *)
Covers(r, p) ==
  p.x >= r.x /\ p.x < r.x + r.width /\ p.y >= r.y /\ p.y < r.y + r.height

Container(children) == [kind |-> "Container", visible |-> TRUE, children |-> children]

Init ==
  /\ wm = [windows |-> <<>>, z_order |-> <<>>, focused_window |-> <<>>, next_id |-> 1]
  /\ dock \in [position : DockPositions, items : {<<>>}, hovered_index : {<<>>}]
  /\ pointer = <<>>
  /\ menubar = [menus |-> <<>>, active_menu |-> <<>>]
  /\ titled = 0
  /\ bar = <<>>
  /\ sorted = "no"
  /\ spotlight = [state |-> "Hidden", results |-> <<>>, selected_index |-> 0, query |-> <<>>]
  /\ root = Container(<<>>)

-----------------------------------------------------------------------------
(* Windows *)

WindowStates == {"Normal", "Minimized", "Maximized", "Fullscreen", "Hidden"}

Without(s, id) == SelectSeq(s, LAMBDA i : i # id)

(* focus_window raises the window and numbers all of them again *)
Focused(m, id) ==
  LET order == Append(Without(m.z_order, id), id)
  IN  [m EXCEPT
        !.windows = [w \in DOMAIN m.windows |->
          [m.windows[w] EXCEPT
             !.z_order = (CHOOSE i \in DOMAIN order : order[i] = w) - 1,
             !.focused = IF w = id THEN TRUE ELSE @ /\ m.focused_window # <<w>>]],
        !.z_order = order,
        !.focused_window = <<id>>]

CreateWindow(bounds, min_size, max_size) ==
  /\ wm.next_id <= MaxWindows
  /\ LET id == wm.next_id
         window == [bounds |-> bounds, min_size |-> min_size, max_size |-> max_size,
                    state |-> "Normal", z_order |-> Len(wm.z_order), focused |-> FALSE]
     IN  wm' = Focused([wm EXCEPT
                 !.windows = [w \in DOMAIN @ \cup {id} |-> IF w = id THEN window ELSE @[w]],
                 !.z_order = Append(@, id),
                 !.next_id = @ + 1], id)

(* The window on top gets the focus of a destroyed one; nothing is raised  *)
(* or numbered again                                                       *)
Inherited(m) ==
  IF m.z_order = <<>> THEN [m EXCEPT !.focused_window = <<>>]
  ELSE LET top == Last(m.z_order)
       IN  [m EXCEPT !.focused_window = <<top>>, !.windows[top].focused = TRUE]

DestroyWindow(id) ==
  /\ id \in DOMAIN wm.windows
  /\ LET left == [wm EXCEPT !.windows = [w \in DOMAIN @ \ {id} |-> @[w]],
                            !.z_order = Without(@, id)]
     IN  wm' = IF wm.focused_window = <<id>> THEN Inherited(left) ELSE left

FocusWindow(id) == id \in DOMAIN wm.windows /\ wm' = Focused(wm, id)

(* minimize_window, maximize_window and restore_window; the bounds of a    *)
(* window that was maximised are gone                                      *)
SetState(id, state) ==
  /\ id \in DOMAIN wm.windows
  /\ wm' = [wm EXCEPT !.windows[id].state = state,
                      !.windows[id].bounds =
                        IF state = "Maximized" THEN [x |-> 0, y |-> 0, width |-> Screen.width,
                                height |-> Screen.height]
                        ELSE @]

MoveWindow(id, p) ==
  /\ id \in DOMAIN wm.windows
  /\ wm' = [wm EXCEPT !.windows[id].bounds.x = p.x, !.windows[id].bounds.y = p.y]

Within(size, window) ==
  /\ \A min \in ToSet(window.min_size) : size.width >= min.width /\ size.height >= min.height
  /\ \A max \in ToSet(window.max_size) : size.width <= max.width /\ size.height <= max.height

ResizeWindow(id, size) ==
  /\ id \in DOMAIN wm.windows
  /\ Within(size, wm.windows[id])
  /\ wm' = [wm EXCEPT !.windows[id].bounds.width = size.width,
                      !.windows[id].bounds.height = size.height]

Shown(window) == window.state \notin {"Minimized", "Hidden"}

(* window_at: <<>>, or the first that is hit from the top *)
WindowAt(p) ==
  LET hit == SelectSeq(wm.z_order, LAMBDA id :
               Shown(wm.windows[id]) /\ Covers(wm.windows[id].bounds, p))
  IN  IF hit = <<>> THEN <<>> ELSE <<Last(hit)>>

WindowNext ==
  \/ \E b \in Bounds, min, max \in Limits : CreateWindow(b, min, max)
  \/ \E id \in DOMAIN wm.windows :
       \/ DestroyWindow(id)
       \/ FocusWindow(id)
       \/ \E state \in {"Minimized", "Maximized", "Normal"} : SetState(id, state)
       \/ \E p \in Points : MoveWindow(id, p)
       \/ \E size \in Sizes : ResizeWindow(id, size)

-----------------------------------------------------------------------------
(* The dock, along its axis *)

AddItem(id) ==
  /\ Len(dock.items) < MaxItems
  /\ \A i \in DOMAIN dock.items : dock.items[i].id # id
  /\ dock' = [dock EXCEPT !.items = Append(@, [id |-> id, state |-> "Normal"])]
  /\ UNCHANGED pointer

(* remove_item forgets a place that is gone *)
HoverKept(index, items) == IF index # <<>> /\ index[1] > Len(items) THEN <<>> ELSE index

RemoveItem(id) ==
  /\ \E i \in DOMAIN dock.items : dock.items[i].id = id
  /\ LET items == SelectSeq(dock.items, LAMBDA item : item.id # id)
     IN  dock' = [dock EXCEPT !.items = items, !.hovered_index = HoverKept(@, items)]
  /\ UNCHANGED pointer

UpdateState(id, state) ==
  /\ dock' = [dock EXCEPT !.items = [i \in DOMAIN @ |->
       IF @[i].id = id THEN [@[i] EXCEPT !.state = state] ELSE @[i]]]
  /\ UNCHANGED pointer

(* The items under a place of the axis that is `along' from the origin *)
Under(along) ==
  {i \in DOMAIN dock.items :
     along >= (i - 1) * (Icon + Spacing) /\ along <= (i - 1) * (Icon + Spacing) + Icon}

HandleHover(along) ==
  /\ dock' = [dock EXCEPT !.hovered_index = SetToSeq(Under(along))]
  /\ pointer' = <<along>>

(* handle_click: <<>>, or the id of the first item there *)
Clicked(along) ==
  IF Under(along) = {} THEN <<>>
  ELSE <<dock.items[CHOOSE i \in Under(along) : \A j \in Under(along) : i <= j].id>>

TotalWidth ==
  IF dock.items = <<>> THEN 0
  ELSE Len(dock.items) * Icon + (Len(dock.items) - 1) * Spacing

(* bounds: where the dock begins along its axis and across it *)
DockBounds(screen) ==
  LET length == IF dock.position = "Bottom" THEN screen.width ELSE screen.height
      breadth == Icon + 16
  IN  [along |-> IF length > TotalWidth THEN (length - TotalWidth) \div 2 ELSE 0,
       across |-> CASE dock.position = "Bottom" -> screen.height - breadth
                    [] dock.position = "Left" -> 0
                    [] dock.position = "Right" -> screen.width - breadth]

DockNext ==
  \/ \E id \in DockIds :
       \/ AddItem(id)
       \/ RemoveItem(id)
       \/ \E state \in DockStates : UpdateState(id, state)
  \/ \E along \in Coordinates : HandleHover(along)

-----------------------------------------------------------------------------
(* The menu bar *)

TitleWidth(length) == IF length * 10 + 20 > 80 THEN length * 10 + 20 ELSE 80

(* total_width, of the first n titles *)
WidthOf(n) ==
  FoldLeft(LAMBDA w, length : w + TitleWidth(length), 0, SubSeq(menubar.menus, 1, n))

(* The menu whose title is at x, or 0 *)
TitleAt(x) ==
  LET at == {i \in DOMAIN menubar.menus : x >= WidthOf(i - 1) /\ x < WidthOf(i)}
  IN  IF at = {} THEN 0 ELSE CHOOSE i \in at : TRUE

AddMenu(length) ==
  /\ Len(menubar.menus) < MaxMenus
  /\ menubar' = [menubar EXCEPT !.menus = Append(@, length)]
  /\ UNCHANGED titled

(* A click opens the menu, and closes the one that is open; behind the     *)
(* last title it closes it too                                             *)
ClickMenu(x) ==
  LET i == TitleAt(x)
  IN  /\ menubar' = [menubar EXCEPT !.active_menu = IF i = 0 \/ @ = <<i>> THEN <<>> ELSE <<i>>]
      /\ titled' = i

(* The menu that is open follows the pointer *)
HoverMenu(x) ==
  LET i == TitleAt(x)
  IN  /\ menubar' = [menubar EXCEPT !.active_menu = IF i = 0 \/ @ = <<>> THEN @ ELSE <<i>>]
      /\ titled' = IF i = 0 THEN titled ELSE i

MenuNext ==
  \/ \E length \in TitleLengths : AddMenu(length)
  \/ \E x \in Coordinates : ClickMenu(x) \/ HoverMenu(x)

-----------------------------------------------------------------------------
(* The bar of agents and the search over them *)

Folded(letters) == [i \in DOMAIN letters |-> Lower[letters[i]]]

(* Whether the query occurs in the name, whatever the case *)
Matches(name, query) ==
  \E i \in 0 .. Len(name) - Len(query) :
    SubSeq(Folded(name), i + 1, i + Len(query)) = Folded(query)

Found(query) == SelectSeq(bar, LAMBDA e : Matches(e.name, query))

(* add_agent replaces the entry of the handle and moves it to the end *)
AddAgent(handle, name) ==
  /\ bar' = Append(SelectSeq(bar, LAMBDA e : e.agent_handle # handle),
                   [agent_handle |-> handle, name |-> name, cpu_usage |-> 0, memory_used |-> 0])
  /\ sorted' = "no"
  /\ UNCHANGED spotlight

RemoveAgent(handle) ==
  /\ bar' = SelectSeq(bar, LAMBDA e : e.agent_handle # handle)
  /\ UNCHANGED <<sorted, spotlight>>

UpdateAgent(handle, cpu, mem) ==
  /\ bar' = [i \in DOMAIN bar |->
       IF bar[i].agent_handle = handle
       THEN [bar[i] EXCEPT !.cpu_usage = cpu, !.memory_used = mem] ELSE bar[i]]
  /\ sorted' = "no"
  /\ UNCHANGED spotlight

(* sort_by_cpu and sort_by_memory: the largest first, else as they were *)
SortBar(field) ==
  LET Rank(i) == Cardinality({j \in DOMAIN bar :
                   bar[j][field] > bar[i][field] \/ (bar[j][field] = bar[i][field] /\ j <= i)})
  IN  /\ bar' = [r \in DOMAIN bar |-> bar[CHOOSE i \in DOMAIN bar : Rank(i) = r]]
      /\ sorted' = field
      /\ UNCHANGED spotlight

Closed(state) == [state |-> state, results |-> <<>>, selected_index |-> 0, query |-> <<>>]

(* open and close *)
OpenOrClose(state) == spotlight' = Closed(state) /\ UNCHANGED <<bar, sorted>>

(* A search that finds something selects the first *)
Selected(results, index) == IF results = <<>> THEN index ELSE 0

(* search keeps the names and shows what is hidden *)
Search(query) ==
  LET found == IF query = <<>> THEN <<>> ELSE Found(query)
      results == [i \in DOMAIN found |-> found[i].name]
  IN  /\ spotlight' = [state |-> IF results = <<>> THEN "Visible" ELSE "ShowingResults",
                       results |-> results, query |-> query,
                       selected_index |-> Selected(results, spotlight.selected_index)]
      /\ UNCHANGED <<bar, sorted>>

(* select_next and select_prev *)
Select(step) ==
  /\ spotlight.results # <<>>
  /\ spotlight' = [spotlight EXCEPT !.selected_index = (@ + step) % Len(spotlight.results)]
  /\ UNCHANGED <<bar, sorted>>

(* confirm returns the result that is selected and closes *)
Confirm ==
  /\ spotlight.results # <<>>
  /\ spotlight' = Closed("Hidden")
  /\ UNCHANGED <<bar, sorted>>

BarNext ==
  \/ \E handle \in Agents :
       \/ \E name \in Names : AddAgent(handle, name)
       \/ RemoveAgent(handle)
       \/ \E cpu, mem \in Usages : UpdateAgent(handle, cpu, mem)
  \/ \E field \in {"cpu_usage", "memory_used"} : SortBar(field)
  \/ \E state \in {"Visible", "Hidden"} : OpenOrClose(state)
  \/ \E query \in Queries : Search(query)
  \/ \E step \in {1, -1} : Select(step)
  \/ Confirm

-----------------------------------------------------------------------------
(* Components.  One that was added is changed by events only: the children *)
(* of a container cannot be borrowed mutably.                              *)

EventKinds == {"Click", "MouseMove"} \* of the left button; nobody handles the others

(* Button::handle_event *)
ButtonHandled(button, event) ==
  LET inside == Covers(button.bounds, event.at)
  IN  CASE ~button.enabled -> [component |-> button, taken |-> FALSE, clicked |-> <<>>]
        [] event.kind = "Click" ->
             [component |-> [button EXCEPT !.pressed = @ \/ inside],
              taken |-> inside,
              clicked |-> IF inside THEN <<button.id>> ELSE <<>>]
        [] event.kind = "MouseMove" ->
             [component |-> [button EXCEPT !.hovered = inside],
              taken |-> inside # button.hovered, clicked |-> <<>>]

RECURSIVE Handled(_, _)

(* Container::handle_event offers the event to its visible children, the   *)
(* last added first, until one takes it; the bounds of containers do not   *)
(* matter                                                                  *)
Offered(container, event) ==
  LET Offer(i, sofar) ==
        IF sofar.taken \/ ~sofar.component.children[i].visible THEN sofar
        ELSE LET h == Handled(sofar.component.children[i], event)
             IN  [h EXCEPT !.component = [sofar.component EXCEPT !.children[i] = h.component]]
  IN  FoldRight(Offer, [i \in DOMAIN container.children |-> i],
                [component |-> container, taken |-> FALSE, clicked |-> <<>>])

(* handle_event: the component, whether it took the event and whose click  *)
(* callback ran                                                            *)
Handled(component, event) ==
  CASE component.kind = "Container" -> Offered(component, event)
    [] component.kind = "Button" -> ButtonHandled(component, event)
    [] component.kind = "Label" -> [component |-> component, taken |-> FALSE, clicked |-> <<>>]

AddChild(component) ==
  /\ Len(root.children) < MaxComponents
  /\ root' = [root EXCEPT !.children = Append(@, component)]

HandleEvent(event) == root' = Handled(root, event).component

ComponentNext ==
  \/ \E component \in Components : AddChild(component)
  \/ \E kind \in EventKinds, p \in Points : HandleEvent([kind |-> kind, at |-> p])

-----------------------------------------------------------------------------

Next ==
  \/ WindowNext /\ UNCHANGED <<dockvars, menuvars, barvars, root>>
  \/ DockNext /\ UNCHANGED <<windowvars, menuvars, barvars, root>>
  \/ MenuNext /\ UNCHANGED <<windowvars, dockvars, barvars, root>>
  \/ BarNext /\ UNCHANGED <<windowvars, dockvars, menuvars, root>>
  \/ ComponentNext /\ UNCHANGED <<windowvars, dockvars, menuvars, barvars>>

Spec == Init /\ [][Next]_vars

-----------------------------------------------------------------------------

TypeOK ==
  /\ \A id \in DOMAIN wm.windows : id < wm.next_id /\ wm.windows[id].state \in WindowStates
  /\ dock.items \in Seq([id : DockIds, state : DockStates \cup {"Normal"}])
  /\ menubar.menus \in Seq(TitleLengths)
  /\ \A i \in DOMAIN bar : bar[i].agent_handle \in Agents /\ bar[i].name \in Names
  /\ spotlight.state \in {"Hidden", "Visible", "ShowingResults"}
  /\ root.kind = "Container" /\ Len(root.children) <= MaxComponents

(* The windows are stacked once each and numbered as they are stacked, the *)
(* one on top has the focus and knows it, alone, whatever was destroyed    *)
(* below or above; what is hit is the shown window of highest number there *)
(* (create_window, focus_window, destroy_window, window_at).               *)
WindowsExact ==
  LET Number(id) == wm.windows[id].z_order
  IN  /\ IsInjective(wm.z_order) /\ ToSet(wm.z_order) = DOMAIN wm.windows
      /\ \A i, j \in DOMAIN wm.z_order : i < j => Number(wm.z_order[i]) < Number(wm.z_order[j])
      /\ wm.focused_window = IF wm.z_order = <<>> THEN <<>> ELSE <<Last(wm.z_order)>>
      /\ {id \in DOMAIN wm.windows : wm.windows[id].focused} = ToSet(wm.focused_window)
      /\ \A p \in Points :
           LET there == {id \in DOMAIN wm.windows :
                           Shown(wm.windows[id]) /\ Covers(wm.windows[id].bounds, p)}
           IN  ToSet(WindowAt(p)) =
                 {id \in there : \A other \in there : Number(other) <= Number(id)}

(* The item that is marked as hovered is the one where the pointer is,     *)
(* also after others were removed, and what a click there opens; the items *)
(* lie within the dock, which is in the middle of the screen (handle_hover,*)
(* remove_item, handle_click, bounds).                                     *)
DockExact ==
  LET at == DockBounds(Screen).along
      length == IF dock.position = "Bottom" THEN Screen.width ELSE Screen.height
      rest == length - at - TotalWidth
  IN  /\ \A i, j \in DOMAIN dock.items : dock.items[i].id = dock.items[j].id => i = j
      /\ dock.hovered_index # <<>> =>
           /\ pointer # <<>> /\ Under(pointer[1]) = ToSet(dock.hovered_index)
           /\ Clicked(pointer[1]) = <<dock.items[dock.hovered_index[1]].id>>
      /\ \A x \in Coordinates : Under(x) # {} => x >= 0 /\ x <= TotalWidth
      /\ rest >= 0 => rest - at \in {0, 1}

(* The menu that is open is the one whose title the pointer was last at,   *)
(* however titles are added and the pointer moves (handle_click and        *)
(* handle_hover).                                                          *)
MenuExact == menubar.active_menu # <<>> => menubar.active_menu = <<titled>>

(* Agents are in the bar once, in the order last asked for; the search     *)
(* selects one of its results while it shows some, each of which matches   *)
(* what was searched for, and hidden it has none (AgentBar, Spotlight).    *)
BarExact ==
  /\ \A i, j \in DOMAIN bar :
       /\ bar[i].agent_handle = bar[j].agent_handle => i = j
       /\ sorted # "no" /\ i < j => bar[i][sorted] >= bar[j][sorted]
  /\ (spotlight.state = "ShowingResults") <=> (spotlight.results # <<>>)
  /\ spotlight.results # <<>> => spotlight.selected_index < Len(spotlight.results)
  /\ \A i \in DOMAIN spotlight.results : Matches(spotlight.results[i], spotlight.query)
  /\ spotlight.state = "Hidden" => spotlight = Closed("Hidden")

RECURSIVE Buttons(_)

(* The enabled buttons that events reach, in the order they were added *)
Buttons(component) ==
  CASE ~component.visible -> <<>>
    [] component.kind = "Button" -> IF component.enabled THEN <<component>> ELSE <<>>
    [] component.kind = "Label" -> <<>>
    [] OTHER -> FlattenSeq([i \in DOMAIN component.children |-> Buttons(component.children[i])])

(* A click runs the callback of the last added button there and of no      *)
(* other; once nobody takes a move of the pointer, just the buttons under  *)
(* it are hovered (Container and Button of component.rs).  One move is not *)
(* enough: the button that takes it hides it from those added before.      *)
ComponentsExact ==
  \A p \in Points :
    LET under == SelectSeq(Buttons(root), LAMBDA b : Covers(b.bounds, p))
        moved == Handled(root, [kind |-> "MouseMove", at |-> p])
    IN  /\ Handled(root, [kind |-> "Click", at |-> p]).clicked =
             IF under = <<>> THEN <<>> ELSE <<Last(under).id>>
        /\ ~moved.taken =>
             \A b \in ToSet(Buttons(root)) : b.hovered <=> Covers(b.bounds, p)

=============================================================================
