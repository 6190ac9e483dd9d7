------------------------------ MODULE Compositor -----------------------------
(***************************************************************************)
(* What is behind the desktop: the list of windows of omniagent-desktop,   *)
(* which several threads use, with the routing of input, the themes and    *)
(* the pixels, and of omniagent-compositor the GPU's resources, the frames *)
(* of the renderer and the animations.  Only the list of windows is        *)
(* shared; every other operation takes &mut self and is one action.        *)
(*                                                                         *)
(* Animations: of the easing functions the polynomials are modelled, a     *)
(* value being a multiple of 1/Scale; EaseOutElastic and Spring are not.   *)
(***************************************************************************)
EXTENDS Integers, FiniteSetsExt, SequencesExt

CONSTANTS
  Threads,
  Frames,       \* what windows look like: [x, y, width, height, visible]
  Points,       \* [x, y]
  ThemeNames, Looks,
  Textures,     \* descriptors: [width, height, format, mip_levels]
  BufferSizes,
  MaxMemory,    \* of the GPU, 0 for no limit
  Width,        \* sums of sizes are taken modulo Width
  Surfaces,     \* [width, height]
  InFlight,     \* max_frames_in_flight of the configuration
  MaxSamples,   \* of the frame counter, 120 in the code
  AnimationIds, Animations, \* [from, to, duration, delay, easing, count, direction]
  Starts, Times, \* times of animations and of questions about them
  Clock,        \* elapsed times are taken modulo Clock
  MaxIds, MaxFrames \* bounds: windows and resources created, frames rendered

ConstantsOK ==
  /\ MaxMemory < Width /\ BufferSizes \subseteq 0 .. Width - 1
  /\ MaxSamples \in Nat \ {0}
  /\ Starts \cup Times \subseteq Nat /\ Clock \in Nat \ {0}
  /\ \A a \in Animations : a.delay \in Nat /\ a.count \in Nat

VARIABLES
  windows,     \* the frames with their ids, the last on top
  next_id,
  adding,      \* thread -> <<>>, or the window add_window is about to append
  overtaken,   \* history: <<a, b>> when a was appended while b was about to be
  focus,       \* of the router: <<>> or an id
  themes,      \* the themes that can be chosen: [name, look]
  current,     \* the copy of the one that was
  gpu,         \* [textures, buffers, next_texture_id, next_buffer_id, total_*]
  wrapped,     \* history: a sum of sizes has wrapped
  renderer,    \* [surface, swapchain, is_initialized, frame_number, ...]
  advanced,    \* history: frames since the swapchain was made
  rendered,    \* history: frames since the renderer was shut down
  animations   \* id -> [animation, start]

windowvars == <<windows, next_id, adding, overtaken, focus>>
themevars == <<themes, current>>
gpuvars == <<gpu, wrapped>>
framevars == <<renderer, advanced, rendered>>
vars == <<windowvars, themevars, gpuvars, framevars, animations>>

DefaultTheme == [name |-> "Aqua Dark", look |-> "dark"]

NewGpu ==
  [textures |-> <<>>, buffers |-> <<>>, next_texture_id |-> 1, next_buffer_id |-> 1,
   total_texture_memory |-> 0, total_buffer_memory |-> 0]

NewRenderer(surface) ==
  [surface |-> surface, swapchain |-> <<>>, is_initialized |-> FALSE, frame_number |-> 0,
   last_frame_time |-> 0, total_time |-> 0, frame_times |-> <<>>]

Init ==
  /\ windows = <<>>
  /\ next_id = 1
  /\ adding = [t \in Threads |-> <<>>]
  /\ overtaken = {}
  /\ focus = <<>>
  /\ themes = <<DefaultTheme>>
  /\ current = DefaultTheme
  /\ gpu = NewGpu
  /\ wrapped = FALSE
  /\ renderer \in {NewRenderer(surface) : surface \in Surfaces}
  /\ advanced = 0
  /\ rendered = 0
  /\ animations = <<>>

-----------------------------------------------------------------------------
(* The list of windows: add_window takes its id before it locks the list   *)

AddTakesId(t, frame) ==
  /\ adding[t] = <<>>
  /\ next_id <= MaxIds
  /\ adding' = [adding EXCEPT ![t] = <<[id |-> next_id, frame |-> frame]>>]
  /\ next_id' = next_id + 1
  /\ UNCHANGED <<windows, overtaken, focus>>

AddAppends(t) ==
  /\ adding[t] # <<>>
  /\ windows' = windows \o adding[t]
  /\ adding' = [adding EXCEPT ![t] = <<>>]
  /\ overtaken' = overtaken \cup
       {<<adding[t][1].id, adding[u][1].id>> : u \in {u \in Threads \ {t} : adding[u] # <<>>}}
  /\ UNCHANGED <<next_id, focus>>

RemoveWindow(id) ==
  /\ windows' = SelectSeq(windows, LAMBDA w : w.id # id)
  /\ windows' # windows
  /\ UNCHANGED <<next_id, adding, overtaken, focus>>

(* update_window sets position and size *)
UpdateWindow(id, frame) ==
  \E i \in DOMAIN windows :
    /\ windows[i].id = id
    /\ windows' = [windows EXCEPT ![i].frame = [frame EXCEPT !.visible = windows[i].frame.visible]]
    /\ UNCHANGED <<next_id, adding, overtaken, focus>>

(* set_focus takes any id *)
SetFocus(id) == focus' = id /\ UNCHANGED <<windows, next_id, adding, overtaken>>

ContainsPoint(f, p) ==
  p.x >= f.x /\ p.x < f.x + f.width /\ p.y >= f.y /\ p.y < f.y + f.height

(* hit_test: from the end of the list; route_mouse_event leads there or to *)
(* the desktop, <<>>, and route_key_event to the focus                     *)
HitTest(p) ==
  LET hit == SelectSeq(windows, LAMBDA w : w.frame.visible /\ ContainsPoint(w.frame, p))
  IN  IF hit = <<>> THEN <<>> ELSE <<Last(hit).id>>

WindowNext ==
  \/ \E t \in Threads :
       \/ \E frame \in Frames : AddTakesId(t, frame)
       \/ AddAppends(t)
  \/ \E id \in 1 .. MaxIds :
       \/ RemoveWindow(id)
       \/ \E frame \in Frames : UpdateWindow(id, frame)
  \/ \E id \in {<<>>} \cup {<<i>> : i \in 1 .. MaxIds} : SetFocus(id)

-----------------------------------------------------------------------------
(* Themes: what was chosen is a copy, which a theme added later under its  *)
(* name does not change                                                    *)

Named(name) == {i \in DOMAIN themes : themes[i].name = name}

SetTheme(name) ==
  /\ Named(name) # {}
  /\ current' = themes[Min(Named(name))]
  /\ UNCHANGED themes

AddTheme(name, look) ==
  /\ themes' = Append(SelectSeq(themes, LAMBDA t : t.name # name), [name |-> name, look |-> look])
  /\ UNCHANGED current

ThemeNext ==
  \E name \in ThemeNames : SetTheme(name) \/ \E look \in Looks : AddTheme(name, look)

(* Pixels are kept row after row, `stride' apart; what is outside is left  *)
PixelBuffer(width, height) ==
  [width |-> width, height |-> height, stride |-> width,
   data |-> [i \in 0 .. width * height - 1 |-> 0]]

IndexOf(b, x, y) == y * b.stride + x
InBuffer(b, x, y) == x < b.width /\ y < b.height

GetPixel(b, x, y) == IF InBuffer(b, x, y) THEN b.data[IndexOf(b, x, y)] ELSE 0

FillRect(b, x, y, w, h, color) ==
  LET filled == {IndexOf(b, p[1], p[2]) :
                   p \in {q \in (x .. x + w - 1) \X (y .. y + h - 1) : InBuffer(b, q[1], q[2])}}
  IN  [b EXCEPT !.data = [i \in DOMAIN b.data |-> IF i \in filled THEN color ELSE b.data[i]]]

SetPixel(b, x, y, color) == FillRect(b, x, y, 1, 1, color)
Clear(b, color) == [b EXCEPT !.data = [i \in DOMAIN b.data |-> color]]

-----------------------------------------------------------------------------
(* The resources of the GPU                                                *)

BytesPerPixel(format) ==
  CASE format \in {"RGBA8", "BGRA8", "D32Float"} -> 4
    [] format = "RGB8"                           -> 3
    [] format \in {"RG8", "D16Unorm"}            -> 2
    [] format = "R8"                             -> 1

(* memory_size: each level of the chain is half as wide and high, and the  *)
(* one after size 1 is empty                                               *)
Halved(n) == Max({n, 1}) \div 2

MemorySize(d) ==
  LET size[level \in 0 .. d.mip_levels] ==
        IF level = 0 THEN [total |-> 0, w |-> d.width, h |-> d.height]
        ELSE LET s == size[level - 1] IN
             [total |-> (s.total + s.w * s.h * BytesPerPixel(d.format)) % Width,
              w |-> Halved(s.w), h |-> Halved(s.h)]
  IN  size[d.mip_levels].total

(* Without overflow checks a sum of sizes wraps, and a request that should *)
(* be refused fits                                                         *)
MemoryUsage == (gpu.total_texture_memory + gpu.total_buffer_memory) % Width
Wraps(size) == gpu.total_texture_memory + gpu.total_buffer_memory + size >= Width
Fits(size) == MaxMemory = 0 \/ (MemoryUsage + size) % Width <= MaxMemory

CreateTexture(d) ==
  /\ gpu.next_texture_id <= MaxIds
  /\ Fits(MemorySize(d))
  /\ gpu' = [gpu EXCEPT !.next_texture_id = @ + 1,
                        !.total_texture_memory = (@ + MemorySize(d)) % Width,
                        !.textures = (gpu.next_texture_id :> d) @@ @]
  /\ wrapped' = (wrapped \/ Wraps(MemorySize(d)))

Dropped(f, k) == [x \in DOMAIN f \ {k} |-> f[x]]

DestroyTexture(id) ==
  /\ id \in DOMAIN gpu.textures
  /\ gpu' = [gpu EXCEPT !.textures = Dropped(@, id),
                        !.total_texture_memory = (@ - MemorySize(gpu.textures[id])) % Width]
  /\ UNCHANGED wrapped

CreateBuffer(size) ==
  /\ gpu.next_buffer_id <= MaxIds
  /\ Fits(size)
  /\ gpu' = [gpu EXCEPT !.next_buffer_id = @ + 1,
                        !.total_buffer_memory = (@ + size) % Width,
                        !.buffers = (gpu.next_buffer_id :> size) @@ @]
  /\ wrapped' = (wrapped \/ Wraps(size))

DestroyBuffer(id) ==
  /\ id \in DOMAIN gpu.buffers
  /\ gpu' = [gpu EXCEPT !.buffers = Dropped(@, id),
                        !.total_buffer_memory = (@ - gpu.buffers[id]) % Width]
  /\ UNCHANGED wrapped

MemoryAvailable == IF MaxMemory = 0 THEN Width - 1 ELSE Max({0, MaxMemory - MemoryUsage})

GpuNext ==
  \/ \E d \in Textures : CreateTexture(d)
  \/ \E size \in BufferSizes : CreateBuffer(size)
  \/ \E id \in 1 .. MaxIds : DestroyTexture(id) \/ DestroyBuffer(id)

-----------------------------------------------------------------------------
(* The renderer                                                            *)

Swapchain(width, height) ==
  [width |-> width, height |-> height, image_count |-> InFlight + 1, current_image_index |-> 0]

(* initialize is refused without a surface or frames in flight; called     *)
(* again it makes a new swapchain and keeps the frames                     *)
Initialize ==
  /\ renderer.surface.width # 0 /\ renderer.surface.height # 0
  /\ InFlight # 0
  /\ renderer' = [renderer EXCEPT
       !.swapchain = <<Swapchain(renderer.surface.width, renderer.surface.height)>>,
       !.is_initialized = TRUE]
  /\ advanced' = 0
  /\ UNCHANGED rendered

RecordFrame(times, time) ==
  Append(IF Len(times) >= MaxSamples THEN Tail(times) ELSE times, time)

(* render_frame, times in thousandths of a millisecond: time is added only *)
(* once the last frame's time is above 0                                   *)
FrameTime == 16667

RenderFrame ==
  LET delta == IF renderer.last_frame_time > 0 THEN FrameTime ELSE 0
      time  == renderer.total_time + delta
      chain == renderer.swapchain[1]
  IN  /\ renderer.is_initialized
      /\ rendered < MaxFrames
      /\ renderer' = [renderer EXCEPT
           !.last_frame_time = renderer.total_time,
           !.total_time = time,
           !.frame_times = RecordFrame(@, time),
           !.swapchain = <<[chain EXCEPT !.current_image_index = (@ + 1) % chain.image_count]>>,
           !.frame_number = @ + 1]
      /\ advanced' = advanced + 1
      /\ rendered' = rendered + 1

RecreateSwapchain(width, height) ==
  /\ renderer.is_initialized
  /\ width # 0 /\ height # 0
  /\ renderer' = [renderer EXCEPT !.swapchain = <<Swapchain(width, height)>>]
  /\ advanced' = 0
  /\ UNCHANGED rendered

Shutdown ==
  /\ renderer' = NewRenderer(renderer.surface)
  /\ advanced' = 0
  /\ rendered' = 0

FrameNext ==
  \/ Initialize \/ RenderFrame \/ Shutdown
  \/ \E s \in Surfaces : RecreateSwapchain(s.width, s.height)

(* What the frame counter says: frames and time of the average (0 and 1    *)
(* for no rate), least and greatest time between two frames                *)
Elapsed(times) == Last(times) - times[1]
Fps(times) ==
  IF Len(times) < 2 \/ Elapsed(times) <= 0 THEN [frames |-> 0, time |-> 1]
  ELSE [frames |-> Len(times) - 1, time |-> Elapsed(times)]
Deltas(times) == {times[i] - times[i - 1] : i \in 2 .. Len(times)}
MinFrameTime(times) == IF Len(times) < 2 THEN 0 ELSE Min(Deltas(times))
MaxFrameTime(times) == Max({0} \cup Deltas(times))

-----------------------------------------------------------------------------
(* Animations.  The progress is n / d; values of an easing function are    *)
(* multiples of 1 / Unit(d), those of an animation too                     *)

Unit(d) == 100000 * d * d * d
Overshoot == 170158

EaseIn(e, n, d) ==
  CASE e = "Quad"  -> 100000 * n * n * d
    [] e = "Cubic" -> 100000 * n * n * n
    [] e = "Back"  -> n * n * ((Overshoot + 100000) * n - Overshoot * d)

EaseOut(e, n, d) ==
  CASE e = "Quad"  -> 100000 * n * (2 * d - n) * d
    [] e = "Cubic" -> 100000 * (n - d) * (n - d) * (n - d) + Unit(d)
    [] e = "Back"  ->
         (n - d) * (n - d) * ((Overshoot + 100000) * (n - d) + Overshoot * d) + Unit(d)

EaseInOut(e, n, d) ==
  CASE e = "Quad" /\ 2 * n < d   -> 200000 * n * n * d
    [] e = "Quad" /\ 2 * n >= d  -> 100000 * (4 * d - 2 * n) * n * d - Unit(d)
    [] e = "Cubic" /\ 2 * n < d  -> 400000 * n * n * n
    [] e = "Cubic" /\ 2 * n >= d -> 50000 * (2 * n - 2 * d) * (2 * n - 2 * d) * (2 * n - 2 * d) + Unit(d)

Eased(easing, n, d) ==
  CASE easing.kind = "Linear"    -> 100000 * n * d * d
    [] easing.kind = "EaseIn"    -> EaseIn(easing.of, n, d)
    [] easing.kind = "EaseOut"   -> EaseOut(easing.of, n, d)
    [] easing.kind = "EaseInOut" -> EaseInOut(easing.of, n, d)

UnitOf(a) == Unit(Max({1, a.duration}))

(* is_complete; a count of 0 repeats for ever                              *)
Iteration(a, elapsed) == (elapsed - a.delay) \div a.duration

IsComplete(a, elapsed) ==
  /\ a.count # 0
  /\ elapsed >= a.delay
  /\ a.duration = 0 \/ Iteration(a, elapsed) >= a.count

(* The value at the end, the way the last round went                       *)
Forwards(a, round) == a.direction = "Normal" \/ (a.direction = "Alternate" /\ round % 2 = 0)
Final(a) == IF Forwards(a, a.count - 1) THEN a.to ELSE a.from

(* evaluate: `from' before the delay is over, `to' if it takes no time,    *)
(* the final value when it is complete                                     *)
FinalValue(a) ==
  CASE a.direction = "Normal"    -> a.to
    [] a.direction = "Reverse"   -> a.from
    [] a.direction = "Alternate" -> IF a.count % 2 = 0 THEN a.from ELSE a.to

Evaluate(a, elapsed) ==
  CASE elapsed < a.delay -> a.from * UnitOf(a)
    [] elapsed >= a.delay /\ a.duration = 0 -> a.to * UnitOf(a)
    [] elapsed >= a.delay /\ a.duration # 0 /\ IsComplete(a, elapsed) -> FinalValue(a) * UnitOf(a)
    [] elapsed >= a.delay /\ a.duration # 0 /\ ~IsComplete(a, elapsed) ->
         LET eased == Eased(a.easing, (elapsed - a.delay) % a.duration, a.duration)
         IN  IF a.direction = "Normal"
                \/ (a.direction = "Alternate" /\ Iteration(a, elapsed) % 2 = 0)
             THEN a.from * UnitOf(a) + (a.to - a.from) * eased
             ELSE a.to * UnitOf(a) + (a.from - a.to) * eased

(* The manager; the time elapsed is truncated to 32 bits                   *)
AddAnimation(id, a, start) == animations' = (id :> [animation |-> a, start |-> start]) @@ animations

RemoveAnimation(id) ==
  /\ id \in DOMAIN animations
  /\ animations' = Dropped(animations, id)

ElapsedOf(id, now) == (now - animations[id].start) % Clock

ValueOf(id, now) ==
  IF id \notin DOMAIN animations \/ now < animations[id].start THEN <<>>
  ELSE <<Evaluate(animations[id].animation, ElapsedOf(id, now))>>

CompleteOf(id, now) ==
  \/ id \notin DOMAIN animations
  \/ now >= animations[id].start /\ IsComplete(animations[id].animation, ElapsedOf(id, now))

AnimationNext ==
  \E id \in AnimationIds :
    \/ \E a \in Animations, start \in Starts : AddAnimation(id, a, start)
    \/ RemoveAnimation(id)

-----------------------------------------------------------------------------

Next ==
  \/ WindowNext /\ UNCHANGED <<themevars, gpuvars, framevars, animations>>
  \/ ThemeNext /\ UNCHANGED <<windowvars, gpuvars, framevars, animations>>
  \/ GpuNext /\ UNCHANGED <<windowvars, themevars, framevars, animations>>
  \/ FrameNext /\ UNCHANGED <<windowvars, themevars, gpuvars, animations>>
  \/ AnimationNext /\ UNCHANGED <<windowvars, themevars, gpuvars, framevars>>

Spec == Init /\ [][Next]_vars

-----------------------------------------------------------------------------

(* The types of the variables. *)
TypeOK ==
  /\ next_id \in 1 .. MaxIds + 1
  /\ \A i \in DOMAIN windows : windows[i].id \in 1 .. MaxIds
  /\ DOMAIN adding = Threads
  /\ current.name \in ThemeNames \cup {DefaultTheme.name}
  /\ gpu.total_texture_memory \in 0 .. Width - 1 /\ gpu.total_buffer_memory \in 0 .. Width - 1
  /\ renderer.is_initialized \in BOOLEAN
  /\ DOMAIN animations \subseteq AnimationIds

(* No two windows of the list, or on their way into it, have one id; the   *)
(* order is that of the ids except for windows whose add_window overlapped *)
(* (the id is taken before the lock); a point is led to a window that      *)
(* contains it, above all others that do; a theme's name is there once.    *)
WindowListExact ==
  LET pending == {t \in Threads : adding[t] # <<>>} IN
  /\ \A i, j \in DOMAIN windows :
       i < j => /\ windows[i].id # windows[j].id
                /\ windows[i].id < windows[j].id
                     \/ <<windows[i].id, windows[j].id>> \in overtaken
  /\ \A t \in pending : \A i \in DOMAIN windows : windows[i].id # adding[t][1].id
  /\ \A t, u \in pending : t # u => adding[t][1].id # adding[u][1].id
  /\ \A p \in Points :
       \/ HitTest(p) = <<>>
       \/ \E i \in DOMAIN windows :
            /\ <<windows[i].id>> = HitTest(p) /\ ContainsPoint(windows[i].frame, p)
            /\ \A j \in i + 1 .. Len(windows) :
                 windows[j].frame.visible => ~ContainsPoint(windows[j].frame, p)

(* A name leads to one theme, and what was chosen stays what it was: when  *)
(* a theme is added under its name, the list may hold another look.        *)
ThemesExact ==
  /\ \A i, j \in DOMAIN themes : themes[i].name = themes[j].name => i = j
  /\ Named(current.name) # {}

(* A rectangle of pixels is filled to its edges and nothing else is.       *)
PixelsExact ==
  \A x, y, w, h \in 0 .. 3 :
    LET before == SetPixel(Clear(PixelBuffer(3, 2), 7), 1, 1, 8)
        after  == FillRect(before, x, y, w, h, 9)
    IN  \A px, py \in 0 .. 4 :
          GetPixel(after, px, py) =
            IF x <= px /\ px < x + w /\ y <= py /\ py < y + h /\ px < 3 /\ py < 2 THEN 9
            ELSE GetPixel(before, px, py)

(* The totals are the memory of the resources there are, within the limit  *)
(* until a sum wraps; what is said to be available can be had.             *)
GpuExact ==
  /\ gpu.total_texture_memory
       = MapThenSumSet(LAMBDA id : MemorySize(gpu.textures[id]), DOMAIN gpu.textures) % Width
  /\ gpu.total_buffer_memory
       = MapThenSumSet(LAMBDA id : gpu.buffers[id], DOMAIN gpu.buffers) % Width
  /\ ~wrapped /\ MaxMemory # 0 =>
       /\ gpu.total_texture_memory + gpu.total_buffer_memory <= MaxMemory
       /\ Fits(MemoryAvailable)
       /\ MemoryUsage + MemoryAvailable = MaxMemory

(* There is a swapchain just while the renderer is initialized; the image  *)
(* is that of the frames since it was made; the counter keeps the last     *)
(* frames.  Time never passes: all frames are at 0 and the rate is 0.      *)
FramesExact ==
  /\ renderer.is_initialized <=> renderer.swapchain # <<>>
  /\ renderer.is_initialized =>
       /\ renderer.swapchain[1].current_image_index = advanced % (InFlight + 1)
       /\ renderer.swapchain[1].width # 0 /\ renderer.swapchain[1].height # 0
  /\ renderer.frame_number = rendered
  /\ Len(renderer.frame_times) = Min({rendered, MaxSamples})
  /\ renderer.total_time = 0 /\ Fps(renderer.frame_times).frames = 0

(* The average lies between the least and the greatest frame time.         *)
RateExact ==
  \A n \in 1 .. 4 : \A times \in [1 .. n -> 0 .. 3] :
    LET rate == Fps(times) IN
    /\ rate.frames * MinFrameTime(times) <= rate.time \/ rate.frames = 0
    /\ rate.time <= rate.frames * MaxFrameTime(times) \/ rate.frames = 0
    /\ MaxFrameTime(times) = 0 => rate.frames = 0

(* An animation that is complete shows its final value, the end of its     *)
(* last round (or `to', if it takes no time), and stays complete until the *)
(* time elapsed wraps; without overshoot every value is between the ends.  *)
AnimationsExact ==
  \A id \in DOMAIN animations :
    LET a     == animations[id].animation
        start == animations[id].start
    IN  \A now \in Times :
          /\ ValueOf(id, now) = <<>> <=> now < start
          /\ CompleteOf(id, now) =>
               /\ ValueOf(id, now) = <<(IF a.duration = 0 THEN a.to ELSE Final(a)) * UnitOf(a)>>
               /\ \A later \in Times :
                    later >= now /\ later - start < Clock => CompleteOf(id, later)
          /\ a.easing.of # "Back" /\ now >= start =>
               /\ ValueOf(id, now)[1] >= Min({a.from, a.to}) * UnitOf(a)
               /\ ValueOf(id, now)[1] <= Max({a.from, a.to}) * UnitOf(a)

(* An easing function leads from 0 to 1; easing out is easing in backwards *)
(* and easing in and out its own reverse.                                  *)
EasingExact ==
  \A d \in 1 .. 4 : \A n \in 0 .. d :
    /\ \A e \in {"Quad", "Cubic", "Back"} :
         /\ EaseOut(e, n, d) = Unit(d) - EaseIn(e, d - n, d)
         /\ EaseIn(e, 0, d) = 0 /\ EaseIn(e, d, d) = Unit(d)
    /\ \A e \in {"Quad", "Cubic"} :
         /\ EaseInOut(e, n, d) = Unit(d) - EaseInOut(e, d - n, d)
         /\ EaseInOut(e, 0, d) = 0 /\ EaseInOut(e, d, d) = Unit(d)

=============================================================================
