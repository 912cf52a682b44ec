---------------------------- MODULE TracingPatcher ----------------------------
(***************************************************************************)
(* The patches of a tracing session.  leapp.start() replaces functions of  *)
(* torch, numpy and warp, then those the user asked for, by wrappers;      *)
(* leapp.stop() puts the originals back, last patched first.  Meanwhile    *)
(* the program may rebind the same attributes, and an attribute may refuse *)
(* to be assigned.                                                         *)
(*                                                                         *)
(* A callable is the sequence of its wrappers, outermost first, ending in  *)
(* the function they wrap.                                                 *)
(***************************************************************************)
EXTENDS Integers, Sequences, FiniteSets, SequencesExt

CONSTANTS TorchAttrs,  \* TorchPatchBackend._FUNCTIONS
          NumpyAttrs,  \* NumpyPatchBackend._FUNCTIONS
          WarpAttrs,   \* callables of the public warp modules
          Aliases,     \* bindings of warp callables in other modules
          UserAttrs,   \* functions of the user's own modules
          Original,    \* the function each attribute is defined with
          Fragile,     \* attributes that may come to refuse assignment
          MaxStarts    \* bound: sessions

Attrs == TorchAttrs \cup NumpyAttrs \cup WarpAttrs \cup Aliases \cup UserAttrs
Defaults == {"torch", "numpy", "warp"}
Groups == Defaults \cup {"user"}

\* What becomes of the Warp backend in a session: not available (no Warp, or no
\* runtime library or CUPTI for it), or its install returns, or raises.
WarpInstalls == {"absent", "installs", "raises"}

ASSUME PatchAssumption == /\ MaxStarts \in Nat /\ DOMAIN Original = Attrs
                          /\ IsFiniteSet(Attrs)

VARIABLES
    value,     \* what each attribute is bound to
    patches,   \* AttributePatchRegistry._patches of each group
    ready,     \* `_installed` of each backend
    installed, \* TracingPatcher._installed
    session,   \* the functions to trace in the current session, or {}
    clean,     \* history: the session began on a patcher with nothing installed
    starts,    \* sessions started
    stuck,     \* attributes that refuse assignment
    saved,     \* what the program rebound, to put it back later
    overlaid   \* history: attributes rebound over a wrapper of LEAPP

vars == <<value, patches, ready, installed, session, clean, starts,
          stuck, saved, overlaid>>

Interpreting == session # {}

Init == /\ value = [a \in Attrs |-> <<Original[a]>>]
        /\ patches = [g \in Groups |-> <<>>]
        /\ ready = [g \in Groups |-> FALSE]
        /\ installed = FALSE
        /\ session = {}
        /\ clean = TRUE
        /\ starts = 0
        /\ stuck = {}
        /\ saved = [a \in Attrs |-> <<>>]
        /\ overlaid = {}

-----------------------------------------------------------------------------
(* One registry.  The state install and restore pass along: r.ok is FALSE  *)
(* once a step has raised, and the steps after it do nothing.              *)

State == [value |-> value, patches |-> patches, ready |-> ready, ok |-> TRUE]

Wrapper(g, f) == <<[by |-> g, start |-> starts]>> \o f

\* AttributePatchRegistry.install: a refused assignment leaves no entry.
Patched(r, g, a) ==
    IF ~r.ok THEN r
    ELSE IF a \in stuck THEN [r EXCEPT !.ok = FALSE]
    ELSE LET w == Wrapper(g, r.value[a])
         IN [r EXCEPT !.value[a] = w,
                      !.patches[g] = Append(@, [attr |-> a, wrapper |-> w])]

\* Fault: whatever is bound is overwritten.
RestoredOver(r, g) ==
    LET e == Last(r.patches[g])
    IN [r EXCEPT !.value[e.attr] = Tail(e.wrapper), !.patches[g] = Front(@)]

\* The last entry is dropped once its attribute has the original back, or has
\* been rebound by somebody else.  The warp registry suppresses the refusals.
RestoredLast(r, g) ==
    LET e == Last(r.patches[g])
        dropped == [r EXCEPT !.patches[g] = Front(@)]
    IN IF ~r.ok THEN r
       ELSE IF r.value[e.attr] # e.wrapper THEN dropped
       ELSE IF e.attr \in stuck
            THEN IF g = "warp" THEN dropped ELSE [r EXCEPT !.ok = FALSE]
       ELSE [dropped EXCEPT !.value[e.attr] = Tail(e.wrapper)]

\* AttributePatchRegistry.restore: entry by entry, the last one first.
Restored(r, g) ==
    LET after[k \in 0 .. Len(r.patches[g])] ==
            IF k = 0 THEN r ELSE RestoredLast(after[k-1], g)
    IN after[Len(r.patches[g])]

-----------------------------------------------------------------------------
(* The backends *)

Each(r, g, attrs) ==
    LET order == SetToSeq(attrs)
        after[k \in 0 .. Len(order)] ==
            IF k = 0 THEN r ELSE Patched(after[k-1], g, order[k])
    IN after[Len(order)]

\* TorchPatchBackend.install, NumpyPatchBackend.install: a failure takes the
\* patches of this backend off again.
InstallFunctions(r, g, attrs) ==
    LET s == Each(r, g, attrs)
    IN IF r.ready[g] \/ ~r.ok THEN r
       ELSE IF s.ok THEN [s EXCEPT !.ready[g] = TRUE]
       ELSE [Restored([s EXCEPT !.ok = TRUE], g) EXCEPT !.ok = FALSE]

\* Callables defined by warp and not wrapped yet; what refuses is left as it is.
OwnCallables(r) == {a \in WarpAttrs \ stuck : r.value[a] = <<Original[a]>>}

\* Names in the modules loaded so far that refer to a callable of warp's.
LoadedAliases(r) ==
    LET known == {Original[a] : a \in {b \in WarpAttrs : r.value[b] = <<Original[b]>>}}
    IN  {a \in Aliases \ stuck : r.value[a] \in {<<f>> : f \in known}}

\* WarpPatchBackend.install.  It may raise before its first patch, as when CUDA
\* or CUPTI does not start, or after some of them; either way it takes its own
\* patches off again.  Here it raises between Warp's callables and the aliases.
InstallWarp(r, warp) ==
    LET own == Each(r, "warp", OwnCallables(r))
        all == Each(own, "warp", LoadedAliases(r))
    IN IF warp = "absent" \/ ~r.ok THEN r
       ELSE IF warp = "installs" THEN [all EXCEPT !.ready["warp"] = TRUE]
       ELSE [Restored([own EXCEPT !.ok = TRUE], "warp") EXCEPT !.ok = FALSE]

\* Fault: an uninstalled backend still counts as installed.
UninstalledReady(r, g) == IF ~r.ready[g] \/ ~r.ok THEN r ELSE Restored(r, g)

Uninstalled(r, g) ==
    IF ~r.ready[g] \/ ~r.ok THEN r
    ELSE LET s == Restored(r, g) IN [s EXCEPT !.ready[g] = ~s.ok]

\* Fault: the patches installed first are taken off first.
UninstallForwards(r) ==
    Restored(Uninstalled(Uninstalled(Uninstalled(r, "torch"), "numpy"), "warp"), "user")

\* TracingPatcher.uninstall, and the way back of a failing install.
UninstallAll(r) ==
    Uninstalled(Uninstalled(Uninstalled(Restored(r, "user"), "warp"), "numpy"), "torch")

Becomes(r) == /\ value' = r.value
              /\ patches' = r.patches
              /\ ready' = r.ready

-----------------------------------------------------------------------------
\* What a session is to intercept: the default functions, those of Warp that
\* are still Warp's own, and the user's.
Targets(users, warp) ==
    TorchAttrs \cup NumpyAttrs \cup users
    \cup {a \in WarpAttrs : warp = "installs" /\ value[a] = <<Original[a]>>}

\* TracingPatcher.install.  The Warp backend, when Warp is available, is a
\* new one.
InstallAll(users, warp) ==
    LET fresh == [State EXCEPT !.patches["warp"] = <<>>, !.ready["warp"] = FALSE]
        base == InstallFunctions(InstallFunctions(fresh, "torch", TorchAttrs),
                                 "numpy", NumpyAttrs)
    IN Each(InstallWarp(base, warp), "user", users)

\* leapp.start(patching=users).  A patcher that is still installed, because
\* the last stop() raised, installs nothing.
Start(users, warp) ==
    LET r == InstallAll(users, warp)
    IN /\ ~Interpreting
       /\ starts < MaxStarts
       /\ starts' = starts + 1
       /\ clean' = ~installed
       /\ IF installed
          THEN /\ session' = Targets(users, warp)
               /\ UNCHANGED <<value, patches, ready, installed>>
          ELSE IF r.ok
          THEN /\ Becomes(r)
               /\ session' = Targets(users, warp)
               /\ installed' = TRUE
          ELSE /\ Becomes(UninstallAll([r EXCEPT !.ok = TRUE]))
               /\ UNCHANGED <<session, installed>>
       /\ UNCHANGED <<stuck, saved, overlaid>>

\* leapp.stop().  Interpretation has ended even when uninstalling raises.
Stop ==
    LET r == UninstallAll(State)
    IN /\ Interpreting
       /\ session' = {}
       /\ IF installed THEN Becomes(r) /\ installed' = ~r.ok
                       ELSE UNCHANGED <<value, patches, ready, installed>>
       /\ UNCHANGED <<clean, starts, stuck, saved, overlaid>>

Program == [by |-> "program", start |-> 0]
Layers(a) == Front(value[a])
Wrapped(a) == \E k \in DOMAIN Layers(a) : Layers(a)[k] # Program

\* The program replaces an attribute by a function that calls what it found.
Rebind(a) ==
    /\ saved[a] = <<>>
    /\ saved' = [saved EXCEPT ![a] = value[a]]
    /\ value' = [value EXCEPT ![a] = <<Program>> \o @]
    /\ overlaid' = IF Wrapped(a) THEN overlaid \cup {a} ELSE overlaid
    /\ UNCHANGED <<patches, ready, installed, session, clean, starts, stuck>>

\* It puts back what it had found, if it still finds its own function there.
Unbind(a) ==
    /\ saved[a] # <<>>
    /\ value[a] = <<Program>> \o saved[a]
    /\ value' = [value EXCEPT ![a] = saved[a]]
    /\ saved' = [saved EXCEPT ![a] = <<>>]
    /\ UNCHANGED <<patches, ready, installed, session, clean, starts, stuck, overlaid>>

\* An attribute begins or ceases to refuse assignment.
Freeze(a) ==
    /\ stuck' = IF a \in stuck THEN stuck \ {a} ELSE stuck \cup {a}
    /\ UNCHANGED <<value, patches, ready, installed, session, clean, starts,
                   saved, overlaid>>

Next == \/ \E users \in SUBSET (UserAttrs \cup TorchAttrs), warp \in WarpInstalls : Start(users, warp)
        \/ Stop
        \/ \E a \in Attrs \ Fragile : Rebind(a) \/ Unbind(a)
        \/ \E a \in Fragile : Freeze(a)

Spec == Init /\ [][Next]_vars

-----------------------------------------------------------------------------
(* Properties *)

\* The type of every variable; a backend that is not installed has nothing
\* to restore.
TypeOK ==
    /\ \A a \in Attrs : Last(value[a]) = Original[a]
    /\ \A g \in Groups : \A k \in DOMAIN patches[g] :
          LET e == patches[g][k] IN e.attr \in Attrs /\ Head(e.wrapper).by = g
    /\ ready \in [Groups -> BOOLEAN] /\ ~ready["user"]
    /\ \A g \in Defaults : ready[g] \/ patches[g] = <<>>
    /\ installed \in BOOLEAN /\ clean \in BOOLEAN
    /\ session \subseteq Attrs
    /\ starts \in 0 .. MaxStarts
    /\ stuck \subseteq Fragile /\ overlaid \subseteq Attrs

\* TracingPatcher restores "all tracing-session monkeypatches": once nothing
\* is installed, by a stop(), a stop() that had to be retried, or a start()
\* that failed, no wrapper of LEAPP is left, but under a rebinding of the
\* program's and on Warp attributes that refuse to be restored.
OriginalsBack ==
    ~installed => \A a \in Attrs : Wrapped(a) => \/ a \in overlaid
                                               \/ a \in Fragile \cap (WarpAttrs \cup Aliases)

\* A session that began with nothing installed intercepts every function it
\* is to trace with a wrapper of its own, under whatever the program has put
\* over it.
Intercepted ==
    Interpreting /\ clean => \A a \in session \ (Fragile \cap WarpAttrs) :
        \E k \in DOMAIN Layers(a) :
            Layers(a)[k] # Program /\ Layers(a)[k].start = starts - 1

\* Neither start() nor stop() takes away what the program has bound.
ProgramKept ==
    [][\A a \in Attrs :
          Head(value[a]) = Program /\ saved' = saved => IsSuffix(value[a], value'[a])]_vars
=============================================================================
