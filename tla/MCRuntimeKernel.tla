--------------------------- MODULE MCRuntimeKernel ---------------------------
(***************************************************************************)
(* Three small instances of RuntimeKernel, side by side: `instance' says   *)
(* at the start which of them a behaviour is about.                        *)
(***************************************************************************)
EXTENDS RuntimeKernel, TLC

CONSTANTS t1, t2, o1, o2, o3, a1, a2

VARIABLE instance

\* Nothing hidden, an active tab in every window that has tabs.
PlainLayouts(generations) ==
    [tabs : {{}}, hidden : {{}}, active : {NoTab}, generation : generations, ui : {0}]
    \cup [tabs : {{t1}}, hidden : {{}}, active : {t1}, generation : generations, ui : {0}]

\* Tabs hidden in any way, with an active tab or none, with and without a
\* sequence number, of a generation that the window may have left behind.
HiddenLayouts ==
    {l \in [tabs : {{}, {t1}, {t1, t2}}, hidden : SUBSET {t1, t2}, active : {t1, NoTab},
            generation : {0}, ui : 0..1] : l.hidden \subseteq l.tabs}

\* A tab is launched, closed and launched again.
Closing == INSTANCE RuntimeKernel WITH
    WindowIds <- {1}, Tabs <- {t1}, OpIds <- {o1, o2, o3}, Attempts <- {a1, a2},
    MaxGeneration <- 0, MaxSequence <- 0, Layouts <- PlainLayouts({0})

\* A tab moves between windows, which advance by their own intents.
Moving == INSTANCE RuntimeKernel WITH
    WindowIds <- {1, 2}, Tabs <- {t1}, OpIds <- {o1, o2}, Attempts <- {a1},
    MaxGeneration <- 1, MaxSequence <- 0, Layouts <- PlainLayouts({1})

\* Two tabs of a window are selected and hidden.
Selecting == INSTANCE RuntimeKernel WITH
    WindowIds <- {1}, Tabs <- {t1, t2}, OpIds <- {o1}, Attempts <- {a1},
    MaxGeneration <- 1, MaxSequence <- 1, Layouts <- HiddenLayouts

MCInit ==
    \/ instance = "Closing" /\ Closing!Init
    \/ instance = "Moving" /\ Moving!Init
    \/ instance = "Selecting" /\ Selecting!Init

MCNext ==
    /\ UNCHANGED instance
    /\ \/ instance = "Closing" /\ Closing!Next
       \/ instance = "Moving" /\ Moving!Next
       \/ instance = "Selecting" /\ Selecting!Next

MCSpec == MCInit /\ [][MCNext]_<<instance, vars>>

Symmetric == Permutations(OpIds) \cup Permutations(Attempts)
=============================================================================
