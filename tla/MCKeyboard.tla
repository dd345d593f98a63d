------------------------------- MODULE MCKeyboard -------------------------------
(***************************************************************************)
(* Instances of Keyboard for TLC: keys of every kind a PC keyboard has,    *)
(* with the bytes they send (scan code set 1) and what they mean.          *)
(***************************************************************************)
EXTENDS Keyboard

Plain(p, s, c) ==
  [modifier |-> "none", lock |-> FALSE, letter |-> FALSE, plain |-> p, shifted |-> s, ctl |-> c]
Letter(p, s, c) == [Plain(p, s, c) EXCEPT !.letter = TRUE]
Dead == Plain(0, 0, 0)
Mod(f) == [Dead EXCEPT !.modifier = f]

MCLayout ==
  [ lshift |-> Mod("SHIFT"), rshift |-> Mod("SHIFT"),
    rctrl |-> Mod("CTL"), alt |-> Mod("ALT"),
    caps |-> [Dead EXCEPT !.lock = TRUE],
    a |-> Letter(97, 65, 1), one |-> Plain(49, 33, 0),
    kpdiv |-> Plain(47, 47, 239), home |-> Plain(224, 224, 0),
    kpdot |-> Plain(46, 46, 0), del |-> Plain(233, 233, 233),
    prtsc |-> Dead, pause |-> Dead ]

MCKeys == DOMAIN MCLayout

MCMake ==
  [ lshift |-> <<42>>, rshift |-> <<54>>, rctrl |-> <<224, 29>>, alt |-> <<56>>,
    caps |-> <<58>>, a |-> <<30>>, one |-> <<2>>, kpdiv |-> <<224, 53>>,
    home |-> <<224, 71>>, kpdot |-> <<83>>, del |-> <<224, 83>>,
    prtsc |-> <<224, 42, 224, 55>>, pause |-> <<225, 29, 69, 225, 157, 197>> ]

MCBreak ==
  [ lshift |-> <<170>>, rshift |-> <<182>>, rctrl |-> <<224, 157>>, alt |-> <<184>>,
    caps |-> <<186>>, a |-> <<158>>, one |-> <<130>>, kpdiv |-> <<224, 181>>,
    home |-> <<224, 199>>, kpdot |-> <<211>>, del |-> <<224, 211>>,
    prtsc |-> <<224, 183, 224, 170>>, pause |-> <<>> ]
=============================================================================
