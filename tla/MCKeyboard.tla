------------------------------ MODULE MCKeyboard ------------------------------
(* Keyboard with two character keys, both shift keys and one unsupported   *)
(* extended key: enough for every order of two keys and a modifier.        *)
EXTENDS Keyboard
===============================================================================
