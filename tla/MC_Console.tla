------------------------------ MODULE MC_Console ------------------------------
(* A screen of 4 columns and 3 rows, a prompt of 2 cells, a buffer of 4: a   *)
(* line of 3 characters wraps, scrolls the screen and fills the buffer.  The *)
(* keys are 0, blank, Enter and Backspace; 00 is clear, 000 help, and 0 is   *)
(* peek, which faults on address 0.                                          *)
EXTENDS Console

MCReadable(a) == a # 0
MCMemory(a) == a
MCClear == <<48, 48>>
MCHelp == <<48, 48, 48>>
MCEcho == <<97>>
MCPeek == <<48>>
MCText == <<111>>
MCPrompt == <<36, 32>>
================================================================================
