---------------------------- MODULE MCTranslator ----------------------------
(* Translator with eight virtual and four physical pages, paging structures *)
(* of two entries.                                                          *)
EXTENDS Translator
=============================================================================
