----------------------------- MODULE MCCsvExtract -----------------------------
(* A table of two chunks, and a window that brings the first.               *)
EXTENDS CsvExtract

FirstChunk == {1}
=============================================================================
