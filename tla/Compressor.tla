----------------------------- MODULE Compressor -----------------------------
(***************************************************************************)
(* The compressor setting of rpm.go, "name" or "name:level", as the         *)
(* sequence of the parts between its colons.  A level is the empty string,  *)
(* a number gzip knows ("9") or does not ("99"), the name of a zstd level   *)
(* ("fastest"), or none of these.                                           *)
(***************************************************************************)
EXTENDS Integers, Sequences, FiniteSets

Numbers == {"9", "99"}

Level(parts) == IF Len(parts) = 2 THEN parts[2] ELSE ""

Type(parts) == IF parts[1] = "" THEN "gzip" ELSE parts[1]

\* setupCompressor: whether the setting gives a writer.
SetupCompressor(parts) ==
  /\ Len(parts) <= 2
  /\ \/ Type(parts) = "gzip" /\ Level(parts) \in {"", "9"}
     \/ Type(parts) \in {"lzma", "xz"} /\ Level(parts) = ""
     \/ Type(parts) = "zstd" /\ Level(parts) \in {"", "fastest"} \cup Numbers

\* What NewRPM keeps of the setting: the name, without the level.
CompressorName(parts) == Type(parts)

\* setupDecompressor: whether the name read from a header gives a reader.
SetupDecompressor(name) == name \in {"", "gzip", "lzma", "xz", "zstd"}
=============================================================================
