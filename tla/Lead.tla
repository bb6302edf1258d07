-------------------------------- MODULE Lead --------------------------------
(***************************************************************************)
(* The lead of header.go, the first 96 bytes of an rpm file.  A string is   *)
(* represented by its length, 0 being the empty string: the lead's layout   *)
(* depends on nothing else.                                                 *)
(***************************************************************************)
EXTENDS Integers

\* FullVersion: "version-release", or the version when there is no release.
FullVersion(version, release) ==
  IF release > 0 THEN version + 1 + release ELSE version

\* computeName, first part: the length of the name with the version behind it.
LeadName(name, version) ==
  IF name = 0 \/ version = 0 THEN name ELSE name + 1 + version

\* computeName: the number of bytes in the name field for a lead name and a
\* version of these lengths.
ComputeName(name, version) ==
  IF name > 0 /\ LeadName(name, version) > 65 THEN 65 ELSE 66

\* toArray: magic, version, type, arch, the name, os, signature type, reserved.
LeadLen(name, version) == 4 + 2 + 2 + 2 + ComputeName(name, version) + 2 + 2 + 16

\* toArray returns an error unless the lead has exactly 96 bytes.
LeadFits(name, version) == LeadLen(name, version) = 96
=============================================================================
