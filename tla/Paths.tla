-------------------------------- MODULE Paths --------------------------------
(***************************************************************************)
(* PathNormalizer::PredictPathType (Sys/Win/PathPredictor.cpp): what kind  *)
(* of Windows path a string is, told by its beginning.  A path is a        *)
(* sequence of characters; "z" stands for the letters, "a" for those that  *)
(* are hexadecimal digits too, and a word the code looks for is one        *)
(* element.  It is the build without checks: an __hc_invariant has no      *)
(* effect, and reaching an __hc_unreachable or slicing a string beyond its *)
(* end may do anything, which is the prediction "Undefined".               *)
(***************************************************************************)
EXTENDS Integers, Sequences, SequencesExt, FiniteSets

CONSTANT Inputs   \* the paths clients ask about

VARIABLE path     \* the one being predicted

Sep   == {"/", "\\"}
Value == [c \in {"1", "3"} |-> IF c = "1" THEN 1 ELSE 3]
Digit == DOMAIN Value
HexWords == {"DosDevices", "CON", "COM"}    \* they begin like a number does
Words    == HexWords \cup {"GLOBAL", "UNC", "PRN", "LPT"}
                                       \* "CON" also for AUX, "PRN" for NUL
Letter == {"a", "z"}
Hex    == Digit \cup {"a"}
Alpha  == Letter \cup Words
Alnum  == Alpha \cup Digit
NUL    == "NUL"
Blocks == {"8x", "4x", "12x"}          \* those of a GUID, by their lengths
Other  == {".", "?", ":", "$", "_", "-", "}", "Volume{", "#"} \cup Blocks
Char   == Sep \cup Alnum \cup Other \cup {NUL}   \* "#" for the rest

ASSUME PathsAssumption ==
  \A p \in Inputs :
    /\ p \in Seq(Char)
    /\ \A i \in 1 .. Len(p) : p[i] \in Blocks => i > 1 /\ p[i - 1] \in {"Volume{", "-"}

(* What begins with a hexadecimal digit, with a letter.                    *)
HexLed   == Hex \cup HexWords
AlphaLed == Alpha \cup {"Volume{"}

Begins(p, S) == p # <<>> /\ p[1] \in S
Drop(p, n)   == SubSeq(p, n + 1, Len(p))

(* Less than three characters; every word has at least three.              *)
Short(p) == Len(p) < 3 /\ \A i \in 1 .. Len(p) : p[i] \notin Words \cup {"Volume{"} \cup Blocks

(* How many elements p begins with before the first that is in S.          *)
Until(p, S) == CHOOSE n \in 0 .. Len(p) : /\ \A i \in 1 .. n : p[i] \notin S
                                          /\ n < Len(p) => p[n + 1] \in S

-----------------------------------------------------------------------------
is_device_path(p) ==
  Len(p) >= 4 /\ p[1] \in Sep /\ p[2] \in Sep /\ p[3] \in {".", "?"} /\ p[4] \in Sep

is_volume(p) == Len(p) >= 2 /\ p[1] \in Letter /\ p[2] = ":"

guid == <<"8x", "-", "4x", "-", "4x", "-", "4x", "-", "12x">>
is_volume_guid(p) == IsPrefix(<<"Volume{">> \o guid \o <<"}">>, p)

(* Mutation: only a backslash may end the prefix.                          *)
NtBackslashed(p) ==
  LET q == Drop(p, IF Len(p) > 1 /\ p[2] = "GLOBAL" THEN 2 ELSE 1)
  IN  Begins(p, Sep) /\ Len(q) >= 3 /\ q[1] = "?" /\ q[2] = "?" /\ q[3] = "\\"

is_nt_path(p) ==
  LET q == Drop(p, IF Len(p) > 1 /\ p[2] = "GLOBAL" THEN 2 ELSE 1)
  IN  Begins(p, Sep) /\ Len(q) >= 3 /\ q[1] = "?" /\ q[2] = "?" /\ q[3] \in Sep

-----------------------------------------------------------------------------
(* The host of a UNC path.  A consumer leaves the rest of the path and the *)
(* kind of host it found; "Unknown" may leave a path consumed in part.     *)
Found(type, p) == [type |-> type, path |-> p]

Digits(p) == Until(p, {p[i] : i \in 1 .. Len(p)} \ Digit)

(* Each digit is added before the number is multiplied.                    *)
consumeUnsigned(p) ==
  FoldLeft(LAMBDA v, c : (v + Value[c]) * 10, 0, SubSeq(p, 1, Digits(p)))

Octet(s, i) ==
  LET rest == Drop(s.path, Digits(s.path))
  IN  IF s.type # "IPv4" THEN s
      ELSE IF s.path = <<>> \/ consumeUnsigned(s.path) > 255 THEN Found("Undefined", <<>>)
      ELSE IF i = 4 THEN Found("IPv4", rest)
      ELSE IF Begins(rest, {"."}) THEN Found("IPv4", Tail(rest))
      ELSE Found("Unknown", rest)

consume_unc_ipv4(p) == Octet(Octet(Octet(Octet(Found("IPv4", p), 1), 2), 3), 4)

(* The scan runs to the end of the path, not of the address.               *)
Nibble(s, c) ==
  IF c \in Hex THEN [s EXCEPT !.block = @ + 1, !.bad = @ \/ s.block = 4]
  ELSE IF c # ":" THEN [s EXCEPT !.bad = TRUE]
  ELSE IF s.block = 0 THEN [s EXCEPT !.double = TRUE, !.bad = @ \/ s.double]
  ELSE [s EXCEPT !.block = 0, !.left = @ - 1, !.bad = @ \/ s.left = 0]

consume_unc_ipv6(p) ==
  LET scan[k \in 0 .. Len(p)] ==
        IF k = 0 THEN [block |-> 0, left |-> 8, double |-> FALSE, bad |-> FALSE]
        ELSE Nibble(scan[k - 1], p[k])
      s == scan[Len(p)]
  IN  IF s.bad THEN Found("Undefined", <<>>)
      ELSE IF IF s.double THEN s.left <= 1 ELSE s.left # 0 THEN Found("Unknown", p)
      ELSE Found("IPv6", <<>>)

(* Which of them it looks like, by the first four characters.              *)
is_ipv4(p) ==
  LET n == Digits(p)
  IN  IF n >= 4 \/ n = Len(p) \/ p[n + 1] \in HexLed \cup {":"} THEN "IPv6"
      ELSE IF p[n + 1] = "." THEN "IPv4" ELSE "Unknown"

consume_unc_ip(p) ==
  IF Short(p) \/ is_ipv4(p) = "Unknown" THEN Found("Unknown", p)
  ELSE IF is_ipv4(p) = "IPv4" THEN consume_unc_ipv4(p) ELSE consume_unc_ipv6(p)

(* Mutation: the name may begin with any character.                        *)
HostFromAny(p) ==
  LET n == Until(p, {"\\"})
  IN  Found(IF n = Len(p) THEN "Unknown" ELSE "Host", Drop(p, n))

consume_unc_server_host(p) ==
  LET n     == 1 + Until(Tail(p), {"\\", "$"})
      name  == SubSeq(p, 1, n)
      Marks == {i \in 2 .. n : name[i] \in {"_", "."}}
      dots  == Cardinality({i \in 2 .. n : name[i] = "."})
      FQDN  == \E i \in Marks : name[i] = "." /\ \A j \in Marks : j <= i
      rest  == Drop(p, IF n < Len(p) /\ p[n + 1] = "$" THEN n + 1 ELSE n)
  IN  IF ~Begins(p, AlphaLed) THEN Found("Unknown", p)
      ELSE IF \/ dots > 2
              \/ FQDN /\ (name[n] = "." \/ (n < Len(p) /\ p[n + 1] = "$"))
           THEN Found("Undefined", <<>>)
      ELSE Found(IF ~Begins(rest, {"\\"}) THEN "Unknown" ELSE "Host", rest)

(* What the address left of the path is tried as a name.                   *)
consume_unc_prefix(p) ==
  LET ip == consume_unc_ip(p)
  IN  IF ip.type = "Unknown" THEN consume_unc_server_host(ip.path) ELSE ip

consume_unc_share(p) ==
  LET n == Until(p, Sep)
  IN  \/ \A i \in 1 .. n : p[i] \in Alnum
      \/ n >= 2 /\ p[1] \in Letter \cup Digit /\ p[2] = "$"

is_unc_path(p) ==
  LET host == consume_unc_prefix(Drop(p, 2))
  IN  IF ~IsPrefix(<<"\\", "\\">>, p) THEN "no"
      ELSE IF host.type = "Undefined" THEN "Undefined"
      ELSE IF /\ host.type # "Unknown"
              /\ Begins(host.path, {"\\"})
              /\ consume_unc_share(Tail(host.path))
           THEN "yes" ELSE "no"

-----------------------------------------------------------------------------
is_legacy_device(p) ==
  \/ p \in {<<"CON">>, <<"PRN">>}
  \/ Len(p) = 2 /\ p[1] \in {"COM", "LPT"} /\ p[2] \in Digit

DriveName(p) == SubSeq(p, 1, Until(p, Sep))

(* A path that is DosDevices and nothing more is sliced beyond its end.    *)
deduce_dos_drive_type(p) ==
  LET from[k \in 0 .. Len(p)] ==
        LET q == Drop(p, k)
            S == DriveName(q)
        IN  IF S = <<>> \/ \E i \in 1 .. Len(S) : S[i] \notin Alnum THEN "Unknown"
            ELSE IF S = <<"DosDevices">> THEN IF q = S THEN "Undefined" ELSE from[k + 2]
            ELSE IF is_legacy_device(S) THEN "LegacyDevice" ELSE "DosDrive"
  IN  from[0]

deduce_device_path_type(p, type) ==
  IF is_volume(p) THEN IF Begins(Drop(p, 2), Sep) THEN "DosVolume" ELSE "Unknown"
  ELSE IF is_volume_guid(p) THEN "GUIDVolume"
  ELSE IF type # "." THEN "Unknown"
  ELSE IF Begins(p, {"UNC"}) THEN "DeviceUNC" ELSE deduce_dos_drive_type(p)

deduce_path_type(p) ==
  IF ~Begins(p, Sep)
  THEN IF ~is_volume(p) THEN "DirRel"
       ELSE IF Len(p) = 2 \/ p[3] \in Sep THEN "QualDOS" ELSE "DriveRel"
  ELSE IF is_device_path(p) THEN deduce_device_path_type(Drop(p, 4), p[3])
  ELSE IF is_nt_path(p) THEN "NtNamespace"
  ELSE IF is_unc_path(p) = "Undefined" THEN "Undefined"
  ELSE IF is_unc_path(p) = "yes" THEN "UNCNamespace"
  ELSE IF ~Begins(Tail(p), Sep) THEN "CurrDriveRel" ELSE "Unknown"

(* back() reads beyond the string, so whether a terminator is cut off is   *)
(* left to what happens to be there.                                       *)
dropNull(p) == {p, SubSeq(p, 1, Until(p, {NUL}))}

-----------------------------------------------------------------------------
PathInit == path = <<>>
Ask      == path = <<>> /\ path' \in Inputs
Answered == path' = <<>>
PathNext == Ask \/ Answered
PathSpec == PathInit /\ [][PathNext]_path

-----------------------------------------------------------------------------
S \odot T == {s \o t : s \in S, t \in T}
Under(S, p) == \E s \in S : IsPrefix(s, p)

One(S)    == {<<c>> : c \in S}
Volumes   == One(Letter) \odot One({":"})
Device(S) == One(Sep) \odot One(Sep) \odot One(S) \odot One(Sep)
Reserved  == One({"CON", "PRN"}) \cup (One({"COM", "LPT"}) \odot One(Digit))

(* How often DosDevices\ may be cut off.                                   *)
Links(q) == {n \in 0 .. Len(q) : /\ 2 * n <= Len(q)
                                 /\ \A i \in 1 .. n : /\ q[2 * i - 1] = "DosDevices"
                                                      /\ q[2 * i] \in Sep}

(* Where the host of a UNC path ends.                                      *)
HostEnds(p) == {n \in 4 .. Len(p) : /\ IsPrefix(<<"\\", "\\">>, p) /\ p[n] = "\\"
                                    /\ \A i \in 3 .. n - 1 : p[i] # "\\"}
(* A plain host, begun by one of S, and a share.                           *)
PlainUNC(p, S) == \E n \in HostEnds(p) : /\ p[3] \in S /\ n < Len(p)
                                         /\ \A i \in 3 .. Len(p) : i = n \/ p[i] \in Alnum

(* The type t of a path by its form.                                      *)
FormTells(p, t) ==
  LET Is(type, S) == t = type <=> Under(S, p)
      Rooted == Under(One(Sep), p)
  IN  /\ Is("NtNamespace", One(Sep) \odot {<<"?", "?">>, <<"GLOBAL", "?", "?">>} \odot One(Sep))
      /\ Is("GUIDVolume", Device({".", "?"}) \odot {<<"Volume{">> \o guid \o <<"}">>})
      /\ Is("DosVolume", Device({".", "?"}) \odot Volumes \odot One(Sep))
      /\ Is("DeviceUNC", Device({"."}) \odot {<<"UNC">>})
      /\ t = "QualDOS" <=> p \in Volumes \/ Under(Volumes \odot One(Sep), p)
      /\ t = "DriveRel" <=> Under(Volumes, p) /\ t # "QualDOS"
      /\ t = "DirRel" <=> ~Rooted /\ ~Under(Volumes, p)
      /\ t = "CurrDriveRel" => Rooted /\ ~Under(One(Sep) \odot One(Sep), p)
      /\ t \in {"DosDrive", "LegacyDevice"} => Under(Device({"."}), p)

(* A reserved name, behind any number of links.                            *)
DeviceTells(p, t) ==
  t = "LegacyDevice" <=>
    /\ Under(Device({"."}), p)
    /\ \E n \in Links(Drop(p, 4)) :
         LET name == Drop(p, 4 + 2 * n)
         IN  name \in Reserved \/ Under(Reserved \odot One(Sep), name)

(* A host and a share.                                                     *)
HostTells(p, t) ==
  /\ t = "UNCNamespace" => \E n \in HostEnds(p) : /\ p[3] \in Alnum \cup {".", "Volume{"}
                                                  /\ n < Len(p) => p[n + 1] \in Alnum \cup Sep
  /\ PlainUNC(p, Alpha \ HexLed) => t = "UNCNamespace"
  /\ PlainUNC(p, Alpha \cap HexLed) => t = "Undefined"

(* A path is given the type whose form it has, whatever the order the code *)
(* tests the forms in and whatever a test that failed has consumed; a      *)
(* reserved name is a device behind any number of links, alone or before a *)
(* separator; a UNC path has a host, and every plain host with a share     *)
(* makes one.  The forms are those the code keeps apart, which are not all *)
(* of PathNormalizer.hpp:63-76: \\?\UNC (line 68) has no type, a reserved  *)
(* name without a prefix (line 71 and Driver.cpp:515) is a relative path   *)
(* and behind /??/ (Driver.cpp:517) one of the kernel's, and a host (line  *)
(* 69) that begins with a letter from a to f is read as an address, whose  *)
(* first backslash runs into undefined behaviour.                          *)
PathsAgree ==
  \A p \in dropNull(path) :
    LET t == deduce_path_type(p)
    IN  FormTells(p, t) /\ DeviceTells(p, t) /\ HostTells(p, t)

Slashed(p)  == [i \in 1 .. Len(p) |-> IF p[i] \in Sep THEN "/" ELSE p[i]]
Extended(p) == p \o <<"\\", "z">>

SlashedAlike(p, t, u) ==
  u = t \/ (IsPrefix(<<"\\", "\\">>, p) /\ u = "Unknown" /\ t \in {"UNCNamespace", "Undefined"})

ExtendedAlike(p, t, u) ==
  t \in {"Unknown", "CurrDriveRel", "Undefined"} \/ p = <<>> \/ u \in {t, "Undefined"}

(* Slashes and backslashes mean the same ("they get converted to           *)
(* backslashes either way", PathNormalizer.hpp:57-58) but for the host of  *)
(* a UNC path, and a path that has its type keeps it under every further   *)
(* component.  (More characters may make an IPv6 address of a short host.) *)
PathsAlike ==
  LET t == deduce_path_type(path)
  IN  /\ SlashedAlike(path, t, deduce_path_type(Slashed(path)))
      /\ ExtendedAlike(path, t, deduce_path_type(Extended(path)))
=============================================================================
