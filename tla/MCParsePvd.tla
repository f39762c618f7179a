----------------------------- MODULE MCParsePvd -----------------------------
(***************************************************************************)
(* Instances of ParsePvd: images with every small application data that    *)
(* tells the branches of the parser apart, and images with every small set *)
(* of descriptors.                                                         *)
(***************************************************************************)
EXTENDS ParsePvd, MCImages, SequencesExt

Digit(d) == <<"digit", d>>

\* A field with the tag, whose value says which of several it is.
FieldText(tag, n) ==
  CASE tag = "ISO SHA256SUM" -> << <<tag>>, <<"a">>, Digit(n), Semicolon >>
    [] tag = "ISO MD5SUM" -> << <<tag>>, Digit(n), Semicolon >>
    [] tag = "FRAGMENT SUMS" -> << <<tag>>, <<"a">>, Digit(n), Semicolon >>
    [] tag = "SKIPSECTORS" -> << <<tag>>, Digit(1), Digit(n), Semicolon >>
    [] OTHER -> << <<tag>>, Digit(n), Semicolon >>

Text(tags) == FlattenSeq([n \in DOMAIN tags |-> FieldText(tags[n], n)])

Rest == <<"SKIPSECTORS", "RHLISOSTATUS", "FRAGMENT SUMS", "FRAGMENT COUNT">>

\* As the implanters write it, with the text that ends it.
CertificateText(alg) == Text(<<HashTag(alg)>> \o Rest) \o << <<"THIS">> >>

MCCertificates == {CertificateText(alg) : alg \in Algorithms}

\* The image of three sectors whose application data is the text.
ImageOf(text) ==
  LET blank == MCImage(<<"PRIMARY", "SET_TERMINATOR">>, 3, 3 * SECTOR_SIZE)
  IN  WriteAt(blank, AppDataStart(blank), SubSeq(Torn(text, Len(text)), 1, APPDATA_SIZE))

\* Fields in every order: up to three of any kind, all five, and one twice.
FieldTexts ==
  {Text(tags) : tags \in UNION {[1 .. n -> DOMAIN TaskOf] : n \in 0 .. 3}}
    \cup {Text([i \in 1 .. 5 |-> (<<"ISO MD5SUM">> \o Rest)[order[i]]]) :
            order \in {f \in [1 .. 5 -> 1 .. 5] : \A i, j \in 1 .. 5 : f[i] = f[j] => i = j}}
    \cup {Text(<<"ISO SHA256SUM">> \o Rest \o <<"SKIPSECTORS">>),
          Text(<<"ISO MD5SUM", "SKIPSECTORS", "ISO SHA256SUM", "SKIPSECTORS">>)}

\* Certificates torn anywhere, erased up to anywhere, with one character
\* changed, or so far in the area that its end cuts them.
HarmedTexts ==
  UNION {{SubSeq(text, 1, n) : n \in 0 .. Len(text)}
           \cup {[i \in DOMAIN text |-> IF i <= n THEN Space ELSE text[i]] : n \in DOMAIN text}
           \cup {[text EXCEPT ![at] = c] :
                   at \in DOMAIN text, c \in {Space, Semicolon, NUL, Digit(7), <<"a">>}}
           \cup {[i \in 1 .. n |-> Space] \o text : n \in 1 .. (APPDATA_SIZE - 1)}
         : text \in Certificates}

Types == {"BOOT_RECORD", "ADDITIONAL", "PRIMARY", "SET_TERMINATOR"}

\* Descriptor sequences of length n, the last a stop.
DescriptorSets(n) ==
  {types \in [1 .. n -> Types] : types[n] \in {"PRIMARY", "SET_TERMINATOR"}}

\* Descriptors in every order, each sector readable or not.
ScanMedia ==
  LET sector(k) == DescriptorStart(k) .. (DescriptorStart(k) + SECTOR_SIZE - 1)
      length(n) == (NUM_SYSTEM_SECTORS + n) * SECTOR_SIZE
  IN  UNION {{Medium(MCImage(types, n + 1, length(n)), bad) :
                types \in DescriptorSets(n),
                bad \in {{}} \cup {sector(k) : k \in 0 .. (n - 1)}} : n \in 1 .. 3}

MCMedia ==
  ScanMedia \cup {Medium(ImageOf(text), {}) : text \in FieldTexts \cup HarmedTexts}

\* They are media that the theorems of ParsePvdProofs are about.
ASSUME MediaHaveDescriptors ==
  \A m \in Media : HasDescriptors(m.image, m.unreadable)

\* The same of the certificates.
ASSUME CertificatesAreWhole == \A text \in Certificates : WholeCertificate(text)
=============================================================================
