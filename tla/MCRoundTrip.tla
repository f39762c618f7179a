---------------------------- MODULE MCRoundTrip ----------------------------
(***************************************************************************)
(* Instances of RoundTrip.                                                 *)
(***************************************************************************)
EXTENDS RoundTrip, MCImages

\* Volumes of four sectors, whose two fragments are as wide as a read: blank,
\* on a device that fails to write, and implanted but readable in part; and
\* one of three sectors, whose fragments are narrower, on a device whose
\* writes stop early.
MCMedia ==
  {FaultyMedium(Blank(4), {}, {"write error"}),
   Medium(ImplantedUpTo(Blank(4), 20, "MD5", 0), {20}),
   FaultyMedium(Blank(3), {}, {"short write"})}

MCRequestsA == [alg : {"MD5"}, forceit : BOOLEAN, supported : {0}]

MCRequestsB == [alg : {"SHA256"}, forceit : {TRUE}, supported : {0}]

\* They are media that the theorems of RoundTripProofs are about.
ASSUME MediaAreRegular ==
  \A m \in Media :
    LET start == DescriptorStart(ScanStop(m.image))
        v     == VolumeInfo(m.image)
        n     == ReadablePart(m.image, m.unreadable)
    IN  /\ WellPlaced(m.image)
        /\ AppDataStart(m.image) + APPDATA_SIZE <= Len(m.image)
        /\ DamageAt \cap {start, start + SIZE_OFFSET} = {}
        /\ HasVolumeInfo(m.image, m.unreadable) =>
             /\ StandardCertificate(m.image)
             /\ v.hashsum = HashSum(m.image, n, v.algorithm)
             /\ SumsAgree(m.image, m.unreadable)
=============================================================================
