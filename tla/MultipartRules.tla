--------------------------- MODULE MultipartRules ---------------------------
(***************************************************************************)
(* What backend/posix/posix.go and encryption.go decide about one part of a *)
(* multipart upload: from the attributes of the upload directory and from   *)
(* the request, and again from the stored part when the upload is           *)
(* completed.                                                              *)
(*                                                                         *)
(* Attributes of an upload: "props" (tags, headers and metadata), "lock"    *)
(* (legal hold, retention), a checksum type with its algorithm ("full",     *)
(* "composite"), an encryption ("sse", or "ssec" with a customer's key).    *)
(* Of a stored part it matters whether it has a checksum attribute, whether *)
(* its answer gave the client a checksum, and whether it is encrypted.      *)
(***************************************************************************)
EXTENDS Naturals, Sequences

SumTypes == {"full", "composite"}
\* The order in which CreateMultipartUpload stores them.
AttributeOrder == <<"props", "lock", "full", "composite", "sse", "ssec">>
Attributes == {AttributeOrder[i] : i \in DOMAIN AttributeOrder}
Kinds == [sum : BOOLEAN, told : BOOLEAN, enc : BOOLEAN]

HasSum(attrs) == attrs \cap SumTypes # {}

\* loadMultipartEncryption: no attribute, and no upload either, is no encryption.
loadMultipartEncryption(attrs) == attrs \cap {"sse", "ssec"} # {}

\* A customer's key must be given again, the right one, and only then.
multipartIntent(attrs, key) == key = IF "ssec" \in attrs THEN "right" ELSE "none"

----------------------------------------------------------------------------
(* UploadPart *)

\* The checksum a request declares: none, by the algorithm of the upload, or by
\* another.
Declared == {"none", "same", "other"}

DeclarationFits(attrs, sum) == /\ sum = "none" => "composite" \notin attrs
                               /\ sum = "other" => ~HasSum(attrs)

\* exposeChecksum: a declared checksum is answered also when the upload has no
\* algorithm; then it is not stored.
AnsweredSum(attrs, sum) == HasSum(attrs) \/ sum # "none"

----------------------------------------------------------------------------
(* UploadPartCopy *)

\* An encrypted source or destination is read as plain bytes and given to
\* UploadPart, without a checksum.
CopyThroughUpload(attrs, encrypted) == encrypted \/ loadMultipartEncryption(attrs)


\* Otherwise the checksum is computed from the bytes, or is the source's own when
\* it is by the same algorithm (that of all of the source, also for a range).
CopiedSum(attrs) == HasSum(attrs)

----------------------------------------------------------------------------
(* CompleteMultipartUpload *)

\* What the client sends with the list: a checksum for each part whose answer gave
\* it one, for no part or for every part; or, with the checksums that suit an upload
\* created as it was, one thing that is not right.
Wishes == {"told", "no sums", "sums", "if none match", "type", "digest", "size"}

\* numberOfChecksums: whether the list gives one for a part.
numberOfChecksums(attrs, kind, wish) ==
  IF \/ wish = "sums"
     \/ wish = "told" /\ kind.told
     \/ wish \notin {"told", "no sums"} /\ HasSum(attrs) THEN 1 ELSE 0

\* A part with a checksum must be listed with it, one without must not.
validatePartChecksum(kind, n) == n = IF kind.sum THEN 1 ELSE 0

\* The digest of the whole is compared only for an upload with an algorithm.
TotalsWrong(attrs, wish) == wish = "size" \/ (wish = "digest" /\ HasSum(attrs))
=============================================================================
