----------------------------- MODULE SignedUrls -----------------------------
(***************************************************************************)
(* The signed links of auth.py: get_results makes them for the files of a   *)
(* job, signed_url_or_validate takes them in place of an Authorization      *)
(* header.  A signature is the key with all that it signs; of the time of   *)
(* expiry the model keeps what happens to it between the two, since the     *)
(* code signs it and does not look at it otherwise.                         *)
(***************************************************************************)
EXTENDS Integers

CONSTANTS Host, \* what get_results puts before the signed path
          Zone  \* the offset of the local time zone from UTC

\* sign_url: the seconds since 1970 of a naive time, the query, and the signature of all.
sign_url(url, user, expires, key) ==
  [path |-> url, expires |-> expires, user |-> user,
   signature |-> <<key, url, expires, user>>]

Query(url) == [expires |-> url.expires, user |-> url.user, signature |-> url.signature]

\* get_results signs the path and puts scheme and host before it.
Link(path, user, expires, key) ==
  LET url == sign_url(path, user, expires, key)
  IN  [host |-> Host, path |-> url.path, expires |-> url.expires, user |-> url.user,
       signature |-> url.signature]

\* SignedQuery.expires_as_datetime: fromtimestamp gives the local time.
Local(expires) == expires + Zone

\* Variant: the signature is made again for the URL with its host.
valid_with_host(link, key) ==
  Query(sign_url(<<link.host, link.path>>, link.user, Local(link.expires), key)) = Query(link)

\* validate_signed_url: sign the path of the URL again and compare the queries.
validate_signed_url(link, key) ==
  Query(sign_url(link.path, link.user, Local(link.expires), key)) = Query(link)
=============================================================================
