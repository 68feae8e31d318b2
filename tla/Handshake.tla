------------------------------ MODULE Handshake ------------------------------
(* The three messages of the secure sockets (ClientHello, ServerAuth,       *)
(* ClientConfirm) and the box both sides derive, with ideal cryptography:   *)
(* what os.urandom() and key generation return is never returned again, a   *)
(* signature verifies for its signer and its text only, and a box decrypts  *)
(* what was encrypted in the same box only.  The parties follow the code.   *)
(*                                                                          *)
(* A side makes an ephemeral key pair and a challenge once per handshake;   *)
(* one value stands for both, its session material.                         *)

\* Key exchange: both sides compute the same secret from the two key pairs.
make_session_box(mine, theirs) == {mine, theirs}

Encrypt(box, body) == [type |-> "cipher", box |-> box, body |-> body]
Decrypts(box, msg) == msg.type = "cipher" /\ msg.box = box

\* The client announces its material.
make_client_hello(client) == [type |-> "hello", material |-> client]

\* The server signs the client's material and its own, in this order.
make_server_auth(client, server, key) ==
    [type |-> "auth", material |-> server, signer |-> key, signed |-> <<client, server>>]

verify_server_auth(msg, key, client) ==
    /\ msg.type = "auth"
    /\ msg.signer = key
    /\ msg.signed = <<client, msg.material>>

\* The client signs both again, in the other order.
make_client_confirm(server, client, key) ==
    [type |-> "confirm", signer |-> key, signed |-> <<server, client>>]

\* Variant: any well-formed signature will do.
verify_any_confirm(msg, authorized, server, client) == msg.signed = <<server, client>>

verify_client_confirm(msg, authorized, server, client) ==
    /\ msg.signer \in authorized
    /\ msg.signed = <<server, client>>

=============================================================================
