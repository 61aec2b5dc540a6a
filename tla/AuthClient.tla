------------------------------ MODULE AuthClient ------------------------------
(***************************************************************************)
(* Messages of the authentication protocol, as the client library of the     *)
(* browser builds and reads them.  The digests of a password (getEncrypted-  *)
(* MergeMsg) are equal when id and password are, so a message carries these. *)
(***************************************************************************)

getEncryptedMergeMsg(id, psw) == [id |-> id, psw |-> psw]

coreIdExistRegistRequestMsgGenProcess(id) ==
    [header |-> "IDExist", id |-> id]

coreIdPswRegistRequestMsgGenProcess(id, psw) ==
    [header |-> "IdPswRegReq", auth |-> getEncryptedMergeMsg(id, psw)]

coreIdPswLogInStartRequestMsgGenProcess == [header |-> "IdPswLogInStartReq"]

coreIdPswLogInRequestMsgGenProcess(id, psw, nonce) ==
    [header |-> "IdPswLogInReq", auth |-> getEncryptedMergeMsg(id, psw), nonce |-> nonce]

coreIdPswChangePswRequestMsgGenProcess(id, psw, newPsw) ==
    [header |-> "ChangePswReq", auth |-> getEncryptedMergeMsg(id, psw), new |-> newPsw]

coreIdPswUnRegistRequestMsgGenProcess(id) ==
    [header |-> "UnRegistReq", id |-> id]

\* The answers the client reads; the header of any other message, or none,
\* gives the empty string.
Answers == {"IDExistAck", "IdPswRegRes", "IdPswLogInSTartRes", "IdPswLogInRes",
            "ChagePswRes", "UnRegistRes"}
checkHeader(header) == header \in Answers
coreMsgPacketParser(message) == IF checkHeader(message.header) THEN message.body ELSE ""

\* Registration stops when the id exists.
GoesOn(existAck) == coreMsgPacketParser(existAck) # "0x6010"
=============================================================================
