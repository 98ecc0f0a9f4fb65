------------------------------ MODULE StoredName ------------------------------
(* How an upload is filed and named, and as what its content endpoint serves  *)
(* it.  Mime types and extensions stand by one name for each combination of   *)
(* tables they are listed in: .avi, .bmp and .aac are in some tables only,    *)
(* .srt is an output of the worker, text/plain and .txt are in none.          *)
EXTENDS Integers

Mimes == {"video/mp4", "video/x-msvideo", "audio/mpeg", "audio/aac",
          "image/png", "image/bmp", "text/plain"}
Exts == {"none", ".mp4", ".avi", ".mp3", ".aac", ".png", ".bmp", ".txt"}

(* VIDEO_MIME_TYPES, AUDIO_MIME_TYPES and IMAGE_MIME_TYPES.                   *)
MimeClass(mime) ==
    CASE mime \in {"video/mp4", "video/x-msvideo"} -> "video"
      [] mime \in {"audio/mpeg", "audio/aac"} -> "audio"
      [] mime \in {"image/png", "image/bmp"} -> "image"
      [] OTHER -> "none"

(* VIDEO_FILE_EXTENSIONS, AUDIO_FILE_EXTENSIONS and IMAGE_FILE_EXTENSIONS.    *)
ExtClass(ext) ==
    CASE ext \in {".mp4", ".avi"} -> "video"
      [] ext \in {".mp3", ".aac"} -> "audio"
      [] ext \in {".png", ".bmp"} -> "image"
      [] OTHER -> "none"

(* detectMaterialType: the mime type first, then the name; none is refused.   *)
DetectMaterialType(mime, ext) ==
    IF MimeClass(mime) # "none" THEN MimeClass(mime) ELSE ExtClass(ext)

(* MIME_TO_EXT has no audio type and no image/bmp.                            *)
MimeToExt(mime) ==
    CASE mime = "video/mp4" -> ".mp4"
      [] mime = "video/x-msvideo" -> ".avi"
      [] mime = "image/png" -> ".png"
      [] OTHER -> ".bin"

(* Mutant: the stored name follows the mime type alone.                       *)
MimeAlone(mime, ext) == MimeToExt(mime)

(* buildUniqueFileName keeps the extension of the original name.              *)
StoredExt(mime, ext) == IF ext # "none" THEN ext ELSE MimeToExt(mime)

(* guessMimeType of the three storage services: "none" is octet-stream.       *)
GuessMimeType(store, ext) ==
    CASE store = "material" -> ExtClass(ext)
      [] store = "media" -> IF ext \in {".mp4", ".mp3", ".png"} THEN ExtClass(ext) ELSE "none"
      [] store = "draft" -> IF ext \in {".mp4", ".png"} THEN ExtClass(ext) ELSE "none"

(* The uploads that a store takes and serves: a material of a known type, a   *)
(* draft's video or cover by its mime type, and of the media jobs the video   *)
(* whose extension the watermarked output takes over.                         *)
Taken(store, mime, ext) ==
    CASE store = "material" -> DetectMaterialType(mime, ext) # "none"
      [] store = "draft" -> mime \in {"video/mp4", "video/x-msvideo", "image/png"}
      [] store = "media" -> MimeClass(mime) = "video" \/ ExtClass(ext) = "video"
==============================================================================
