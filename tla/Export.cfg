\* Two elements per array, memory a little past the largest buffer.
CONSTANTS
  ArrayLen = 2
  NUL = "NUL"
  Junk = "JUNK"
  Char <- SomeChars
  Document <- SomeDocuments
  BufSize <- SomeSizes
  Top = 280
SPECIFICATION AppenderSpec
INVARIANTS AppenderTypeOK Contract ReadsBack
